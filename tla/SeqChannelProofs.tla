-------------------------- MODULE SeqChannelProofs --------------------------
(***************************************************************************)
(* Proofs about SeqChannel, for every payload set, baseline, window and    *)
(* number of frames: the type invariant, the safety invariants of its      *)
(* runs, and that the channel implements ReliableFifo.                     *)
(***************************************************************************)
EXTENDS SeqChannel, TLAPS, WellFoundedInduction, FiniteSetTheorems, SequenceTheorems

-----------------------------------------------------------------------------
(* Where the drain loop of Accept stops. *)

\* Every nonempty set of naturals has a least element (from the library's
\* well-foundedness of < on Nat, used with a set instead of a predicate).
LEMMA LeastElement ==
  ASSUME NEW T \in SUBSET Nat, T # {}
  PROVE  \E m \in T : \A k \in T : m <= k
<1> DEFINE R == OpToRel(<, Nat)
<1>1. IsWellFoundedOn(R, Nat)
  BY NatLessThanWellFounded
<1>2. \A x, y \in Nat : <<y, x>> \in R <=> y < x
  BY DEF OpToRel
<1> HIDE DEF R
<1>3. \E x \in T : \A y \in T : ~ (<<y, x>> \in R)
  BY <1>1, WFMin
<1>4. PICK x \in T : \A y \in T : ~ (<<y, x>> \in R)
  BY <1>3
<1>5. ASSUME NEW k \in T PROVE x <= k
  <2>1. x \in Nat /\ k \in Nat
    OBVIOUS
  <2>2. ~ (k < x)
    BY <1>2, <1>4, <2>1
  <2> QED BY <2>1, <2>2
<1> QED BY <1>5

\* RunEnd is well defined when the parked seqs are bounded: it is the end of
\* the contiguous parked run behind n, and at most the bound.
LEMMA RunEndIsEndOfRun ==
  ASSUME NEW buf, NEW n \in Nat, NEW top \in Nat, n <= top,
         DOMAIN buf \subseteq 0 .. top
  PROVE  LET k == RunEnd(buf, n)
         IN  /\ k \in Nat /\ n <= k /\ k <= top
             /\ \A q \in (n + 1) .. k : q \in DOMAIN buf
             /\ k + 1 \notin DOMAIN buf
<1> DEFINE Missing == {m \in Nat : m > n /\ m \notin DOMAIN buf}
           Good(k) == /\ n <= k
                      /\ (n + 1) .. k \subseteq DOMAIN buf
                      /\ k + 1 \notin DOMAIN buf
<1>1. Missing \in SUBSET Nat /\ top + 1 \in Missing
  OBVIOUS
<1>2. PICK m \in Missing : \A j \in Missing : m <= j
  BY <1>1, LeastElement
<1>3. m \in Nat /\ n < m /\ m \notin DOMAIN buf
  BY <1>2
<1>4. (n + 1) .. (m - 1) \subseteq DOMAIN buf
  BY <1>2, <1>3
<1>5. m - 1 \in {n} \cup DOMAIN buf
  BY <1>3, <1>4
<1>6. Good(m - 1)
  BY <1>3, <1>4
<1>7. \E k \in {n} \cup DOMAIN buf : Good(k)
  BY <1>5, <1>6
<1>8. RunEnd(buf, n) \in {n} \cup DOMAIN buf /\ Good(RunEnd(buf, n))
  BY <1>7 DEF RunEnd
<1> QED
  BY <1>8

-----------------------------------------------------------------------------
(***************************************************************************)
(* The inductive invariant.  WatermarkHonest and RetainedUntilApplied are  *)
(* not inductive by themselves: they need what the log holds exactly       *)
(* (everything produced above the watermark), where parked frames lie, and *)
(* that every copy of a frame (logged, in flight, parked) carries a        *)
(* payload its seq has had.                                                *)
(***************************************************************************)

SenderInv ==
    /\ snd.next = Produced \/ (snd.next = 0 /\ Len(versions) = 0)
    /\ snd.acked <= rcv.acked
    /\ \A q \in Nat : q \in DOMAIN snd.log <=> (Base < q /\ q <= Produced /\ snd.acked < q)
    /\ \A q \in DOMAIN snd.log : snd.log[q] \in versions[q - Base]

ReceiverInv ==
    /\ Base <= rcv.acked /\ rcv.acked <= Produced
    /\ \A q \in DOMAIN rcv.buf : /\ rcv.acked + 1 < q /\ q <= Produced
                                 /\ rcv.buf[q] \in versions[q - Base]

TransportInv ==
    /\ \A f \in frames : /\ Base < f[1] /\ f[1] <= Produced
                         /\ f[2] \in versions[f[1] - Base]
    /\ \A n \in acks : n <= rcv.acked

IInv == TypeOK /\ SenderInv /\ ReceiverInv /\ TransportInv /\ AppliedInOrderOnce

\* A channel starts in order.
LEMMA InitIInv == Init => IInv
<1> USE ChannelAssumption
<1> SUFFICES ASSUME Init PROVE IInv
  OBVIOUS
<1>1. TypeOK
  BY DEF Init, TypeOK, NewSender, NewReceiver
<1>2. SenderInv /\ ReceiverInv /\ TransportInv /\ AppliedInOrderOnce
  BY DEF Init, SenderInv, ReceiverInv, TransportInv, AppliedInOrderOnce, NewSender, NewReceiver, Produced
<1> QED BY <1>1, <1>2 DEF IInv

-----------------------------------------------------------------------------
(* One lemma per group of actions. *)

\* Sending the next frame keeps it.
LEMMA SendIInv ==
  ASSUME IInv, NEW p \in Payload, SendAppend(p) \/ SendAppendAt(p)
  PROVE  IInv'
<1> USE ChannelAssumption
<1>0. UNCHANGED << rcv, frames, acks, up, delivered >>
  BY DEF SendAppend, SendAppendAt
<1>1. /\ versions' \in Seq(SUBSET Payload)
      /\ Len(versions') = Len(versions) + 1
      /\ \A i \in 1 .. Len(versions) : versions'[i] = versions[i]
      /\ versions'[Len(versions) + 1] = {p}
      /\ Len(versions) \in Nat
  <2>1. versions' = Append(versions, {p})
    BY DEF SendAppend, SendAppendAt
  <2>2. versions \in Seq(SUBSET Payload) /\ {p} \in SUBSET Payload
    BY DEF IInv, TypeOK
  <2> QED BY <2>1, <2>2, AppendProperties
<1>2. /\ snd'.next = Produced + 1 /\ snd'.acked = snd.acked
      /\ DOMAIN snd'.log = DOMAIN snd.log \cup {Produced + 1}
      /\ \A q \in DOMAIN snd'.log : snd'.log[q] = IF q = Produced + 1 THEN p ELSE snd.log[q]
      /\ snd' = [next |-> snd'.next, acked |-> snd'.acked, log |-> snd'.log]
  BY DEF IInv, TypeOK, SendAppend, SendAppendAt, SenderAppend, SenderAppendAt, LogAppend
<1>3. Produced' = Produced + 1 /\ Produced \in Nat
  BY <1>1 DEF Produced
<1>4. TypeOK'
  <2>1. \A q \in DOMAIN snd'.log : q \in Nat /\ snd'.log[q] \in Payload
    BY <1>2, <1>3 DEF IInv, TypeOK
  <2> QED BY <2>1, <1>0, <1>1, <1>2, <1>3 DEF IInv, TypeOK
<1>5. \A q \in Nat : Base < q /\ q <= Produced => versions'[q - Base] = versions[q - Base]
  BY <1>1 DEF Produced
<1>6. SenderInv'
  <2>1. (snd.next = Produced \/ (snd.next = 0 /\ Len(versions) = 0))' /\ (snd.acked <= rcv.acked)'
    BY <1>0, <1>2, <1>3 DEF IInv, SenderInv
  <2>2. ASSUME NEW q \in Nat
        PROVE  q \in DOMAIN snd'.log <=> (Base < q /\ q <= Produced' /\ snd'.acked < q)
    BY <1>2, <1>3 DEF IInv, TypeOK, SenderInv, ReceiverInv
  <2>3. ASSUME NEW q \in DOMAIN snd'.log
        PROVE  snd'.log[q] \in versions'[q - Base]
    <3>1. CASE q = Produced + 1
      BY <3>1, <1>1, <1>2 DEF Produced
    <3>2. CASE q # Produced + 1
      BY <3>2, <1>2, <1>5 DEF IInv, TypeOK, SenderInv
    <3> QED BY <3>1, <3>2
  <2> QED BY <2>1, <2>2, <2>3 DEF SenderInv
<1>7. ReceiverInv'
  <2>1. /\ Base <= rcv.acked /\ rcv.acked <= Produced /\ rcv.acked \in Nat
        /\ \A q \in DOMAIN rcv.buf : /\ q \in Nat /\ rcv.acked + 1 < q /\ q <= Produced
                                     /\ rcv.buf[q] \in versions[q - Base]
    BY DEF IInv, TypeOK, ReceiverInv
  <2>2. \A q \in DOMAIN rcv.buf : versions'[q - Base] = versions[q - Base]
    BY <2>1, <1>3, <1>5
  <2> QED BY <2>1, <2>2, <1>0, <1>3 DEF ReceiverInv
<1>8. TransportInv'
  <2>1. /\ \A f \in frames : /\ f[1] \in Nat /\ Base < f[1] /\ f[1] <= Produced
                             /\ f[2] \in versions[f[1] - Base]
        /\ \A n \in acks : n <= rcv.acked
    BY DEF IInv, TypeOK, TransportInv
  <2>2. \A f \in frames : versions'[f[1] - Base] = versions[f[1] - Base]
    BY <2>1, <1>3, <1>5
  <2> QED BY <2>1, <2>2, <1>0, <1>3 DEF TransportInv
<1>9. AppliedInOrderOnce'
  BY <1>0, <1>1 DEF IInv, TypeOK, AppliedInOrderOnce
<1> QED BY <1>4, <1>6, <1>7, <1>8, <1>9 DEF IInv

\* So does passing over a sequence number.
LEMMA ElideIInv ==
  ASSUME IInv, NEW seq \in DOMAIN snd.log, NEW p \in Payload, Elide(seq, p)
  PROVE  IInv'
<1> USE ChannelAssumption
<1>0. seq \in Nat /\ Base < seq /\ seq <= Produced /\ Len(versions) \in Nat
  BY DEF IInv, TypeOK, SenderInv
<1>1. /\ versions' \in Seq(SUBSET Payload)
      /\ Len(versions') = Len(versions)
      /\ \A i \in 1 .. Len(versions) : versions[i] \subseteq versions'[i]
      /\ p \in versions'[seq - Base]
  BY <1>0 DEF IInv, TypeOK, Elide, Produced
<1>2. /\ snd'.next = snd.next /\ snd'.acked = snd.acked
      /\ DOMAIN snd'.log = DOMAIN snd.log
      /\ \A q \in DOMAIN snd.log : snd'.log[q] = IF q = seq THEN p ELSE snd.log[q]
      /\ snd' = [next |-> snd'.next, acked |-> snd'.acked, log |-> snd'.log]
  BY DEF IInv, TypeOK, Elide, SenderElide
<1>3. UNCHANGED << rcv, frames, acks, up, delivered >> /\ Produced' = Produced
  BY <1>1 DEF Elide, Produced
<1>4. TypeOK'
  BY <1>1, <1>2, <1>3 DEF IInv, TypeOK
<1>5. \A q \in Nat : Base < q /\ q <= Produced => versions[q - Base] \subseteq versions'[q - Base]
  BY <1>1 DEF Produced
<1>6. SenderInv'
  <2>1. ASSUME NEW q \in DOMAIN snd.log
        PROVE  snd'.log[q] \in versions'[q - Base]
    BY <1>1, <1>2, <1>5 DEF IInv, TypeOK, SenderInv
  <2> QED BY <2>1, <1>1, <1>2, <1>3 DEF IInv, SenderInv
<1>7. ReceiverInv'
  BY <1>3, <1>5 DEF IInv, TypeOK, ReceiverInv
<1>8. TransportInv'
  BY <1>3, <1>5 DEF IInv, TypeOK, TransportInv
<1>9. AppliedInOrderOnce'
  BY <1>1, <1>3 DEF IInv, TypeOK, AppliedInOrderOnce
<1> QED BY <1>4, <1>6, <1>7, <1>8, <1>9 DEF IInv

\* An ack that is not ahead of the receiver keeps the invariant.
LEMMA AckIInv ==
  ASSUME IInv, NEW n \in Nat, n <= rcv.acked,
         snd' = SenderAck(snd, n),
         UNCHANGED << rcv, frames, acks, versions, delivered >>, up' \in BOOLEAN
  PROVE  IInv'
<1> USE ChannelAssumption
<1> DEFINE m == IF n > snd.next THEN snd.next ELSE n
<1>1. CASE m <= snd.acked
  BY <1>1 DEF SenderAck, IInv, TypeOK, SenderInv, ReceiverInv, TransportInv, AppliedInOrderOnce, Produced
<1>2. CASE m > snd.acked
  <2>1. m \in Nat /\ m <= rcv.acked
    BY DEF IInv, TypeOK
  <2>2. /\ snd'.next = snd.next /\ snd'.acked = m
        /\ DOMAIN snd'.log = {d \in DOMAIN snd.log : d > m}
        /\ \A q \in DOMAIN snd'.log : snd'.log[q] = snd.log[q]
        /\ snd' = [next |-> snd'.next, acked |-> snd'.acked, log |-> snd'.log]
    BY <1>2, <2>1 DEF SenderAck, IInv, TypeOK
  <2>3. TypeOK'
    BY <2>1, <2>2 DEF IInv, TypeOK
  <2>4. SenderInv'
    BY <1>2, <2>1, <2>2 DEF IInv, TypeOK, SenderInv, Produced
  <2> QED BY <2>3, <2>4 DEF IInv, ReceiverInv, TransportInv, AppliedInOrderOnce, Produced
<1> QED BY <1>1, <1>2 DEF IInv, TypeOK

\* A frame that is the next one: it and the parked run behind it are applied.
LEMMA ReceiveNextIInv ==
  ASSUME IInv, NEW seq \in Nat, NEW p \in Payload, ReceiveFrame(seq, p), IsNext(rcv, seq)
  PROVE  IInv'
<1> USE ChannelAssumption
<1> DEFINE k == RunEnd(rcv.buf, seq)
           ready == AcceptReady(rcv, seq, p)
<1>0. /\ UNCHANGED << snd, frames, acks, up, versions >>
      /\ rcv' = DrainBehind(rcv, seq) /\ delivered' = delivered \o ready
  BY DEF ReceiveFrame, AcceptReceiver
<1>1. /\ seq \in Nat /\ p \in Payload /\ seq = rcv.acked + 1 /\ rcv.acked \in Nat
      /\ Base <= rcv.acked /\ seq <= Produced /\ p \in versions[seq - Base]
      /\ Produced \in Nat
  <2>1. << seq, p >> \in frames
    BY DEF ReceiveFrame
  <2> QED BY <2>1 DEF IInv, TypeOK, TransportInv, ReceiverInv, IsNext, Produced
<1>2. /\ k \in Nat /\ seq <= k /\ k <= Produced
      /\ \A q \in (seq + 1) .. k : q \in DOMAIN rcv.buf
      /\ k + 1 \notin DOMAIN rcv.buf
  <2>1. DOMAIN rcv.buf \subseteq 0 .. Produced
    BY <1>1 DEF IInv, TypeOK, ReceiverInv
  <2> QED BY <1>1, <2>1, RunEndIsEndOfRun
<1>3. /\ rcv'.acked = k
      /\ DOMAIN rcv'.buf = {d \in DOMAIN rcv.buf : d > k}
      /\ \A q \in DOMAIN rcv'.buf : rcv'.buf[q] = rcv.buf[q]
      /\ rcv' = [acked |-> rcv'.acked, window |-> Window, buf |-> rcv'.buf]
  BY <1>0, <1>2 DEF DrainBehind, IInv, TypeOK
<1>4. /\ ready = [i \in 1 .. (k - seq + 1) |-> IF i = 1 THEN p ELSE rcv.buf[seq + i - 1]]
      /\ k - seq + 1 \in Nat
  BY <1>1, <1>2 DEF AcceptReady
<1> HIDE DEF k, ready
<1>5. \A q \in DOMAIN rcv.buf : /\ q \in Nat /\ rcv.acked + 1 < q /\ q <= Produced
                                /\ rcv.buf[q] \in versions[q - Base] /\ rcv.buf[q] \in Payload
  BY DEF IInv, TypeOK, ReceiverInv
<1>6. \A i \in 1 .. (k - seq + 1) :
          ready[i] \in Payload /\ ready[i] \in versions[rcv.acked - Base + i]
  <2>1. ASSUME NEW i \in 1 .. (k - seq + 1), i # 1
        PROVE  ready[i] \in Payload /\ ready[i] \in versions[rcv.acked - Base + i]
    <3>1. seq + i - 1 \in (seq + 1) .. k
      BY <1>1, <1>2, <2>1
    <3>2. ready[i] = rcv.buf[seq + i - 1] /\ seq + i - 1 \in DOMAIN rcv.buf
      BY <1>2, <1>4, <2>1, <3>1
    <3>3. seq + i - 1 - Base = rcv.acked - Base + i
      BY <1>1
    <3> QED BY <1>5, <3>2, <3>3
  <2>2. 1 \in 1 .. (k - seq + 1) => ready[1] = p /\ seq - Base = rcv.acked - Base + 1
    BY <1>1, <1>4
  <2> QED BY <1>1, <2>1, <2>2
<1>7. ready \in Seq(Payload) /\ Len(ready) = k - seq + 1
  BY <1>4, <1>6, IsASeq
<1>8. /\ delivered \in Seq(Payload) /\ Len(delivered) = rcv.acked - Base
      /\ Len(versions) \in Nat /\ Produced = Base + Len(versions)
      /\ \A i \in DOMAIN delivered : i <= Len(versions) /\ delivered[i] \in versions[i]
  BY DEF IInv, TypeOK, AppliedInOrderOnce, Produced
<1>9. /\ delivered' \in Seq(Payload) /\ Len(delivered') = k - Base
      /\ \A i \in 1 .. (k - Base) :
            delivered'[i] = IF i <= rcv.acked - Base THEN delivered[i]
                            ELSE ready[i - (rcv.acked - Base)]
  <2>1. delivered' = delivered \o ready
    BY <1>0
  <2>2. /\ Len(delivered \o ready) = Len(delivered) + Len(ready)
        /\ delivered \o ready \in Seq(Payload)
        /\ \A i \in 1 .. Len(delivered) + Len(ready) :
              (delivered \o ready)[i] = IF i <= Len(delivered) THEN delivered[i]
                                        ELSE ready[i - Len(delivered)]
    BY <1>7, <1>8, ConcatProperties
  <2>3. Len(delivered) + Len(ready) = k - Base
    <3>1. Len(delivered) = rcv.acked - Base /\ Len(ready) = k - seq + 1
      BY <1>7, <1>8
    <3>2. (rcv.acked - Base) + (k - seq + 1) = k - Base
      BY <1>1, <1>2
    <3> QED BY <3>1, <3>2
  <2> QED BY <2>1, <2>2, <2>3, <1>8
<1>10. TypeOK'
  BY <1>0, <1>2, <1>3, <1>5, <1>9 DEF IInv, TypeOK
<1>11. SenderInv'
  BY <1>0, <1>1, <1>2, <1>3 DEF IInv, TypeOK, SenderInv, Produced
<1>12. ReceiverInv'
  <2>1. ASSUME NEW q \in DOMAIN rcv'.buf
        PROVE  k + 1 < q /\ q <= Produced /\ rcv'.buf[q] \in versions[q - Base]
    BY <1>2, <1>3, <1>5
  <2>2. Produced' = Produced
    BY <1>0 DEF Produced
  <2> QED BY <2>1, <2>2, <1>0, <1>1, <1>2, <1>3 DEF ReceiverInv
<1>13. TransportInv'
  BY <1>0, <1>1, <1>2, <1>3 DEF IInv, TypeOK, TransportInv, Produced
<1>14. AppliedInOrderOnce'
  <2>1. ASSUME NEW i \in 1 .. (k - Base)
        PROVE  i <= Len(versions) /\ delivered'[i] \in versions[i]
    <3>1. CASE i <= rcv.acked - Base
      <4>1. delivered'[i] = delivered[i]
        BY <3>1, <1>9
      <4>2. i \in DOMAIN delivered
        BY <3>1, <1>1, <1>8
      <4> QED BY <4>1, <4>2, <1>8
    <3>2. CASE i > rcv.acked - Base
      <4>1. /\ i - (rcv.acked - Base) \in 1 .. (k - seq + 1)
            /\ rcv.acked - Base + (i - (rcv.acked - Base)) = i
        BY <3>2, <1>1, <1>2
      <4>2. delivered'[i] = ready[i - (rcv.acked - Base)]
        BY <3>2, <1>1, <1>2, <1>9
      <4>3. i <= Len(versions)
        BY <1>1, <1>2, <1>8
      <4> QED BY <4>1, <4>2, <4>3, <1>6
    <3> QED BY <3>1, <3>2, <1>1, <1>2
  <2>2. DOMAIN delivered' = 1 .. (k - Base) /\ k - Base \in Nat
    BY <1>1, <1>2, <1>9
  <2> QED BY <2>1, <2>2, <1>0, <1>3, <1>9 DEF AppliedInOrderOnce
<1> QED BY <1>10, <1>11, <1>12, <1>13, <1>14 DEF IInv

\* A frame behind a gap is parked; a duplicate changes nothing.
LEMMA ReceiveEarlyIInv ==
  ASSUME IInv, NEW seq \in Nat, NEW p \in Payload, ReceiveFrame(seq, p), ~IsNext(rcv, seq)
  PROVE  IInv'
<1> USE ChannelAssumption
<1>0. /\ UNCHANGED << snd, frames, acks, up, versions >>
      /\ rcv' = AcceptReceiver(rcv, seq, p) /\ delivered' = delivered \o << >>
  BY DEF ReceiveFrame, AcceptReady
<1>1. delivered' = delivered
  BY <1>0, ConcatEmptySeq DEF IInv, TypeOK
<1>2. Produced' = Produced /\ Produced \in Nat
  BY <1>0 DEF Produced, IInv, TypeOK
<1>3. CASE rcv' = rcv
  BY <1>0, <1>1, <1>2, <1>3 DEF IInv, TypeOK, SenderInv, ReceiverInv, TransportInv, AppliedInOrderOnce
<1>4. CASE rcv' = Park(rcv, seq, p) /\ IsGap(rcv, seq)
  <2>1. /\ seq \in Nat /\ p \in Payload /\ rcv.acked + 1 < seq /\ seq <= Produced
        /\ p \in versions[seq - Base]
    <3>1. << seq, p >> \in frames
      BY DEF ReceiveFrame
    <3> QED BY <1>4, <3>1 DEF IInv, TypeOK, TransportInv, IsGap
  <2>2. /\ rcv'.acked = rcv.acked
        /\ DOMAIN rcv'.buf = DOMAIN rcv.buf \cup {seq}
        /\ \A q \in DOMAIN rcv'.buf : rcv'.buf[q] = IF q = seq THEN p ELSE rcv.buf[q]
        /\ rcv' = [acked |-> rcv'.acked, window |-> Window, buf |-> rcv'.buf]
    BY <1>4 DEF Park, IInv, TypeOK
  <2>3. TypeOK'
    BY <1>0, <1>1, <2>1, <2>2 DEF IInv, TypeOK
  <2>4. ReceiverInv'
    BY <1>0, <1>2, <2>1, <2>2 DEF IInv, TypeOK, ReceiverInv
  <2> QED BY <1>0, <1>1, <1>2, <2>2, <2>3, <2>4 DEF IInv, SenderInv, TransportInv, AppliedInOrderOnce
<1> QED BY <1>0, <1>3, <1>4 DEF AcceptReceiver

\* What the transport does by itself loses frames and acks, never adds any.
LEMMA TransportIInv ==
  ASSUME IInv, \/ \E seq \in DOMAIN snd.log : Transmit(seq)
               \/ \E f \in frames : Overflow(f[1], f[2])
               \/ SendAck \/ Lose \/ Disconnect
  PROVE  IInv'
<1>1. CASE \E seq \in DOMAIN snd.log : Transmit(seq)
  <2>1. PICK seq \in DOMAIN snd.log : Transmit(seq)
    BY <1>1
  <2>2. /\ seq \in Nat /\ Base < seq /\ seq <= Produced /\ snd.log[seq] \in Payload
        /\ snd.log[seq] \in versions[seq - Base]
    BY DEF IInv, TypeOK, SenderInv
  <2>3. /\ UNCHANGED << snd, rcv, acks, up, versions, delivered >> /\ Produced' = Produced
        /\ frames' = frames \cup {<< seq, snd.log[seq] >>}
    BY <2>1 DEF Transmit, Produced
  <2>4. TypeOK'
    BY <2>2, <2>3 DEF IInv, TypeOK
  <2>5. TransportInv'
    BY <2>2, <2>3 DEF IInv, TypeOK, TransportInv
  <2> QED BY <2>3, <2>4, <2>5 DEF IInv, SenderInv, ReceiverInv, AppliedInOrderOnce
<1>2. CASE SendAck
  BY <1>2 DEF SendAck, IInv, TypeOK, SenderInv, ReceiverInv, TransportInv, AppliedInOrderOnce, Produced
<1>3. CASE \/ \E f \in frames : Overflow(f[1], f[2])
           \/ Lose \/ Disconnect
  <2>1. /\ UNCHANGED << snd, rcv, versions, delivered >> /\ Produced' = Produced
        /\ frames' \subseteq frames /\ acks' \subseteq acks /\ up' \in BOOLEAN
    BY <1>3 DEF Overflow, Lose, Disconnect, Produced, IInv, TypeOK
  <2> QED BY <2>1 DEF IInv, TypeOK, SenderInv, ReceiverInv, TransportInv, AppliedInOrderOnce
<1> QED BY <1>1, <1>2, <1>3

\* The invariant is inductive.
THEOREM Invariance == Spec => []IInv
<1>1. Init => IInv
  BY InitIInv
<1>2. IInv /\ [Next]_vars => IInv'
  <2> SUFFICES ASSUME IInv, [Next]_vars PROVE IInv'
    OBVIOUS
  <2>1. ASSUME NEW p \in Payload, SendAppend(p) \/ SendAppendAt(p) PROVE IInv'
    BY <2>1, SendIInv
  <2>2. ASSUME NEW seq \in DOMAIN snd.log, NEW p \in Payload, Elide(seq, p) PROVE IInv'
    BY <2>2, ElideIInv
  <2>3. ASSUME NEW n \in acks, ReceiveAck(n) PROVE IInv'
    <3>1. n \in Nat /\ n <= rcv.acked /\ up \in BOOLEAN
      BY DEF IInv, TypeOK, TransportInv
    <3>2. snd' = SenderAck(snd, n) /\ UNCHANGED << rcv, frames, acks, up, versions, delivered >>
      BY <2>3 DEF ReceiveAck
    <3> QED BY <3>1, <3>2, AckIInv
  <2>4. ASSUME NEW f \in frames, ReceiveFrame(f[1], f[2]) PROVE IInv'
    <3>1. f[1] \in Nat /\ f[2] \in Payload
      BY DEF IInv, TypeOK
    <3>2. CASE IsNext(rcv, f[1])
      BY <2>4, <3>1, <3>2, ReceiveNextIInv
    <3>3. CASE ~IsNext(rcv, f[1])
      BY <2>4, <3>1, <3>3, ReceiveEarlyIInv
    <3> QED BY <3>2, <3>3
  <2>5. CASE Reconnect
    <3>1. rcv.acked \in Nat /\ rcv.acked <= rcv.acked
      BY DEF IInv, TypeOK
    <3>2. /\ snd' = SenderAck(snd, rcv.acked) /\ up' \in BOOLEAN
          /\ UNCHANGED << rcv, frames, acks, versions, delivered >>
      BY <2>5 DEF Reconnect
    <3> QED BY <3>1, <3>2, AckIInv
  <2>6. CASE UNCHANGED vars
    BY <2>6 DEF vars, IInv, TypeOK, SenderInv, ReceiverInv, TransportInv, AppliedInOrderOnce, Produced
  <2> QED BY <2>1, <2>2, <2>3, <2>4, <2>5, <2>6, TransportIInv DEF Next
<1> QED BY <1>1, <1>2, PTL DEF Spec

\* Every reachable state is well typed, whatever the constants.
THEOREM TypeCorrect == Spec => []TypeOK
<1>1. IInv => TypeOK
  BY DEF IInv
<1> QED BY <1>1, Invariance, PTL

\* No watermark is ahead of what was applied, and nothing unapplied leaves
\* the sender's log: no history of acks, losses and reconnects loses a frame.
THEOREM NothingLost == Spec => [](WatermarkHonest /\ RetainedUntilApplied)
<1>1. IInv => WatermarkHonest /\ RetainedUntilApplied
  <2> SUFFICES ASSUME IInv PROVE WatermarkHonest /\ RetainedUntilApplied
    OBVIOUS
  <2>1. WatermarkHonest
    BY DEF IInv, WatermarkHonest, SenderInv, TransportInv
  <2>2. ASSUME NEW seq \in (rcv.acked + 1) .. Produced PROVE seq \in DOMAIN snd.log
    BY ChannelAssumption DEF IInv, TypeOK, SenderInv, ReceiverInv, Produced
  <2> QED BY <2>1, <2>2 DEF RetainedUntilApplied
<1> QED BY <1>1, Invariance, PTL

\* The receiver applies a gapless, repetition-free prefix of what was
\* produced, in order.
THEOREM InOrderOnce == Spec => []AppliedInOrderOnce
<1>1. IInv => AppliedInOrderOnce
  BY DEF IInv
<1> QED BY <1>1, Invariance, PTL

-----------------------------------------------------------------------------
(* The resume window. *)

Parked == IsFiniteSet(DOMAIN rcv.buf) /\ Cardinality(DOMAIN rcv.buf) <= Window

\* Parked frames never exceed the advertised window and always wait for a
\* frame that is missing.
THEOREM WindowBound == Spec => []ParkedBehindGap
<1> USE ChannelAssumption
<1>1. Init => Parked
  BY FS_EmptySet DEF Init, Parked, NewReceiver
<1>2. IInv /\ Parked /\ [Next]_vars => Parked'
  <2> SUFFICES ASSUME IInv, Parked, [Next]_vars PROVE Parked'
    OBVIOUS
  <2>1. CASE UNCHANGED rcv
    BY <2>1 DEF Parked
  <2>2. ASSUME NEW f \in frames, ReceiveFrame(f[1], f[2]) PROVE Parked'
    <3> DEFINE B == DOMAIN rcv.buf
    <3>1. rcv' = AcceptReceiver(rcv, f[1], f[2]) /\ ~Overflows(rcv, f[1]) /\ rcv.window = Window
      BY <2>2 DEF ReceiveFrame, IInv, TypeOK
    <3>2. CASE DOMAIN rcv'.buf \subseteq B
      <4>1. IsFiniteSet(DOMAIN rcv'.buf) /\ Cardinality(DOMAIN rcv'.buf) <= Cardinality(B)
        BY <3>2, FS_Subset DEF Parked
      <4>2. Cardinality(B) \in Nat /\ Cardinality(DOMAIN rcv'.buf) \in Nat
        BY <4>1, FS_CardinalityType DEF Parked
      <4> QED BY <4>1, <4>2 DEF Parked
    <3>3. CASE DOMAIN rcv'.buf = B \cup {f[1]} /\ f[1] \notin B /\ ~(Cardinality(B) >= rcv.window)
      <4>1. /\ IsFiniteSet(B \cup {f[1]}) /\ Cardinality(B) \in Nat
            /\ Cardinality(B \cup {f[1]}) = Cardinality(B) + 1
        BY <3>3, FS_AddElement, FS_CardinalityType DEF Parked
      <4> QED BY <3>1, <3>3, <4>1 DEF Parked
    <3>4. CASE IsNext(rcv, f[1])
      <4>1. DOMAIN rcv'.buf \subseteq B
        BY <3>1, <3>4 DEF AcceptReceiver, DrainBehind
      <4> QED BY <3>2, <4>1
    <3>5. CASE ~IsNext(rcv, f[1]) /\ IsGap(rcv, f[1])
      <4>1. DOMAIN rcv'.buf = B \cup {f[1]}
        BY <3>1, <3>5 DEF AcceptReceiver, Park
      <4>2. f[1] \notin B /\ ~(Cardinality(B) >= rcv.window)
        BY <3>1, <3>5 DEF Overflows, IsGap
      <4> QED BY <3>3, <4>1, <4>2
    <3>6. CASE ~IsNext(rcv, f[1]) /\ ~IsGap(rcv, f[1])
      BY <2>1, <3>1, <3>6 DEF AcceptReceiver
    <3> QED BY <3>4, <3>5, <3>6
  <2>3. UNCHANGED rcv \/ \E f \in frames : ReceiveFrame(f[1], f[2])
    BY DEF Next, vars, SendAppend, SendAppendAt, Transmit, Elide, ReceiveAck, Overflow,
           SendAck, Lose, Disconnect, Reconnect
  <2> QED BY <2>1, <2>2, <2>3
<1>3. IInv /\ Parked => ParkedBehindGap
  BY DEF IInv, Parked, ParkedBehindGap, ReceiverInv
<1> QED BY <1>1, <1>2, <1>3, Invariance, PTL DEF Spec

-----------------------------------------------------------------------------
(* Refinement. *)

\* An accepted next frame hands over a nonempty run of items.
LEMMA ReceiveDelivers ==
  ASSUME IInv, IInv', NEW seq \in Nat, NEW p \in Payload, ReceiveFrame(seq, p)
  PROVE  UNCHANGED << versions, delivered >> \/ Fifo!Deliver
<1> USE ChannelAssumption
<1>1. CASE ~IsNext(rcv, seq)
  <2>1. delivered' = delivered \o << >> /\ versions' = versions
    BY <1>1 DEF ReceiveFrame, AcceptReady
  <2> QED BY <2>1, ConcatEmptySeq DEF IInv, TypeOK
<1>2. CASE IsNext(rcv, seq)
  <2> DEFINE ready == AcceptReady(rcv, seq, p)
             k == RunEnd(rcv.buf, seq)
  <2>1. /\ rcv' = DrainBehind(rcv, seq) /\ delivered' = delivered \o ready
        /\ versions' = versions /\ << seq, p >> \in frames
    BY <1>2 DEF ReceiveFrame, AcceptReceiver
  <2>2. rcv'.acked = k
    BY <2>1 DEF DrainBehind
  <2>3. k \in Nat /\ seq <= k /\ seq = rcv.acked + 1 /\ rcv.acked \in Nat
    <3>1. Produced \in Nat /\ seq <= Produced
      BY <2>1 DEF IInv, TypeOK, TransportInv, Produced
    <3>2. DOMAIN rcv.buf \subseteq 0 .. Produced
      BY <3>1 DEF IInv, TypeOK, ReceiverInv
    <3>3. k \in Nat /\ seq <= k
      BY <3>1, <3>2, RunEndIsEndOfRun
    <3> QED BY <3>3, <1>2 DEF IsNext, IInv, TypeOK
  <2>4. /\ delivered \in Seq(Payload) /\ delivered' \in Seq(Payload)
        /\ Len(delivered) = rcv.acked - Base /\ Len(delivered') = k - Base
    BY <2>2 DEF IInv, TypeOK, AppliedInOrderOnce
  <2>5. \A i \in DOMAIN delivered : delivered'[i] = delivered[i]
    <3>1. ready = [i \in 1 .. (k - seq + 1) |-> IF i = 1 THEN p ELSE rcv.buf[seq + i - 1]]
      BY <1>2 DEF AcceptReady
    <3>2. k - seq + 1 \in Nat
      BY <2>3
    <3>3. ready \in Seq({ready[i] : i \in 1 .. (k - seq + 1)})
      BY <3>1, <3>2, IsASeq
    <3> HIDE DEF ready
    <3>4. delivered \in Seq(Payload \cup {ready[i] : i \in 1 .. (k - seq + 1)})
          /\ ready \in Seq(Payload \cup {ready[i] : i \in 1 .. (k - seq + 1)})
      BY <2>4, <3>3, SeqMonotonic
    <3> QED BY <2>1, <3>4, ConcatProperties
  <2>6. \A i \in DOMAIN delivered' : i <= Len(versions) /\ delivered'[i] \in versions[i]
    BY <2>1 DEF IInv, AppliedInOrderOnce
  <2>7. Len(delivered) < Len(delivered')
    BY <2>3, <2>4
  <2>8. Len(delivered') <= Len(versions)
    <3>1. Len(delivered') \in DOMAIN delivered'
      BY <2>4, <2>7
    <3> QED BY <2>6, <3>1
  <2>9. \A i \in (Len(delivered) + 1) .. Len(delivered') : delivered'[i] \in versions[i]
    BY <2>4, <2>6
  <2> QED BY <2>1, <2>4, <2>5, <2>7, <2>8, <2>9 DEF Fifo!Deliver
<1> QED BY <1>1, <1>2

\* The log, the window, the acks and the reconnects together implement the
\* abstract promise of an exactly-once, in-order, gapless channel.
THEOREM Refinement == Spec => ImplementsFifo
<1> USE ChannelAssumption
<1>1. Init => Fifo!FifoInit
  BY DEF Init, Fifo!FifoInit
<1>2. IInv /\ IInv' /\ [Next]_vars => [Fifo!FifoNext]_(Fifo!fifoVars)
  <2> SUFFICES ASSUME IInv, IInv', [Next]_vars
               PROVE  UNCHANGED << versions, delivered >> \/ Fifo!FifoNext
    BY DEF Fifo!fifoVars
  <2>1. ASSUME NEW p \in Payload, SendAppend(p) \/ SendAppendAt(p) PROVE Fifo!Produce
    BY <2>1 DEF SendAppend, SendAppendAt, Fifo!Produce
  <2>2. ASSUME NEW seq \in DOMAIN snd.log, NEW p \in Payload, Elide(seq, p) PROVE Fifo!Revise
    <3>1. seq - Base \in DOMAIN versions
      BY DEF IInv, TypeOK, SenderInv, Produced
    <3> QED BY <2>2, <3>1 DEF Elide, Fifo!Revise
  <2>3. ASSUME NEW f \in frames, ReceiveFrame(f[1], f[2])
        PROVE  UNCHANGED << versions, delivered >> \/ Fifo!Deliver
    <3>1. f[1] \in Nat /\ f[2] \in Payload
      BY DEF IInv, TypeOK
    <3> QED BY <2>3, <3>1, ReceiveDelivers
  <2>4. \/ UNCHANGED << versions, delivered >>
        \/ \E p \in Payload : SendAppend(p) \/ SendAppendAt(p)
        \/ \E seq \in DOMAIN snd.log, p \in Payload : Elide(seq, p)
        \/ \E f \in frames : ReceiveFrame(f[1], f[2])
    BY DEF Next, vars, Transmit, ReceiveAck, Overflow, SendAck, Lose, Disconnect, Reconnect
  <2> QED BY <2>1, <2>2, <2>3, <2>4 DEF Fifo!FifoNext
<1> QED BY <1>1, <1>2, Invariance, PTL DEF Spec, ImplementsFifo, Fifo!FifoSpec
=============================================================================
