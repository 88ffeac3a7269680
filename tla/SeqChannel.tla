----------------------------- MODULE SeqChannel -----------------------------
(***************************************************************************)
(* One direction of one (hostId, epoch): a wire.Sender and a wire.Receiver *)
(* that outlive the transports between them (sessionProto, session.go).    *)
(* The transport is the worst the two are written for: it reorders, repeats *)
(* and loses frames and acks, and it breaks; a same-epoch reconnect tells  *)
(* the sender the receiver's watermark and the log above it is replayed.   *)
(*                                                                         *)
(* The first seq is Base + 1: hello.resume.up on a new epoch, 0 downwards. *)
(***************************************************************************)
EXTENDS Wire

CONSTANTS Payload,     \* what a frame may carry
          Base,        \* the retired high-water mark both ends start from
          Window,      \* limits.resumeWindow: parked frames at the receiver
          MaxFrames    \* bound: frames produced in one behaviour

ASSUME ChannelAssumption ==
    /\ Payload # {}
    /\ Base \in Nat
    /\ Window \in Nat \ {0}
    /\ MaxFrames \in Nat

VARIABLES snd,        \* wire.Sender
          rcv,        \* wire.Receiver
          frames,     \* << seq, payload >> pairs on the transport
          acks,       \* acknowledgements on the transport
          up,         \* a transport is connected
          versions,   \* history: versions[i] has every payload of seq Base + i
          delivered   \* history: payloads Accept returned, in order

vars == << snd, rcv, frames, acks, up, versions, delivered >>

\* The last seq the producer has numbered.
Produced == Base + Len(versions)

Init ==
    /\ snd \in {NewSender(Base), NewSender(0)}
    /\ rcv = NewReceiver(Base, Window)
    /\ frames = {} /\ acks = {} /\ up = TRUE
    /\ versions = << >> /\ delivered = << >>

-----------------------------------------------------------------------------
(* The sender. *)

\* A frame numbered by the sender itself (the hub's down direction).
SendAppend(p) ==
    /\ Len(versions) < MaxFrames
    /\ snd.next = Produced
    /\ snd' = SenderAppend(snd, p)
    /\ versions' = Append(versions, {p})
    /\ UNCHANGED << rcv, frames, acks, up, delivered >>

\* A frame numbered elsewhere (the host's event bus): the first one on a new
\* sender sets its baseline.
SendAppendAt(p) ==
    /\ Len(versions) < MaxFrames
    /\ AppendAtAllowed(snd, Produced + 1)
    /\ snd' = SenderAppendAt(snd, Produced + 1, p)
    /\ versions' = Append(versions, {p})
    /\ UNCHANGED << rcv, frames, acks, up, delivered >>

\* An unacknowledged entry gets a new payload under its old seq.
Elide(seq, p) ==
    /\ Elidable(snd, seq)
    /\ p # snd.log[seq]
    /\ snd' = SenderElide(snd, seq, p)
    /\ versions' = [versions EXCEPT ![seq - Base] = @ \cup {p}]
    /\ UNCHANGED << rcv, frames, acks, up, delivered >>

\* Any logged entry may be written at any time: first write, RTO replay,
\* replay after a reconnect.
Transmit(seq) ==
    /\ up
    /\ seq \in DOMAIN snd.log
    /\ << seq, snd.log[seq] >> \notin frames
    /\ frames' = frames \cup {<< seq, snd.log[seq] >>}
    /\ UNCHANGED << snd, rcv, acks, up, versions, delivered >>

ReceiveAck(n) ==
    /\ up
    /\ n \in acks
    /\ snd' = SenderAck(snd, n)
    /\ UNCHANGED << rcv, frames, acks, up, versions, delivered >>

-----------------------------------------------------------------------------
(* The receiver. *)

\* The frame stays on the transport: it may arrive again.
ReceiveFrame(seq, p) ==
    /\ up
    /\ << seq, p >> \in frames
    /\ ~Overflows(rcv, seq)
    /\ rcv' = AcceptReceiver(rcv, seq, p)
    /\ delivered' = delivered \o AcceptReady(rcv, seq, p)
    /\ UNCHANGED << snd, frames, acks, up, versions >>

\* A frame beyond the window closes the session: what is on the transport is
\* gone, what is parked stays.
Overflow(seq, p) ==
    /\ up
    /\ << seq, p >> \in frames
    /\ Overflows(rcv, seq)
    /\ up' = FALSE /\ frames' = {} /\ acks' = {}
    /\ UNCHANGED << snd, rcv, versions, delivered >>

SendAck ==
    /\ up
    /\ rcv.acked \notin acks
    /\ acks' = acks \cup {rcv.acked}
    /\ UNCHANGED << snd, rcv, frames, up, versions, delivered >>

-----------------------------------------------------------------------------
(* The transport. *)

Lose ==
    /\ \/ \E f \in frames : frames' = frames \ {f} /\ UNCHANGED acks
       \/ \E n \in acks : acks' = acks \ {n} /\ UNCHANGED frames
    /\ UNCHANGED << snd, rcv, up, versions, delivered >>

Disconnect ==
    /\ up
    /\ up' = FALSE /\ frames' = {} /\ acks' = {}
    /\ UNCHANGED << snd, rcv, versions, delivered >>

\* The handshake of a same-epoch resume carries the receiver's watermark.
Reconnect ==
    /\ ~up
    /\ up' = TRUE
    /\ snd' = SenderAck(snd, rcv.acked)
    /\ UNCHANGED << rcv, frames, acks, versions, delivered >>

-----------------------------------------------------------------------------

Next ==
    \/ \E p \in Payload : SendAppend(p) \/ SendAppendAt(p)
    \/ \E seq \in DOMAIN snd.log : Transmit(seq) \/ \E p \in Payload : Elide(seq, p)
    \/ \E n \in acks : ReceiveAck(n)
    \/ \E f \in frames : ReceiveFrame(f[1], f[2]) \/ Overflow(f[1], f[2])
    \/ SendAck \/ Lose \/ Disconnect \/ Reconnect

Spec == Init /\ [][Next]_vars

-----------------------------------------------------------------------------

\* Every part of the state has the shape the code's types give it; the window
\* is the advertised one.
TypeOK ==
    /\ snd = [next |-> snd.next, acked |-> snd.acked, log |-> snd.log]
    /\ snd.next \in Nat /\ snd.acked \in Nat
    /\ DOMAIN snd.log \subseteq Nat /\ \A q \in DOMAIN snd.log : snd.log[q] \in Payload
    /\ rcv = [acked |-> rcv.acked, window |-> Window, buf |-> rcv.buf]
    /\ rcv.acked \in Nat
    /\ DOMAIN rcv.buf \subseteq Nat /\ \A q \in DOMAIN rcv.buf : rcv.buf[q] \in Payload
    /\ frames \subseteq Nat \X Payload
    /\ acks \subseteq Nat
    /\ up \in BOOLEAN
    /\ versions \in Seq(SUBSET Payload)
    /\ delivered \in Seq(Payload)

\* ack = N means that every frame with seq <= N was applied: neither the
\* sender's watermark nor an ack on the transport is ever ahead of the
\* receiver (Sender.Ack, Receiver.Accept).
WatermarkHonest ==
    /\ snd.acked <= rcv.acked
    /\ \A n \in acks : n <= rcv.acked

\* Nothing can be lost: every seq the receiver has not applied is still in
\* the sender's log, through acks of any age and any number of reconnects.
RetainedUntilApplied ==
    \A seq \in (rcv.acked + 1) .. Produced : seq \in DOMAIN snd.log

\* The watermark counts exactly what was applied: the i-th payload Accept
\* handed over is one that seq Base + i carried, with no repetition, gap or
\* swap, though frames arrive in any order and several times.
AppliedInOrderOnce ==
    /\ Len(delivered) = rcv.acked - Base
    /\ \A i \in DOMAIN delivered : i <= Len(versions) /\ delivered[i] \in versions[i]

\* The parked frames fit the window and wait for a real gap: none of them
\* could have been applied already (the drain loop leaves no runnable frame).
ParkedBehindGap ==
    /\ Cardinality(DOMAIN rcv.buf) <= Window
    /\ \A seq \in DOMAIN rcv.buf : rcv.acked + 1 < seq /\ seq <= Produced

\* The channel implements the abstract promise.
Fifo == INSTANCE ReliableFifo WITH versions <- versions, delivered <- delivered
ImplementsFifo == Fifo!FifoSpec

-----------------------------------------------------------------------------
(***************************************************************************)
(* Liveness.  The session loop replays the oldest unacked entries on every *)
(* RTO and every accepted events frame is answered with an ack, so both    *)
(* are repeated for as long as they are needed; a host reconnects.  The    *)
(* transport must let the repeated frame and ack through now and then.     *)
(***************************************************************************)

TransmitOldest == \E seq \in DOMAIN snd.log :
                      (\A q \in DOMAIN snd.log : seq <= q) /\ Transmit(seq)

ReceiveNext == \E f \in frames : f[1] = rcv.acked + 1 /\ ReceiveFrame(f[1], f[2])

ReceiveNewAck == \E n \in acks : n = rcv.acked /\ ReceiveAck(n)

Fairness ==
    /\ SF_vars(TransmitOldest) /\ SF_vars(ReceiveNext)
    /\ SF_vars(SendAck) /\ SF_vars(ReceiveNewAck)
    /\ WF_vars(Reconnect)

FairSpec == Spec /\ Fairness

\* The unacked log drains: production being bounded, every frame is in the end
\* applied and released by an ack, whatever was parked, dropped by an overflow
\* or lost with a transport (the RTO replay of session.run, Receiver.Accept).
EventuallyReleased == <>[](DOMAIN snd.log = {})
=============================================================================
