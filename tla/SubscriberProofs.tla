-------------------------- MODULE SubscriberProofs --------------------------
(***************************************************************************)
(* Proofs about one browser page, for any number of hosts and any size of  *)
(* ring, slack, channel and batch: resets stay in front of the events of   *)
(* their epoch, silent losses stay below the threshold, and every critical *)
(* loss is announced.                                                      *)
(***************************************************************************)
EXTENDS Subscriber, TLAPS, FiniteSetTheorems, NaturalsInduction, WellFoundedInduction,
        SequenceTheorems

-----------------------------------------------------------------------------
(* The inductive invariant, in parts.  Shapes first. *)

Evs     == [type : {"bulk", "critical", "reset"}, host : Hosts, epoch : Nat] \cup {HubEvent}
Resyncs == [type : {"resync"}, host : Hosts \cup {NoHost}, stamp : Nat]
Items   == Evs \cup Resyncs

Dropping == {"drop", "reset", "queue"}

\* What a goroutine delivers is of its host, or hub-level.
Origin(s) == IF s \in Hosts THEN s ELSE NoHost

FanOK(s) == /\ act[s].pc \in {"idle", "deliver"} \cup Dropping
            /\ act[s].pc # "idle" => act[s].ev \in Evs /\ act[s].ev.host = Origin(s)

PumpOK == /\ act[Pump].pc \in {"top", "wait", "send", "event", "pop", "done"} \cup Dropping
          /\ act[Pump].pc \in {"event"} \cup Dropping => act[Pump].ev \in Evs
          /\ act[Pump].pc = "send" => act[Pump].ev \in Resyncs

\* From the peek to the pop the pump's event is the head of the ring.
HeadOK == act[Pump].pc \in {"event", "pop"} \cup Dropping =>
              ring # << >> /\ (act[Pump].pc = "event" => act[Pump].ev = Head(ring))

TypeInv ==
    /\ ring \in Seq(Evs) /\ ch \in Seq(Items) /\ batch \in Seq(Items) /\ writing \in Seq(Items)
    /\ pending \in Resyncs \cup {NoFrame}
    /\ DOMAIN act = Actors /\ PumpOK /\ HeadOK /\ \A s \in Sources : FanOK(s)
    /\ epoch \in [Hosts -> Nat] /\ crit \in [Hosts -> Nat] /\ lostReset \in [Hosts -> Nat]
    /\ silent \in Nat /\ dropped \in Nat /\ stopped \in BOOLEAN /\ replaced \in SUBSET Resyncs

-----------------------------------------------------------------------------
(* Facts about sequences. *)

\* What is in a sequence after an append ...
LEMMA AppendSet ==
  ASSUME NEW S, NEW s \in Seq(S), NEW x \in S
  PROVE  ToSet(Append(s, x)) = ToSet(s) \cup {x}
<1>1. /\ DOMAIN Append(s, x) = 1 .. (Len(s) + 1) /\ Append(s, x)[Len(s) + 1] = x
      /\ \A i \in 1 .. Len(s) : Append(s, x)[i] = s[i]
      /\ DOMAIN s = 1 .. Len(s) /\ Len(s) \in Nat
  OBVIOUS
<1> QED BY <1>1 DEF ToSet

\* ... and without its head.
LEMMA TailSet ==
  ASSUME NEW S, NEW s \in Seq(S), s # << >>
  PROVE  /\ Head(s) = s[1] /\ Head(s) \in S /\ Tail(s) \in Seq(S)
         /\ DOMAIN s = 1 .. Len(s) /\ Len(s) \in Nat \ {0}
         /\ DOMAIN Tail(s) = 1 .. (Len(s) - 1) /\ \A i \in 1 .. (Len(s) - 1) : Tail(s)[i] = s[i + 1]
         /\ ToSet(s) = {Head(s)} \cup ToSet(Tail(s))
<1>1. /\ Head(s) = s[1] /\ Head(s) \in S /\ Tail(s) \in Seq(S)
      /\ DOMAIN s = 1 .. Len(s) /\ Len(s) \in Nat \ {0}
      /\ DOMAIN Tail(s) = 1 .. (Len(s) - 1) /\ \A i \in 1 .. (Len(s) - 1) : Tail(s)[i] = s[i + 1]
  OBVIOUS
<1>2. \A i \in 1 .. Len(s) : i = 1 \/ (i - 1 \in 1 .. (Len(s) - 1) /\ i - 1 + 1 = i)
  BY <1>1
<1>3. \A i \in 1 .. (Len(s) - 1) : i + 1 \in 1 .. Len(s)
  BY <1>1
<1>4. ToSet(s) \subseteq {Head(s)} \cup ToSet(Tail(s))
  <2> SUFFICES ASSUME NEW i \in 1 .. Len(s) PROVE s[i] \in {Head(s)} \cup ToSet(Tail(s))
    BY <1>1 DEF ToSet
  <2>1. i # 1 => i - 1 \in DOMAIN Tail(s) /\ Tail(s)[i - 1] = s[i]
    BY <1>1, <1>2
  <2> QED BY <1>1, <2>1 DEF ToSet
<1>5. {Head(s)} \cup ToSet(Tail(s)) \subseteq ToSet(s)
  BY <1>1, <1>3 DEF ToSet
<1> QED BY <1>1, <1>4, <1>5

\* A nonempty set of naturals has a least element.
LEMMA LeastElement ==
  ASSUME NEW T \in SUBSET Nat, T # {}
  PROVE  \E m \in T : \A k \in T : m <= k
<1> DEFINE R == OpToRel(<, Nat)
<1>1. IsWellFoundedOn(R, Nat)
  BY NatLessThanWellFounded
<1>2. \A x, y \in Nat : << y, x >> \in R <=> y < x
  BY DEF OpToRel
<1> HIDE DEF R
<1>3. PICK m \in T : \A k \in T : ~(<< k, m >> \in R)
  BY <1>1, WFMin
<1>4. \A k \in T : m \in Nat /\ k \in Nat /\ ~(k < m)
  BY <1>2, <1>3
<1> QED BY <1>4

\* A frame is the beginning of what is being written, and at least one item of it.
LEMMA FrameSplits ==
  ASSUME NEW s \in Seq(Items), s # << >>
  PROVE  \E n \in 1 .. Len(s) : NextFrame(s) = << SubSeq(s, 1, n), SubSeq(s, n + 1, Len(s)) >>
<1> DEFINE resets == {i \in DOMAIN s : s[i].type = "reset"}
           least  == CHOOSE i \in resets : \A j \in resets : i <= j
           n == IF resets = {} THEN Len(s) ELSE IF least = 1 THEN 1 ELSE least - 1
<1>1. DOMAIN s = 1 .. Len(s) /\ Len(s) \in Nat /\ Len(s) # 0
  OBVIOUS
<1>2. resets # {} => least \in resets
  <2> SUFFICES ASSUME resets # {} PROVE least \in resets
    OBVIOUS
  <2>1. resets \subseteq Nat
    BY <1>1
  <2>2. PICK i \in resets : \A j \in resets : i <= j
    BY <2>1, LeastElement
  <2> QED BY <2>2
<1>3. n \in 1 .. Len(s)
  BY <1>1, <1>2
<1>4. NextFrame(s) = << SubSeq(s, 1, n), SubSeq(s, n + 1, Len(s)) >>
  BY DEF NextFrame
<1> QED BY <1>3, <1>4

\* The two parts of a sequence cut at n.
LEMMA CutSet ==
  ASSUME NEW S, NEW s \in Seq(S), NEW n \in 1 .. Len(s)
  PROVE  /\ SubSeq(s, 1, n) \in Seq(S) /\ SubSeq(s, n + 1, Len(s)) \in Seq(S)
         /\ DOMAIN SubSeq(s, 1, n) = 1 .. n /\ \A i \in 1 .. n : SubSeq(s, 1, n)[i] = s[i]
         /\ DOMAIN SubSeq(s, n + 1, Len(s)) = 1 .. (Len(s) - n)
         /\ \A i \in 1 .. (Len(s) - n) : SubSeq(s, n + 1, Len(s))[i] = s[n + i]
         /\ DOMAIN s = 1 .. Len(s) /\ Len(s) \in Nat
         /\ ToSet(s) = ToSet(SubSeq(s, 1, n)) \cup ToSet(SubSeq(s, n + 1, Len(s)))
<1> DEFINE a == SubSeq(s, 1, n)
           b == SubSeq(s, n + 1, Len(s))
<1>0. DOMAIN s = 1 .. Len(s) /\ Len(s) \in Nat /\ (\A i \in 1 .. Len(s) : s[i] \in S)
  OBVIOUS
<1>1. a \in Seq(S) /\ Len(a) = n /\ \A i \in 1 .. n : a[i] = s[i]
  <2>1. a \in Seq(S) /\ Len(a) = n /\ \A i \in 1 .. n : a[i] = s[1 + i - 1]
    <3>1. \A i \in 1 .. n : s[i] \in S
      BY <1>0
    <3>2. n \in Int /\ 1 \in Int /\ 1 <= n /\ n - 1 + 1 = n
      BY <1>0
    <3> HIDE DEF a
    <3> QED BY <3>1, <3>2, SubSeqProperties DEF a
  <2>2. \A i \in 1 .. n : 1 + i - 1 = i
    BY <1>0
  <2> QED BY <2>1, <2>2
<1>2. b \in Seq(S) /\ Len(b) = Len(s) - n /\ \A i \in 1 .. (Len(s) - n) : b[i] = s[n + i]
  <2>1. \A i \in (n + 1) .. Len(s) : s[i] \in S
    BY <1>0
  <2>2. n + 1 \in Int /\ Len(s) \in Int /\ Len(s) - (n + 1) + 1 = Len(s) - n /\ (n + 1 <= Len(s) <=> n < Len(s)) /\ n <= Len(s)
    BY <1>0
  <2>3. /\ b \in Seq(S) /\ Len(b) = (IF n + 1 <= Len(s) THEN Len(s) - n ELSE 0)
        /\ \A i \in 1 .. (Len(s) - n) : b[i] = s[(n + 1) + i - 1]
    BY <2>1, <2>2, SubSeqProperties
  <2>4. \A i \in 1 .. (Len(s) - n) : (n + 1) + i - 1 = n + i
    BY <1>0
  <2>5. n + 1 <= Len(s) \/ Len(s) - n = 0
    <3> DEFINE l == Len(s)
    <3>1. l \in Nat /\ n \in 1 .. l
      BY <1>0
    <3> HIDE DEF l
    <3>2. n + 1 <= l \/ l - n = 0
      BY <3>1
    <3> QED BY <3>2 DEF l
  <2> HIDE DEF b
  <2>6. Len(b) = Len(s) - n
    BY <2>3, <2>5
  <2>7. \A i \in 1 .. (Len(s) - n) : b[i] = s[n + i]
    BY <2>3, <2>4
  <2> QED BY <2>3, <2>6, <2>7
<1>7. DOMAIN a = 1 .. n /\ DOMAIN b = 1 .. (Len(s) - n)
  BY <1>1, <1>2
<1> HIDE DEF a, b
<1>3. \A i \in 1 .. Len(s) : i \in 1 .. n \/ (i - n \in 1 .. (Len(s) - n) /\ n + (i - n) = i)
  BY <1>0
<1>4. \A i \in 1 .. (Len(s) - n) : n + i \in 1 .. Len(s)
  BY <1>0
<1>5. ToSet(s) \subseteq ToSet(a) \cup ToSet(b)
  <2> SUFFICES ASSUME NEW i \in 1 .. Len(s) PROVE s[i] \in ToSet(a) \cup ToSet(b)
    BY <1>0 DEF ToSet
  <2>1. CASE i \in 1 .. n
    BY <1>1, <1>7, <2>1 DEF ToSet
  <2>2. CASE i - n \in 1 .. (Len(s) - n) /\ n + (i - n) = i
    <3>1. b[i - n] = s[i] /\ i - n \in DOMAIN b
      BY <1>2, <1>7, <2>2
    <3> QED BY <3>1 DEF ToSet
  <2> QED BY <1>3, <2>1, <2>2
<1>6. ToSet(a) \subseteq ToSet(s) /\ ToSet(b) \subseteq ToSet(s)
  <2>1. ToSet(a) \subseteq ToSet(s)
    BY <1>0, <1>1, <1>7 DEF ToSet
  <2>2. ToSet(b) \subseteq ToSet(s)
    <3> SUFFICES ASSUME NEW i \in 1 .. (Len(s) - n) PROVE b[i] \in ToSet(s)
      BY <1>7 DEF ToSet
    <3> QED BY <1>0, <1>2, <1>4 DEF ToSet
  <2> QED BY <2>1, <2>2
<1> QED BY <1>0, <1>1, <1>2, <1>5, <1>6, <1>7 DEF a, b

-----------------------------------------------------------------------------
(* What a step may do to the actors. *)

\* One actor moves on, the others stay.
LEMMA GoIs ==
  ASSUME DOMAIN act = Actors, NEW a \in Actors, NEW pc, NEW ev, act' = Go(a, pc, ev)
  PROVE  /\ DOMAIN act' = Actors /\ act'[a].pc = pc /\ act'[a].ev = ev
         /\ \A b \in Actors \ {a} : act'[b] = act[b]
BY DEF Go

\* The pump is not one of the goroutines that deliver, and those of the hosts are
\* not among the others.
LEMMA Apart ==
  /\ Pump \in Actors /\ Pump \notin Hosts /\ \A s \in Sources : s \in Actors /\ s # Pump
  /\ \A h \in Hosts : h \in Sources /\ h \in Actors /\ h # Pump /\ h # NoHost /\ Origin(h) = h
  /\ \A b \in Broadcasters : b \in Sources /\ b \notin Hosts /\ Origin(b) = NoHost
  /\ \A s \in Sources : s \in Hosts \/ s \in Broadcasters
BY ActorsApart DEF Actors, Sources, Origin

\* Only a host's goroutine has an event that is critical, a reset, or of a host.
LEMMA HostsOnly ==
  \A ev \in Evs : /\ ev.epoch \in Nat /\ Tag(ev) \in Hosts \cup {NoHost}
                  /\ CriticalEvent(ev) \/ ev.type = "reset" => ev.host \in Hosts
                  /\ ev.host \in Hosts \/ ev.host = NoHost
                  /\ ev.host = NoHost => ev = HubEvent
BY ActorsApart DEF Evs, HubEvent, Ev, Tag, CriticalEvent

\* The shapes of the actors after a step of a fan-out goroutine ...
LEMMA FanMoves ==
  ASSUME TypeInv, NEW h \in Sources, NEW pc, NEW ev, act' = Go(h, pc, ev),
         pc \in {"idle", "deliver"} \cup Dropping, pc # "idle" => ev \in Evs /\ ev.host = Origin(h)
  PROVE  DOMAIN act' = Actors /\ act'[Pump] = act[Pump] /\ PumpOK' /\ \A g \in Sources : FanOK(g)'
<1>1. /\ DOMAIN act' = Actors /\ act'[h].pc = pc /\ act'[h].ev = ev
      /\ \A b \in Actors \ {h} : act'[b] = act[b]
  BY Apart, GoIs DEF TypeInv
<1>2. act'[Pump] = act[Pump]
  BY <1>1, Apart
<1>3. PumpOK'
  BY <1>2 DEF TypeInv, PumpOK
<1>4. ASSUME NEW g \in Sources PROVE FanOK(g)'
  <2>1. CASE g = h
    BY <1>1, <2>1 DEF FanOK
  <2>2. CASE g # h
    <3>1. act'[g] = act[g]
      BY <1>1, <2>2, Apart
    <3> QED BY <3>1 DEF TypeInv, FanOK
  <2> QED BY <2>1, <2>2
<1> QED BY <1>1, <1>2, <1>3, <1>4

\* ... and of the pump.
LEMMA PumpMoves ==
  ASSUME TypeInv, NEW pc, NEW ev, act' = Go(Pump, pc, ev),
         pc \in {"top", "wait", "send", "event", "pop", "done"} \cup Dropping,
         pc \in {"event"} \cup Dropping => ev \in Evs, pc = "send" => ev \in Resyncs
  PROVE  DOMAIN act' = Actors /\ act'[Pump].pc = pc /\ act'[Pump].ev = ev /\ PumpOK' /\ \A g \in Sources : FanOK(g)'
<1>1. /\ DOMAIN act' = Actors /\ act'[Pump].pc = pc /\ act'[Pump].ev = ev
      /\ \A b \in Actors \ {Pump} : act'[b] = act[b]
  BY Apart, GoIs DEF TypeInv
<1>2. PumpOK'
  BY <1>1 DEF PumpOK
<1>3. \A g \in Sources : act'[g] = act[g]
  BY <1>1, Apart
<1>4. \A g \in Sources : FanOK(g)'
  BY <1>3 DEF TypeInv, FanOK
<1> QED BY <1>1, <1>2, <1>4

\* noteDrop of either.
LEMMA DropMoves ==
  ASSUME TypeInv, NEW a \in Actors, act[a].pc \in Dropping, NEW pc \in Dropping \cup {After(a)}, NEW ev,
         act' = Go(a, pc, ev), pc # After(a) => ev = act[a].ev, UNCHANGED ring
  PROVE  DOMAIN act' = Actors /\ PumpOK' /\ HeadOK' /\ \A g \in Sources : FanOK(g)'
<1>1. CASE a = Pump
  <2>1. After(a) = "pop" /\ pc \in Dropping \cup {"pop"}
    BY <1>1 DEF After
  <2>2. ring # << >>
    BY <1>1 DEF TypeInv, HeadOK
  <2>3. /\ DOMAIN act' = Actors /\ act'[Pump].pc = pc /\ PumpOK' /\ \A g \in Sources : FanOK(g)'
    BY <1>1, <2>1, PumpMoves DEF TypeInv, PumpOK, Dropping
  <2>4. HeadOK'
    BY <2>1, <2>2, <2>3 DEF HeadOK, Dropping
  <2> QED BY <2>3, <2>4
<1>2. CASE a \in Sources
  <2>1. After(a) = "idle"
    BY <1>2, Apart DEF After
  <2>2. DOMAIN act' = Actors /\ act'[Pump] = act[Pump] /\ PumpOK' /\ \A g \in Sources : FanOK(g)'
    BY <1>2, <2>1, FanMoves DEF TypeInv, FanOK, Dropping
  <2>3. HeadOK'
    BY <2>2 DEF TypeInv, HeadOK
  <2> QED BY <2>2, <2>3
<1> QED BY <1>1, <1>2 DEF Actors

-----------------------------------------------------------------------------
\* Every step keeps the shapes.
LEMMA TypeStep ==
  ASSUME TypeInv, [Next]_vars
  PROVE  TypeInv'
<1> USE DEF vars, ringVars, writerVars, bounds, histVars
<1>1. ASSUME NEW h \in Hosts, NEW t \in {"bulk", "critical", "reset"}, Publish(h, t) PROVE TypeInv'
  <2>1. epoch' \in [Hosts -> Nat]
    BY <1>1 DEF Publish, TypeInv
  <2>2. Ev(t, h, epoch'[h]) \in Evs /\ Ev(t, h, epoch'[h]).host = Origin(h)
    BY <1>1, <2>1, Apart DEF Ev, Evs
  <2>3. DOMAIN act' = Actors /\ act'[Pump] = act[Pump] /\ PumpOK' /\ \A g \in Sources : FanOK(g)'
    BY <1>1, <2>2, FanMoves, Apart DEF Publish
  <2> QED BY <1>1, <2>1, <2>3 DEF Publish, TypeInv, HeadOK
<1>18. ASSUME NEW b \in Broadcasters, Broadcast(b) PROVE TypeInv'
  <2>1. HubEvent \in Evs /\ HubEvent.host = Origin(b)
    BY Apart DEF Evs, HubEvent, Ev
  <2>2. DOMAIN act' = Actors /\ act'[Pump] = act[Pump] /\ PumpOK' /\ \A g \in Sources : FanOK(g)'
    BY <1>18, <2>1, FanMoves, Apart DEF Broadcast
  <2> QED BY <1>18, <2>2 DEF Broadcast, TypeInv, HeadOK
<1>2. ASSUME NEW h \in Sources, Enqueue(h) PROVE TypeInv'
  <2>1. act[h].ev \in Evs /\ act[h].ev.host = Origin(h)
    BY <1>2 DEF Enqueue, At, TypeInv, FanOK
  <2>2. DOMAIN act' = Actors /\ act'[Pump] = act[Pump] /\ PumpOK' /\ \A g \in Sources : FanOK(g)'
    <3>1. CASE act' = Go(h, "drop", act[h].ev)
      BY <2>1, <3>1, FanMoves DEF Dropping
    <3>2. CASE act' = Go(h, "idle", NoFrame)
      BY <3>2, FanMoves
    <3> QED BY <1>2, <3>1, <3>2 DEF Enqueue
  <2>3. ring' \in Seq(Evs)
    BY <1>2, <2>1 DEF Enqueue, TypeInv
  <2>4. crit' \in [Hosts -> Nat] /\ silent' \in Nat
    <3>1. crit' \in {crit, [crit EXCEPT ![h] = @ + 1]} /\ silent' \in {silent, silent + 1}
      BY <1>2 DEF Enqueue
    <3>2. [crit EXCEPT ![h] = @ + 1] \in [Hosts -> Nat]
      <4>1. crit \in [Hosts -> Nat] /\ \A x \in Hosts : crit[x] + 1 \in Nat
        BY DEF TypeInv
      <4> DEFINE f == [crit EXCEPT ![h] = @ + 1]
      <4>2. f = [x \in Hosts |-> IF x = h THEN crit[h] + 1 ELSE crit[x]]
        BY <4>1
      <4>3. \A x \in Hosts : (IF x = h THEN crit[h] + 1 ELSE crit[x]) \in Nat
        BY <4>1
      <4> QED BY <4>2, <4>3
    <3> QED BY <3>1, <3>2 DEF TypeInv
  <2>5. lostReset' \in [Hosts -> Nat]
    <3>1. act[h].ev.epoch \in Nat
      BY <2>1, HostsOnly
    <3> QED BY <1>2, <3>1 DEF Enqueue, TypeInv
  <2>6. HeadOK'
    <3>1. ring # << >> => ring' # << >> /\ Head(ring') = Head(ring)
      <4>1. ring \in Seq(Evs) /\ ring' \in {ring, Append(ring, act[h].ev)}
        BY <1>2 DEF Enqueue, TypeInv
      <4>2. ring # << >> => Append(ring, act[h].ev) # << >> /\ Head(Append(ring, act[h].ev)) = Head(ring)
        BY <2>1, <4>1
      <4> QED BY <4>1, <4>2
    <3> QED BY <2>2, <3>1 DEF TypeInv, HeadOK
  <2> QED BY <1>2, <2>2, <2>3, <2>4, <2>5, <2>6 DEF Enqueue, TypeInv
<1>3. ASSUME NEW a \in Actors, CountDrop(a) PROVE TypeInv'
  <2>1. DOMAIN act' = Actors /\ PumpOK' /\ HeadOK' /\ \A g \in Sources : FanOK(g)'
    <3>1. CASE act' = Go(a, "reset", act[a].ev)
      BY <1>3, <3>1, DropMoves DEF CountDrop, At, Dropping
    <3>2. CASE act' = Go(a, After(a), NoFrame)
      BY <1>3, <3>2, DropMoves DEF CountDrop, At, Dropping
    <3> QED BY <1>3, <3>1, <3>2 DEF CountDrop
  <2> QED BY <1>3, <2>1 DEF CountDrop, TypeInv
<1>4. ASSUME NEW a \in Actors, ResetCounter(a) PROVE TypeInv'
  <2>1. DOMAIN act' = Actors /\ PumpOK' /\ HeadOK' /\ \A g \in Sources : FanOK(g)'
    BY <1>4, DropMoves DEF ResetCounter, At, Dropping
  <2> QED BY <1>4, <2>1 DEF ResetCounter, TypeInv
<1>5. ASSUME NEW a \in Actors, QueueResync(a) PROVE TypeInv'
  <2>1. DOMAIN act' = Actors /\ PumpOK' /\ HeadOK' /\ \A g \in Sources : FanOK(g)'
    BY <1>5, DropMoves DEF QueueResync, At, Dropping
  <2>2. act[a].ev \in Evs
    BY <1>5 DEF QueueResync, At, TypeInv, FanOK, PumpOK, Dropping, Actors
  <2> DEFINE h == Tag(act[a].ev)
  <2>3. h \in Hosts \cup {NoHost}
    BY <2>2, HostsOnly
  <2>4. /\ pending' = Resync(h, Stamp(h))
        /\ replaced' = replaced \cup {r \in {pending} : r # NoFrame /\ r.host \notin {h, NoHost}}
    BY <1>5 DEF QueueResync
  <2> HIDE DEF h
  <2>5. Stamp(h) \in Nat
    BY <2>3, Apart DEF Stamp, TypeInv
  <2>6. pending' \in Resyncs /\ replaced' \in SUBSET Resyncs
    BY <2>3, <2>4, <2>5 DEF TypeInv, Resync, Resyncs
  <2> QED BY <1>5, <2>1, <2>6 DEF QueueResync, TypeInv
<1>6. ASSUME PumpTop PROVE TypeInv'
  <2>1. DOMAIN act' = Actors /\ PumpOK' /\ HeadOK' /\ \A g \in Sources : FanOK(g)'
    <3>1. CASE pending # NoFrame /\ act' = Go(Pump, "send", pending)
      <4>1. pending \in Resyncs
        BY <3>1 DEF TypeInv
      <4>2. DOMAIN act' = Actors /\ act'[Pump].pc = "send" /\ PumpOK' /\ \A g \in Sources : FanOK(g)'
        BY <3>1, <4>1, PumpMoves DEF Dropping
      <4> QED BY <4>2 DEF Dropping, HeadOK
    <3>2. CASE act' = Go(Pump, "wait", NoFrame)
      BY <3>2, PumpMoves DEF Dropping, HeadOK
    <3>3. CASE ring # << >> /\ act' = Go(Pump, "event", Head(ring))
      <4>1. Head(ring) \in Evs
        BY <3>3 DEF TypeInv
      <4> QED BY <1>6, <3>3, <4>1, PumpMoves DEF PumpTop, Dropping, HeadOK
    <3> QED BY <1>6, <3>1, <3>2, <3>3 DEF PumpTop
  <2> QED BY <1>6, <2>1 DEF PumpTop, PumpKeeps, TypeInv
<1>7. ASSUME PumpWait PROVE TypeInv'
  <2>1. DOMAIN act' = Actors /\ PumpOK' /\ HeadOK' /\ \A g \in Sources : FanOK(g)'
    <3>1. CASE act' = Go(Pump, "top", NoFrame)
      BY <3>1, PumpMoves DEF Dropping, HeadOK
    <3>2. CASE act' = Go(Pump, "done", NoFrame)
      BY <3>2, PumpMoves DEF Dropping, HeadOK
    <3> QED BY <1>7, <3>1, <3>2 DEF PumpWait
  <2> QED BY <1>7, <2>1 DEF PumpWait, PumpKeeps, TypeInv
<1>8. ASSUME PumpSend PROVE TypeInv'
  <2>1. act[Pump].ev \in Items
    BY <1>8 DEF PumpSend, At, TypeInv, PumpOK, Items
  <2>2. ch' \in Seq(Items)
    <3>1. ch \in Seq(Items) /\ Append(ch, act[Pump].ev) \in Seq(Items)
      BY <2>1 DEF TypeInv
    <3> QED BY <1>8, <3>1 DEF PumpSend
  <2>3. DOMAIN act' = Actors /\ PumpOK' /\ HeadOK' /\ \A g \in Sources : FanOK(g)'
    <3>1. CASE act' = Go(Pump, "top", NoFrame)
      BY <3>1, PumpMoves DEF Dropping, HeadOK
    <3>2. CASE ring # << >> /\ act' = Go(Pump, "pop", NoFrame)
      BY <1>8, <3>2, PumpMoves DEF PumpSend, Dropping, HeadOK
    <3>3. CASE act' = Go(Pump, "done", NoFrame)
      BY <3>3, PumpMoves DEF Dropping, HeadOK
    <3> QED BY <1>8, <3>1, <3>2, <3>3 DEF PumpSend, At, TypeInv, HeadOK
  <2> QED BY <1>8, <2>2, <2>3 DEF PumpSend, PumpKeeps, TypeInv
<1>9. ASSUME PumpTrySend PROVE TypeInv'
  <2>1. act[Pump].ev \in Evs
    BY <1>9 DEF PumpTrySend, At, TypeInv, PumpOK
  <2>5. ring # << >>
    BY <1>9 DEF PumpTrySend, At, TypeInv, HeadOK
  <2>2. ch' \in Seq(Items)
    BY <1>9, <2>1 DEF PumpTrySend, TypeInv, Items
  <2>3. DOMAIN act' = Actors /\ PumpOK' /\ HeadOK' /\ \A g \in Sources : FanOK(g)'
    <3>1. CASE act' = Go(Pump, "drop", act[Pump].ev)
      BY <1>9, <2>1, <2>5, <3>1, PumpMoves DEF PumpTrySend, Dropping, HeadOK
    <3>2. CASE act' = Go(Pump, "pop", NoFrame)
      BY <1>9, <2>5, <3>2, PumpMoves DEF PumpTrySend, Dropping, HeadOK
    <3>3. CASE act' = Go(Pump, "done", NoFrame)
      BY <3>3, PumpMoves DEF Dropping, HeadOK
    <3> QED BY <1>9, <3>1, <3>2, <3>3 DEF PumpTrySend
  <2>4. silent' \in Nat /\ lostReset' \in [Hosts -> Nat]
    <3>1. silent \in Nat /\ lostReset \in [Hosts -> Nat] /\ act[Pump].ev.epoch \in Nat
      BY <2>1, HostsOnly DEF TypeInv
    <3>2. silent' \in {silent, silent + 1}
          /\ lostReset' \in {lostReset, [lostReset EXCEPT ![act[Pump].ev.host] = act[Pump].ev.epoch]}
      BY <1>9 DEF PumpTrySend
    <3> QED BY <3>1, <3>2
  <2> QED BY <1>9, <2>2, <2>3, <2>4 DEF PumpTrySend, PumpKeeps, TypeInv
<1>10. ASSUME PumpPop PROVE TypeInv'
  <2>1. DOMAIN act' = Actors /\ PumpOK' /\ HeadOK' /\ \A g \in Sources : FanOK(g)'
    BY <1>10, PumpMoves DEF PumpPop, Dropping, HeadOK
  <2>2. ring' \in Seq(Evs)
    BY <1>10 DEF PumpPop, At, TypeInv, HeadOK
  <2> QED BY <1>10, <2>1, <2>2 DEF PumpPop, PumpKeeps, TypeInv
<1>11. ASSUME Take PROVE TypeInv'
  <2>1. ch' \in Seq(Items) /\ Append(batch, Head(ch)) \in Seq(Items)
    BY <1>11, TailSet DEF Take, TypeInv
  <2>2. batch' \in Seq(Items) /\ writing' \in Seq(Items)
    BY <1>11, <2>1 DEF Take, TypeInv
  <2> QED BY <1>11, <2>1, <2>2 DEF Take, WriterKeeps, TypeInv, PumpOK, HeadOK, FanOK
<1>12. ASSUME Flush PROVE TypeInv'
  BY <1>12 DEF Flush, WriterKeeps, TypeInv, PumpOK, HeadOK, FanOK
<1>13. ASSUME WriteFrame PROVE TypeInv'
  <2>1. NextFrame(writing)[2] \in Seq(Items)
    <3>1. writing \in Seq(Items) /\ writing # << >>
      BY <1>13 DEF WriteFrame, TypeInv
    <3>2. PICK n \in 1 .. Len(writing) :
              NextFrame(writing) = << SubSeq(writing, 1, n), SubSeq(writing, n + 1, Len(writing)) >>
      BY <3>1, FrameSplits
    <3> QED BY <3>1, <3>2, CutSet
  <2> QED BY <1>13, <2>1 DEF WriteFrame, WriterKeeps, TypeInv, PumpOK, HeadOK, FanOK
<1>14. ASSUME Leave PROVE TypeInv'
  BY <1>14 DEF Leave, WriterKeeps, TypeInv, PumpOK, HeadOK, FanOK
<1>15. ASSUME NEW h \in Hosts, Retarget(h) PROVE TypeInv'
  BY <1>15 DEF Retarget, TypeInv, PumpOK, HeadOK, FanOK
<1>16. ASSUME UNCHANGED vars PROVE TypeInv'
  BY <1>16 DEF TypeInv, PumpOK, HeadOK, FanOK
<1>17. ASSUME NEW a \in Actors, DropStep(a) PROVE TypeInv'
  BY <1>3, <1>4, <1>5, <1>17 DEF DropStep
<1> QED BY <1>1, <1>2, <1>6, <1>7, <1>8, <1>9, <1>10, <1>11, <1>12, <1>13, <1>14, <1>15, <1>16, <1>17, <1>18, Apart
        DEF Next, SourceStep, PumpStep, WriterStep

-----------------------------------------------------------------------------
(* Silent losses: each was counted since the counter was last reset, is about *)
(* to be, or a resync is about to be queued.                                  *)

Counting  == {a \in Actors : At(a, "drop")}
Resetting == {a \in Actors : At(a, "reset")}
Queueing  == {a \in Actors : At(a, "queue")}

SilentInv ==
    /\ IsFiniteSet(Counting)
    /\ dropped >= Threshold => Resetting # {}
    /\ silent <= dropped + Cardinality(Counting) \/ Resetting # {} \/ Queueing # {}

\* Only a moves, to pc.
Moved(a, pc) == act'[a].pc = pc /\ \A b \in Actors \ {a} : act'[b] = act[b]

\* A step that is not one of noteDrop, and loses nothing.
LEMMA SilentRest ==
  ASSUME SilentInv, UNCHANGED << silent, dropped >>,
         UNCHANGED act \/ \E a \in Actors : \E pc : Moved(a, pc) /\ {pc, act[a].pc} \cap Dropping = {}
  PROVE  SilentInv'
<1>1. Counting' = Counting /\ Resetting' = Resetting /\ Queueing' = Queueing
  BY DEF Counting, Resetting, Queueing, At, Moved, Dropping
<1>2. UNCHANGED Cardinality(Counting)
  BY <1>1
<1> QED BY <1>1, <1>2 DEF SilentInv

\* A loss.
LEMMA SilentLoss ==
  ASSUME TypeInv, SilentInv, NEW a \in Actors, act[a].pc \notin Dropping, Moved(a, "drop"),
         silent' \in {silent, silent + 1}, UNCHANGED dropped
  PROVE  SilentInv'
<1>1. Counting' = Counting \cup {a} /\ a \notin Counting /\ Resetting' = Resetting /\ Queueing' = Queueing
  BY DEF Counting, Resetting, Queueing, At, Moved, Dropping
<1>2. IsFiniteSet(Counting') /\ Cardinality(Counting') = Cardinality(Counting) + 1 /\ Cardinality(Counting) \in Nat
  BY <1>1, FS_AddElement, FS_CardinalityType DEF SilentInv
<1>3. silent \in Nat /\ dropped \in Nat
  BY DEF TypeInv
<1> DEFINE old == Cardinality(Counting)
           new == Cardinality(Counting')
<1>4. silent <= dropped + old => silent' <= dropped' + new
  BY <1>2, <1>3
<1> QED BY <1>1, <1>2, <1>4 DEF SilentInv

\* A loss is counted.
LEMMA SilentCounted ==
  ASSUME TypeInv, SilentInv, NEW a \in Actors, At(a, "drop"), NEW pc, Moved(a, pc), dropped' = dropped + 1, UNCHANGED silent,
         \/ pc = "reset"
         \/ pc \notin Dropping /\ dropped + 1 < Threshold
  PROVE  SilentInv'
<1>1. /\ Counting' = Counting \ {a} /\ a \in Counting /\ Queueing' = Queueing
      /\ Resetting' = IF pc = "reset" THEN Resetting \cup {a} ELSE Resetting
  <2>1. Counting' = Counting \ {a} /\ a \in Counting
    BY DEF Counting, At, Moved, Dropping
  <2>2. Queueing' = Queueing
    BY DEF Queueing, At, Moved, Dropping
  <2>3. Resetting' = IF pc = "reset" THEN Resetting \cup {a} ELSE Resetting
    BY DEF Resetting, At, Moved, Dropping
  <2> QED BY <2>1, <2>2, <2>3
<1>2. IsFiniteSet(Counting') /\ Cardinality(Counting') = Cardinality(Counting) - 1 /\ Cardinality(Counting) \in Nat
  BY <1>1, FS_RemoveElement, FS_CardinalityType DEF SilentInv
<1>3. silent \in Nat /\ dropped \in Nat /\ Threshold \in Nat
  BY SubscriberAssumption DEF TypeInv
<1> DEFINE old == Cardinality(Counting)
           new == Cardinality(Counting')
<1>4. silent <= dropped + old => silent' <= dropped' + new
  BY <1>2, <1>3
<1>5. dropped' >= Threshold => Resetting' # {}
  BY <1>1, <1>3
<1> QED BY <1>1, <1>2, <1>4, <1>5 DEF SilentInv

\* The counter is reset ...
LEMMA SilentReset ==
  ASSUME TypeInv, SilentInv, NEW a \in Actors, At(a, "reset"), Moved(a, "queue"), dropped' = 0
  PROVE  SilentInv'
<1>1. Counting' = Counting /\ a \in Queueing'
  BY DEF Counting, Queueing, At, Moved
<1>2. ~(dropped' >= Threshold)
  BY SubscriberAssumption
<1> QED BY <1>1, <1>2 DEF SilentInv

\* ... and the resync queued.
LEMMA SilentQueued ==
  ASSUME TypeInv, SilentInv, NEW a \in Actors, At(a, "queue"), NEW pc, pc \notin Dropping, Moved(a, pc),
         silent' = 0, UNCHANGED dropped
  PROVE  SilentInv'
<1>1. Counting' = Counting /\ Resetting' = Resetting
  BY DEF Counting, Resetting, At, Moved, Dropping
<1>2. silent' <= dropped' + Cardinality(Counting')
  <2>1. Cardinality(Counting) \in Nat /\ dropped' \in Nat
    BY FS_CardinalityType DEF TypeInv, SilentInv
  <2> QED BY <1>1, <2>1
<1> QED BY <1>1, <1>2 DEF SilentInv

\* Who moves in which step.
LEMMA FanStepMoves ==
  ASSUME TypeInv, NEW h \in Sources
  PROVE  /\ \A t : Publish(h, t) => Moved(h, "deliver") /\ act[h].pc = "idle"
         /\ Broadcast(h) => Moved(h, "deliver") /\ act[h].pc = "idle"
         /\ Enqueue(h) => act[h].pc = "deliver" /\ \E pc \in {"drop", "idle"} : Moved(h, pc)
<1>1. DOMAIN act = Actors /\ h \in Actors
  BY Apart DEF TypeInv
<1>2. ASSUME NEW pc, NEW ev, act' = Go(h, pc, ev) PROVE Moved(h, pc)
  BY <1>1, <1>2, GoIs DEF Moved
<1> QED BY <1>2 DEF Publish, Broadcast, Enqueue, At

\* Where each step of the pump starts and where it may end.
LEMMA PumpStepMoves ==
  ASSUME TypeInv
  PROVE  /\ PumpTop => act[Pump].pc = "top" /\ \E pc \in {"send", "wait", "event"} : Moved(Pump, pc)
         /\ PumpWait => act[Pump].pc = "wait" /\ \E pc \in {"top", "done"} : Moved(Pump, pc)
         /\ PumpSend => act[Pump].pc \in {"send", "event"} /\ \E pc \in {"top", "pop", "done"} : Moved(Pump, pc)
         /\ PumpTrySend => act[Pump].pc = "event" /\ \E pc \in {"drop", "pop", "done"} : Moved(Pump, pc)
         /\ PumpPop => act[Pump].pc = "pop" /\ Moved(Pump, "top")
<1>1. DOMAIN act = Actors /\ Pump \in Actors
  BY Apart DEF TypeInv
<1>2. ASSUME NEW pc, NEW ev, act' = Go(Pump, pc, ev) PROVE Moved(Pump, pc)
  BY <1>1, <1>2, GoIs DEF Moved
<1>3. PumpTop => act[Pump].pc = "top" /\ \E pc \in {"send", "wait", "event"} : Moved(Pump, pc)
  BY <1>2 DEF PumpTop, At
<1>4. PumpWait => act[Pump].pc = "wait" /\ \E pc \in {"top", "done"} : Moved(Pump, pc)
  BY <1>2 DEF PumpWait, At
<1>5. PumpSend => act[Pump].pc \in {"send", "event"} /\ \E pc \in {"top", "pop", "done"} : Moved(Pump, pc)
  BY <1>2 DEF PumpSend, At
<1>6. PumpTrySend => act[Pump].pc = "event" /\ \E pc \in {"drop", "pop", "done"} : Moved(Pump, pc)
  BY <1>2 DEF PumpTrySend, At
<1>7. PumpPop => act[Pump].pc = "pop" /\ Moved(Pump, "top")
  BY <1>2 DEF PumpPop, At
<1> QED BY <1>3, <1>4, <1>5, <1>6, <1>7

\* The three steps of noteDrop, and where they leave the goroutine.
LEMMA DropStepMoves ==
  ASSUME TypeInv, NEW a \in Actors
  PROVE  /\ CountDrop(a) => At(a, "drop") /\ Moved(a, IF Escalates(act[a].ev, dropped + 1) THEN "reset" ELSE After(a))
         /\ ResetCounter(a) => At(a, "reset") /\ Moved(a, "queue")
         /\ QueueResync(a) => At(a, "queue") /\ Moved(a, After(a))
         /\ After(a) \notin Dropping
<1>1. DOMAIN act = Actors
  BY DEF TypeInv
<1>2. After(a) \notin Dropping
  BY DEF After, Dropping
<1>3. ASSUME NEW pc, NEW ev, act' = Go(a, pc, ev) PROVE Moved(a, pc)
  BY <1>1, <1>3, GoIs DEF Moved
<1> QED BY <1>2, <1>3 DEF CountDrop, ResetCounter, QueueResync, Moved

\* Silent losses stay accounted for.
LEMMA SilentStep ==
  ASSUME TypeInv, SilentInv, [Next]_vars
  PROVE  SilentInv'
<1> USE DEF vars, ringVars, writerVars, bounds, histVars
<1>1. ASSUME NEW h \in Hosts, NEW t \in {"bulk", "critical", "reset"}, Publish(h, t) PROVE SilentInv'
  <2>1. h \in Actors /\ Moved(h, "deliver") /\ act[h].pc = "idle"
    BY <1>1, FanStepMoves, Apart
  <2>2. {"deliver", act[h].pc} \cap Dropping = {}
    BY <2>1 DEF Dropping
  <2> QED BY <1>1, <2>1, <2>2, SilentRest DEF Publish
<1>14. ASSUME NEW b \in Broadcasters, Broadcast(b) PROVE SilentInv'
  <2>1. b \in Actors /\ Moved(b, "deliver") /\ act[b].pc = "idle"
    BY <1>14, FanStepMoves, Apart
  <2>2. {"deliver", act[b].pc} \cap Dropping = {}
    BY <2>1 DEF Dropping
  <2> QED BY <1>14, <2>1, <2>2, SilentRest DEF Broadcast
<1>2. ASSUME NEW h \in Sources, Enqueue(h) PROVE SilentInv'
  <2>1. h \in Actors /\ act[h].pc = "deliver" /\ \E pc \in {"drop", "idle"} : Moved(h, pc)
    BY <1>2, FanStepMoves, Apart
  <2>2. CASE Moved(h, "drop")
    BY <1>2, <2>1, <2>2, SilentLoss DEF Enqueue, Dropping
  <2>3. CASE Moved(h, "idle")
    <3>1. {"idle", act[h].pc} \cap Dropping = {}
      BY <2>1 DEF Dropping
    <3>2. UNCHANGED << silent, dropped >>
      BY <1>2, <2>1, <2>3, GoIs DEF Enqueue, TypeInv, Moved
    <3> QED BY <2>1, <2>3, <3>1, <3>2, SilentRest
  <2> QED BY <2>1, <2>2, <2>3
<1>3. ASSUME NEW a \in Actors, CountDrop(a) PROVE SilentInv'
  <2>1. /\ At(a, "drop") /\ Moved(a, IF Escalates(act[a].ev, dropped + 1) THEN "reset" ELSE After(a))
        /\ After(a) \notin Dropping
    BY <1>3, DropStepMoves
  <2>2. dropped' = dropped + 1 /\ UNCHANGED silent /\ dropped + 1 \in Nat /\ Threshold \in Nat
    BY <1>3, SubscriberAssumption DEF CountDrop, TypeInv
  <2>3. CASE Escalates(act[a].ev, dropped + 1)
    BY <2>1, <2>2, <2>3, SilentCounted
  <2>4. CASE ~Escalates(act[a].ev, dropped + 1)
    <3>1. dropped + 1 < Threshold
      BY <2>2, <2>4 DEF Escalates
    <3> QED BY <2>1, <2>2, <2>4, <3>1, SilentCounted
  <2> QED BY <2>3, <2>4
<1>4. ASSUME NEW a \in Actors, ResetCounter(a) PROVE SilentInv'
  BY <1>4, DropStepMoves, SilentReset DEF ResetCounter
<1>5. ASSUME NEW a \in Actors, QueueResync(a) PROVE SilentInv'
  BY <1>5, DropStepMoves, SilentQueued DEF QueueResync
<1>6. ASSUME PumpTop PROVE SilentInv'
  BY <1>6, Apart, PumpStepMoves, SilentRest DEF PumpTop, PumpKeeps, Dropping
<1>7. ASSUME PumpWait PROVE SilentInv'
  BY <1>7, Apart, PumpStepMoves, SilentRest DEF PumpWait, PumpKeeps, Dropping
<1>8. ASSUME PumpSend PROVE SilentInv'
  BY <1>8, Apart, PumpStepMoves, SilentRest DEF PumpSend, PumpKeeps, Dropping
<1>9. ASSUME PumpTrySend PROVE SilentInv'
  <2>1. Pump \in Actors /\ act[Pump].pc = "event" /\ \E pc \in {"drop", "pop", "done"} : Moved(Pump, pc)
    BY <1>9, Apart, PumpStepMoves
  <2>2. CASE Moved(Pump, "drop")
    BY <1>9, <2>1, <2>2, SilentLoss DEF PumpTrySend, PumpKeeps, Dropping
  <2>3. CASE \E pc \in {"pop", "done"} : Moved(Pump, pc)
    <3>1. UNCHANGED << silent, dropped >>
      BY <1>9, <2>1, <2>3, GoIs DEF PumpTrySend, PumpKeeps, TypeInv, Moved
    <3>2. \A pc \in {"pop", "done"} : {pc, act[Pump].pc} \cap Dropping = {}
      BY <2>1 DEF Dropping
    <3> QED BY <2>1, <2>3, <3>1, <3>2, SilentRest
  <2> QED BY <2>1, <2>2, <2>3
<1>10. ASSUME PumpPop PROVE SilentInv'
  BY <1>10, Apart, PumpStepMoves, SilentRest DEF PumpPop, PumpKeeps, Dropping
<1>11. ASSUME Take \/ Flush \/ WriteFrame \/ Leave \/ UNCHANGED vars PROVE SilentInv'
  BY <1>11, SilentRest DEF Take, Flush, WriteFrame, Leave, WriterKeeps
<1>12. ASSUME NEW h \in Hosts, Retarget(h) PROVE SilentInv'
  BY <1>12, SilentRest DEF Retarget
<1>13. ASSUME NEW a \in Actors, DropStep(a) PROVE SilentInv'
  BY <1>3, <1>4, <1>5, <1>13 DEF DropStep
<1> QED BY <1>1, <1>2, <1>6, <1>7, <1>8, <1>9, <1>10, <1>11, <1>12, <1>13, <1>14, Apart DEF Next, SourceStep, PumpStep, WriterStep

-----------------------------------------------------------------------------
(* What has left the pump: a notice, that is a reset or a resync of a host,  *)
(* is never lost behind it while the page is connected.                      *)

Delivered == ToSet(ch) \cup ToSet(batch) \cup ToSet(writing) \cup shown

Notice(x) == x.type \in {"reset", "resync"} /\ x.host # NoHost

\* There is nothing in the empty sequence.
LEMMA EmptySet == ToSet(<< >>) = {}
BY DEF ToSet

\* The cut of a frame, as sets.
LEMMA FrameSets ==
  ASSUME TypeInv, writing # << >>
  PROVE  /\ ToSet(writing) = ToSet(NextFrame(writing)[1]) \cup ToSet(NextFrame(writing)[2])
         /\ NextFrame(writing)[1] \in Seq(Items) /\ NextFrame(writing)[2] \in Seq(Items)
<1>1. writing \in Seq(Items)
  BY DEF TypeInv
<1>2. PICK n \in 1 .. Len(writing) :
          NextFrame(writing) = << SubSeq(writing, 1, n), SubSeq(writing, n + 1, Len(writing)) >>
  BY <1>1, FrameSplits
<1>3. /\ NextFrame(writing)[1] = SubSeq(writing, 1, n)
      /\ NextFrame(writing)[2] = SubSeq(writing, n + 1, Len(writing))
  BY <1>2
<1>4. /\ SubSeq(writing, 1, n) \in Seq(Items) /\ SubSeq(writing, n + 1, Len(writing)) \in Seq(Items)
      /\ ToSet(writing) = ToSet(SubSeq(writing, 1, n)) \cup ToSet(SubSeq(writing, n + 1, Len(writing)))
  BY <1>1, CutSet
<1> QED BY <1>3, <1>4

\* What each step of the page's side does to that.
LEMMA TakeSets ==
  ASSUME TypeInv, Take
  PROVE  /\ Delivered' = Delivered
         /\ ch # << >> /\ ch' = Tail(ch) /\ UNCHANGED << shown, stopped >> /\ writing = << >>
         /\ \/ batch' = Append(batch, Head(ch)) /\ writing' = << >>
            \/ writing' = Append(batch, Head(ch)) /\ batch' = << >>
<1>1. ch \in Seq(Items) /\ batch \in Seq(Items) /\ ch # << >> /\ Head(ch) \in Items
  BY TailSet DEF TypeInv, Take
<1>2. /\ ch' = Tail(ch) /\ UNCHANGED << shown, stopped >> /\ writing = << >>
      /\ \/ batch' = Append(batch, Head(ch)) /\ writing' = << >>
         \/ writing' = Append(batch, Head(ch)) /\ batch' = << >>
  BY DEF Take, Selecting
<1>3. ToSet(Append(batch, Head(ch))) = ToSet(batch) \cup {Head(ch)} /\ ToSet(ch) = {Head(ch)} \cup ToSet(Tail(ch))
  BY <1>1, AppendSet, TailSet
<1>4. Delivered' = Delivered
  BY <1>2, <1>3, EmptySet DEF Delivered
<1> QED BY <1>1, <1>2, <1>4

\* A flush moves the batch to the writer and delivers nothing new.
LEMMA FlushSets ==
  ASSUME Flush
  PROVE  /\ Delivered' = Delivered
         /\ writing = << >> /\ writing' = batch /\ batch' = << >> /\ UNCHANGED << ch, shown, stopped >>
BY EmptySet DEF Flush, Selecting, Delivered

\* A written frame goes to the page: what it announces is still delivered.
LEMMA WriteSets ==
  ASSUME TypeInv, WriteFrame
  PROVE  /\ \A x : Notice(x) => (x \in Delivered' <=> x \in Delivered)
         /\ shown' = shown \cup {Seen(x) : x \in {y \in ToSet(NextFrame(writing)[1]) : y.host # NoHost}}
<1>1. /\ writing # << >> /\ writing' = NextFrame(writing)[2] /\ UNCHANGED << ch, batch >>
      /\ shown' = shown \cup {Seen(x) : x \in {y \in ToSet(NextFrame(writing)[1]) : y.host # NoHost}}
  BY DEF WriteFrame
<1>2. ToSet(writing) = ToSet(NextFrame(writing)[1]) \cup ToSet(NextFrame(writing)[2])
  BY <1>1, FrameSets
<1>3. \A x : Notice(x) => Seen(x) = x
  BY DEF Notice, Seen
<1>4. \A x, y : Notice(y) /\ Seen(x) = y => x = y
  BY DEF Notice, Seen, Ev
<1>6. \A x : Notice(x) => x.host # NoHost
  BY DEF Notice
<1> HIDE DEF Notice
<1> DEFINE frame == ToSet(NextFrame(writing)[1])
<1> HIDE DEF frame
<1>5. \A x : Notice(x) => (x \in {Seen(z) : z \in {y \in frame : y.host # NoHost}} <=> x \in frame)
  BY <1>3, <1>4, <1>6
<1> QED BY <1>1, <1>2, <1>5 DEF Delivered, frame

\* What the pump sends is added.
LEMMA SendSets ==
  ASSUME TypeInv
  PROVE  /\ PumpSend => \/ Delivered' = Delivered \cup {act[Pump].ev} /\ ch' = Append(ch, act[Pump].ev)
                        \/ stopped /\ Delivered' = Delivered /\ UNCHANGED ch
         /\ PumpTrySend => \/ Delivered' = Delivered \cup {act[Pump].ev} /\ ch' = Append(ch, act[Pump].ev)
                           \/ Delivered' = Delivered /\ UNCHANGED ch
         /\ PumpSend \/ PumpTrySend => UNCHANGED << batch, writing, shown, stopped >> /\ act[Pump].ev \in Items
<1>1. PumpSend \/ PumpTrySend => act[Pump].ev \in Items
  BY DEF PumpSend, PumpTrySend, At, TypeInv, PumpOK, Items
<1>2. act[Pump].ev \in Items => ToSet(Append(ch, act[Pump].ev)) = ToSet(ch) \cup {act[Pump].ev}
  BY AppendSet DEF TypeInv
<1>3. PumpSend => UNCHANGED << batch, writing, shown, stopped >> /\ (ch' = Append(ch, act[Pump].ev) \/ (stopped /\ UNCHANGED ch))
  <2>1. PumpSend => UNCHANGED << batch, writing, shown, stopped >>
    BY DEF PumpSend, PumpKeeps, writerVars
  <2>2. ASSUME PumpSend PROVE ch' = Append(ch, act[Pump].ev) \/ (stopped /\ UNCHANGED ch)
    <3>1. CASE ch' = Append(ch, act[Pump].ev)
      BY <3>1
    <3>2. CASE stopped /\ UNCHANGED ch
      BY <3>2
    <3> QED BY <2>2, <3>1, <3>2 DEF PumpSend
  <2> QED BY <2>1, <2>2
<1>4. PumpTrySend => UNCHANGED << batch, writing, shown, stopped >> /\ ch' \in {Append(ch, act[Pump].ev), ch}
  BY DEF PumpTrySend, PumpKeeps, writerVars
<1> QED BY <1>1, <1>2, <1>3, <1>4 DEF Delivered

\* Nothing is lost behind the pump but with the page.
LEMMA NoticesStay ==
  ASSUME TypeInv, [Next]_vars, ~stopped'
  PROVE  \A x : Notice(x) /\ x \in Delivered => x \in Delivered'
<1> USE DEF vars, ringVars, writerVars, bounds, histVars
<1> DEFINE Stay == \A x : Notice(x) /\ x \in Delivered => x \in Delivered'
<1>1. ASSUME \/ \E h \in Hosts : (\E t \in {"bulk", "critical", "reset"} : Publish(h, t)) \/ Retarget(h)
             \/ \E s \in Sources : Broadcast(s) \/ Enqueue(s) PROVE Stay
  BY <1>1 DEF Publish, Broadcast, Enqueue, Retarget, Delivered
<1>2. ASSUME NEW a \in Actors, DropStep(a) PROVE Stay
  BY <1>2 DEF DropStep, CountDrop, ResetCounter, QueueResync, Delivered
<1>3. ASSUME PumpTop \/ PumpWait \/ PumpPop \/ UNCHANGED vars PROVE Stay
  BY <1>3 DEF PumpTop, PumpWait, PumpPop, PumpKeeps, Delivered
<1>4. ASSUME PumpSend \/ PumpTrySend PROVE Stay
  BY <1>4, SendSets
<1>5. ASSUME Take PROVE Stay
  BY <1>5, TakeSets
<1>6. ASSUME Flush PROVE Stay
  BY <1>6, FlushSets
<1>7. ASSUME WriteFrame PROVE Stay
  BY <1>7, WriteSets
<1>8. ASSUME Leave PROVE Stay
  BY <1>8 DEF Leave
<1> HIDE DEF Stay
<1>9. Stay
  BY <1>1, <1>2, <1>3, <1>4, <1>5, <1>6, <1>7, <1>8, Apart DEF Next, SourceStep, PumpStep, WriterStep
<1> QED BY <1>9 DEF Stay

-----------------------------------------------------------------------------
(* Critical losses: the property is inductive by itself. *)

\* What has been written to the page, or will be, or has been replaced.
Way == OnTheWay \cup shown \cup replaced

\* Every resync that is on its way stays there, every critical loss in noteDrop too.
LEMMA AnnounceKept ==
  ASSUME CriticalDropAnnounced, UNCHANGED crit, stopped => stopped',
         \A h \in Hosts : Accounting(h) => Accounting(h)' \/ Resync(h, crit[h]) \in Way' \/ stopped',
         \A h \in Hosts : Resync(h, crit[h]) \in Way => Resync(h, crit[h]) \in Way' \/ stopped'
  PROVE  CriticalDropAnnounced'
<1> SUFFICES ASSUME NEW h \in Hosts, ~stopped'
             PROVE  crit[h] = 0 \/ Accounting(h)' \/ Resync(h, crit[h]) \in Way'
  BY DEF CriticalDropAnnounced, Way
<1>1. crit[h] = 0 \/ Accounting(h) \/ Resync(h, crit[h]) \in Way
  BY DEF CriticalDropAnnounced, Way
<1> QED BY <1>1

\* A resync of a host is told apart from events, and from an empty slot.
LEMMA ResyncIsNotice ==
  \A h \in Hosts : \A n : Notice(Resync(h, n)) /\ Resync(h, n) # NoFrame /\ Resync(h, n).host = h
BY Apart DEF Notice, Resync, NoFrame

\* Where a resync may be.
LEMMA WayIs ==
  /\ \A x : x \in Way <=> x \in Delivered \/ x \in replaced \/ x = pending \/ (act[Pump].pc = "send" /\ x = act[Pump].ev)
  /\ \A x : x \in Way' <=> x \in Delivered' \/ x \in replaced' \/ x = pending' \/ (act'[Pump].pc = "send" /\ x = act'[Pump].ev)
BY DEF Way, OnTheWay, Delivered, At

\* An actor that is not in noteDrop accounts for nothing.
LEMMA AccountingStays ==
  ASSUME NEW h \in Hosts,
         UNCHANGED act \/ \E a \in Actors : \E pc : Moved(a, pc) /\ act[a].pc \notin Dropping
  PROVE  Accounting(h) => Accounting(h)'
<1> SUFFICES ASSUME Accounting(h) PROVE Accounting(h)'
  OBVIOUS
<1>1. PICK a \in Actors : act[a].pc \in Dropping /\ CriticalEvent(act[a].ev) /\ act[a].ev.host = h
  BY DEF Accounting, Dropping
<1>2. act'[a] = act[a]
  BY <1>1 DEF Moved
<1>3. CriticalEvent(act'[a].ev)
  BY <1>1, <1>2
<1> QED BY <1>1, <1>2, <1>3 DEF Accounting, Dropping, CriticalEvent

\* noteDrop goes on with the event it has.
LEMMA AccountingGoesOn ==
  ASSUME TypeInv, NEW a \in Actors, NEW pc \in Dropping, act' = Go(a, pc, act[a].ev), NEW h \in Hosts
  PROVE  Accounting(h) => Accounting(h)'
<1> SUFFICES ASSUME Accounting(h) PROVE Accounting(h)'
  OBVIOUS
<1>1. PICK b \in Actors : act[b].pc \in Dropping /\ CriticalEvent(act[b].ev) /\ act[b].ev.host = h
  BY DEF Accounting, Dropping
<1>2. act'[b].pc \in Dropping /\ act'[b].ev = act[b].ev
  <2>1. /\ act'[a].pc = pc /\ act'[a].ev = act[a].ev /\ \A c \in Actors \ {a} : act'[c] = act[c]
    BY GoIs DEF TypeInv
  <2>2. CASE b = a
    BY <2>1, <2>2
  <2>3. CASE b # a
    <3>1. act'[b] = act[b]
      BY <2>1, <2>3
    <3> QED BY <1>1, <3>1
  <2> QED BY <2>2, <2>3
<1>3. CriticalEvent(act'[b].ev) /\ act'[b].ev.host = h
  BY <1>1, <1>2
<1> QED BY <1>2, <1>3 DEF Accounting, Dropping, CriticalEvent

\* Critical losses stay announced.
LEMMA AnnounceStep ==
  ASSUME TypeInv, CriticalDropAnnounced, [Next]_vars
  PROVE  CriticalDropAnnounced'
<1> USE DEF vars, ringVars, writerVars, bounds, histVars
<1>0. /\ \A h \in Hosts : Resync(h, crit[h]) \in Delivered => Resync(h, crit[h]) \in Delivered' \/ stopped'
      /\ \A h \in Hosts : Notice(Resync(h, crit[h])) /\ Resync(h, crit[h]) # NoFrame
  BY NoticesStay, ResyncIsNotice
<1>1. ASSUME NEW h \in Hosts, NEW t \in {"bulk", "critical", "reset"}, Publish(h, t) PROVE CriticalDropAnnounced'
  <2>1. h \in Actors /\ h # Pump /\ Moved(h, "deliver") /\ act[h].pc = "idle"
    BY <1>1, FanStepMoves, Apart
  <2>2. act'[Pump] = act[Pump]
    BY <2>1, Apart DEF Moved
  <2>3. \A g \in Hosts : Resync(g, crit[g]) \in Way => Resync(g, crit[g]) \in Way' \/ stopped'
    BY <1>0, <1>1, <2>2, WayIs DEF Publish, At
  <2>4. \A g \in Hosts : Accounting(g) => Accounting(g)'
    BY <2>1, AccountingStays DEF Dropping
  <2> QED BY <1>1, <2>3, <2>4, AnnounceKept DEF Publish
<1>10. ASSUME NEW b \in Broadcasters, Broadcast(b) PROVE CriticalDropAnnounced'
  <2>1. b \in Actors /\ b # Pump /\ Moved(b, "deliver") /\ act[b].pc = "idle"
    BY <1>10, FanStepMoves, Apart
  <2>2. act'[Pump] = act[Pump]
    BY <2>1, Apart DEF Moved
  <2>3. \A g \in Hosts : Resync(g, crit[g]) \in Way => Resync(g, crit[g]) \in Way' \/ stopped'
    BY <1>0, <1>10, <2>2, WayIs DEF Broadcast, At
  <2>4. \A g \in Hosts : Accounting(g) => Accounting(g)'
    BY <2>1, AccountingStays DEF Dropping
  <2> QED BY <1>10, <2>3, <2>4, AnnounceKept DEF Broadcast
<1>2. ASSUME NEW h \in Sources, Enqueue(h) PROVE CriticalDropAnnounced'
  <2>1. h \in Actors /\ h # Pump /\ act[h].pc = "deliver" /\ \E pc \in {"drop", "idle"} : Moved(h, pc)
    BY <1>2, FanStepMoves, Apart
  <2>2. act'[Pump] = act[Pump]
    BY <2>1, Apart DEF Moved
  <2>3. \A g \in Hosts : Resync(g, crit[g]) \in Way => Resync(g, crit[g]) \in Way' \/ stopped'
    BY <1>0, <1>2, <2>2, WayIs DEF Enqueue, At
  <2>4. \A g \in Hosts : Accounting(g) => Accounting(g)'
    BY <2>1, AccountingStays DEF Dropping
  <2>5. CASE UNCHANGED crit
    BY <1>2, <2>3, <2>4, <2>5, AnnounceKept DEF Enqueue
  <2>6. CASE act' = Go(h, "drop", act[h].ev) /\ CriticalEvent(act[h].ev) /\ crit' = [crit EXCEPT ![h] = @ + 1]
    <3>0. act[h].ev \in Evs /\ act[h].ev.host = Origin(h)
      BY <2>1 DEF TypeInv, FanOK
    <3>6. h \in Hosts /\ act[h].ev.host = h
      BY <2>6, <3>0, HostsOnly, Apart
    <3>1. act'[h].pc = "drop" /\ act'[h].ev = act[h].ev
      BY <2>1, <2>6, GoIs DEF TypeInv
    <3>2. Accounting(h)'
      BY <2>1, <2>6, <3>1, <3>6 DEF Accounting, CriticalEvent
    <3>3. \A g \in Hosts \ {h} : crit'[g] = crit[g]
      BY <2>6 DEF TypeInv
    <3>4. UNCHANGED stopped
      BY <1>2 DEF Enqueue
    <3> SUFFICES ASSUME NEW g \in Hosts \ {h}, ~stopped'
                 PROVE  crit'[g] = 0 \/ Accounting(g)' \/ Resync(g, crit'[g]) \in Way'
      BY <3>2 DEF CriticalDropAnnounced, Way
    <3>5. crit[g] = 0 \/ Accounting(g) \/ Resync(g, crit[g]) \in Way
      BY <3>4 DEF CriticalDropAnnounced, Way
    <3> QED BY <2>3, <2>4, <3>3, <3>5
  <2> QED BY <1>2, <2>5, <2>6 DEF Enqueue
<1>3. ASSUME NEW a \in Actors, CountDrop(a) PROVE CriticalDropAnnounced'
  <2>1. At(a, "drop") /\ UNCHANGED << crit, stopped, replaced, pending >>
        /\ Moved(a, IF Escalates(act[a].ev, dropped + 1) THEN "reset" ELSE After(a))
    BY <1>3, DropStepMoves DEF CountDrop
  <2>2. \A g \in Hosts : Accounting(g) => Accounting(g)'
    <3>1. CASE act' = Go(a, "reset", act[a].ev)
      BY <3>1, AccountingGoesOn DEF Dropping
    <3>2. CASE ~CriticalEvent(act[a].ev)
      <4> SUFFICES ASSUME NEW g \in Hosts, Accounting(g) PROVE Accounting(g)'
        OBVIOUS
      <4>1. PICK b \in Actors : act[b].pc \in Dropping /\ CriticalEvent(act[b].ev) /\ act[b].ev.host = g
        BY DEF Accounting, Dropping
      <4>2. act'[b] = act[b]
        BY <2>1, <3>2, <4>1 DEF Moved
      <4> QED BY <4>1, <4>2 DEF Accounting, Dropping, CriticalEvent
    <3> QED BY <1>3, <3>1, <3>2 DEF CountDrop, Escalates
  <2>3. At(Pump, "send") => act'[Pump] = act[Pump]
    BY <2>1, Apart DEF Moved, At
  <2>4. \A g \in Hosts : Resync(g, crit[g]) \in Way => Resync(g, crit[g]) \in Way' \/ stopped'
    BY <1>0, <2>1, <2>3, WayIs DEF At
  <2> QED BY <2>1, <2>2, <2>4, AnnounceKept
<1>4. ASSUME NEW a \in Actors, ResetCounter(a) PROVE CriticalDropAnnounced'
  <2>1. At(a, "reset") /\ UNCHANGED << crit, stopped, replaced, pending >> /\ Moved(a, "queue")
    BY <1>4, DropStepMoves DEF ResetCounter
  <2>2. \A g \in Hosts : Accounting(g) => Accounting(g)'
    BY <1>4, AccountingGoesOn DEF ResetCounter, Dropping
  <2>3. At(Pump, "send") => act'[Pump] = act[Pump]
    BY <2>1, Apart DEF Moved, At
  <2>4. \A g \in Hosts : Resync(g, crit[g]) \in Way => Resync(g, crit[g]) \in Way' \/ stopped'
    BY <1>0, <2>1, <2>3, WayIs DEF At
  <2> QED BY <2>1, <2>2, <2>4, AnnounceKept
<1>5. ASSUME NEW a \in Actors, QueueResync(a) PROVE CriticalDropAnnounced'
  <2> DEFINE h == Tag(act[a].ev)
  <2>1. At(a, "queue") /\ UNCHANGED << crit, stopped >> /\ Moved(a, After(a)) /\ pending' = Resync(h, Stamp(h))
        /\ replaced' = replaced \cup {r \in {pending} : r # NoFrame /\ r.host \notin {h, NoHost}}
    BY <1>5, DropStepMoves DEF QueueResync
  <2>8. CriticalEvent(act[a].ev) => act[a].ev.host = h
    BY DEF CriticalEvent, Tag
  <2> HIDE DEF h
  <2>2. h \in Hosts => Resync(h, crit[h]) \in Way'
    BY <2>1, WayIs, Apart DEF Stamp
  <2>3. \A g \in Hosts : g # h /\ Accounting(g) => Accounting(g)'
    <3> SUFFICES ASSUME NEW g \in Hosts, g # h, Accounting(g) PROVE Accounting(g)'
      OBVIOUS
    <3>1. PICK b \in Actors : act[b].pc \in Dropping /\ CriticalEvent(act[b].ev) /\ act[b].ev.host = g
      BY DEF Accounting, Dropping
    <3>2. act'[b] = act[b]
      BY <2>1, <2>8, <3>1 DEF Moved
    <3> QED BY <3>1, <3>2 DEF Accounting, Dropping, CriticalEvent
  <2>4. At(Pump, "send") => act'[Pump] = act[Pump]
    BY <2>1, Apart DEF Moved, At
  <2>5. \A g \in Hosts : g # h /\ Resync(g, crit[g]) \in Way => Resync(g, crit[g]) \in Way' \/ stopped'
    <3> SUFFICES ASSUME NEW g \in Hosts, g # h, Resync(g, crit[g]) \in Way
                 PROVE  Resync(g, crit[g]) \in Way' \/ stopped'
      OBVIOUS
    <3>1. CASE pending = Resync(g, crit[g])
      <4>1. pending # NoFrame /\ pending.host = g /\ g # NoHost
        BY <3>1, ResyncIsNotice, Apart
      <4>2. pending \in replaced'
        BY <2>1, <4>1
      <4> QED BY <3>1, <4>2, WayIs
    <3>2. CASE pending # Resync(g, crit[g])
      BY <1>0, <2>1, <2>4, <3>2, WayIs DEF At
    <3> QED BY <3>1, <3>2
  <2>6. \A g \in Hosts : Accounting(g) => Accounting(g)' \/ Resync(g, crit[g]) \in Way'
    BY <2>2, <2>3
  <2>7. \A g \in Hosts : Resync(g, crit[g]) \in Way => Resync(g, crit[g]) \in Way' \/ stopped'
    BY <2>2, <2>5
  <2> QED BY <2>1, <2>6, <2>7, AnnounceKept
<1>6. ASSUME PumpTop \/ PumpWait \/ PumpSend \/ PumpTrySend \/ PumpPop PROVE CriticalDropAnnounced'
  <2>1. UNCHANGED << crit, stopped, replaced >>
    BY <1>6 DEF PumpTop, PumpWait, PumpSend, PumpTrySend, PumpPop, PumpKeeps
  <2>2. \A g \in Hosts : Accounting(g) => Accounting(g)'
    BY <1>6, PumpStepMoves, AccountingStays, Apart DEF Dropping
  <2>3. \A g \in Hosts : Resync(g, crit[g]) = pending => Resync(g, crit[g]) \in Way'
    <3> SUFFICES ASSUME NEW g \in Hosts, Resync(g, crit[g]) = pending PROVE Resync(g, crit[g]) \in Way'
      OBVIOUS
    <3>1. CASE PumpTop
      <4>1. act' = Go(Pump, "send", pending)
        BY <1>0, <3>1 DEF PumpTop
      <4>2. act'[Pump].pc = "send" /\ act'[Pump].ev = pending
        BY <4>1, GoIs, Apart DEF TypeInv
      <4> QED BY <4>2, WayIs DEF At
    <3>2. CASE UNCHANGED pending
      BY <3>2, WayIs
    <3> QED BY <1>6, <3>1, <3>2 DEF PumpWait, PumpSend, PumpTrySend, PumpPop
  <2>4. At(Pump, "send") => act[Pump].ev \in Delivered' \/ stopped'
    <3> SUFFICES ASSUME At(Pump, "send") PROVE act[Pump].ev \in Delivered' \/ stopped'
      OBVIOUS
    <3>1. PumpSend
      BY <1>6, PumpStepMoves DEF At
    <3> QED BY <2>1, <3>1, SendSets
  <2>5. \A g \in Hosts : Resync(g, crit[g]) \in Way => Resync(g, crit[g]) \in Way' \/ stopped'
    <3> SUFFICES ASSUME NEW g \in Hosts, Resync(g, crit[g]) \in Way, ~stopped' PROVE Resync(g, crit[g]) \in Way'
      OBVIOUS
    <3>1. CASE Resync(g, crit[g]) = pending \/ Resync(g, crit[g]) \in replaced
      BY <2>1, <2>3, <3>1, WayIs
    <3>2. CASE Resync(g, crit[g]) \in Delivered
      BY <1>0, <3>2, WayIs
    <3>3. CASE At(Pump, "send") /\ Resync(g, crit[g]) = act[Pump].ev
      BY <2>4, <3>3, WayIs
    <3> QED BY <3>1, <3>2, <3>3, WayIs DEF At
  <2> QED BY <2>1, <2>2, <2>5, AnnounceKept
<1>7. ASSUME Take \/ Flush \/ WriteFrame \/ Leave \/ UNCHANGED vars PROVE CriticalDropAnnounced'
  <2>1. UNCHANGED << crit, replaced, act, pending >>
    BY <1>7 DEF Take, Flush, WriteFrame, Leave, WriterKeeps
  <2>2. stopped => stopped'
    BY <1>7 DEF Take, Flush, WriteFrame, Leave
  <2>3. \A g \in Hosts : Accounting(g) => Accounting(g)'
    BY <2>1, AccountingStays
  <2>4. \A g \in Hosts : Resync(g, crit[g]) \in Way => Resync(g, crit[g]) \in Way' \/ stopped'
    BY <1>0, <2>1, WayIs DEF At
  <2> QED BY <2>1, <2>2, <2>3, <2>4, AnnounceKept
<1>8. ASSUME NEW h \in Hosts, Retarget(h) PROVE CriticalDropAnnounced'
  <2>1. UNCHANGED << crit, replaced, stopped, act, pending >>
    BY <1>8 DEF Retarget
  <2>2. \A g \in Hosts : Accounting(g) => Accounting(g)'
    BY <2>1, AccountingStays
  <2>3. \A g \in Hosts : Resync(g, crit[g]) \in Way => Resync(g, crit[g]) \in Way' \/ stopped'
    BY <1>0, <2>1, WayIs DEF At
  <2> QED BY <2>1, <2>2, <2>3, AnnounceKept
<1>9. ASSUME NEW a \in Actors, DropStep(a) PROVE CriticalDropAnnounced'
  BY <1>3, <1>4, <1>5, <1>9 DEF DropStep
<1> QED BY <1>1, <1>2, <1>6, <1>7, <1>8, <1>9, <1>10, Apart DEF Next, SourceStep, PumpStep, WriterStep

-----------------------------------------------------------------------------
(* Resets stay in front.  An epoch is announced to whoever gets what is in D *)
(* first: it is the one the page opened with, its reset is in D, or its      *)
(* reset was lost.                                                           *)

Announced(h, e, D, lost) == e = 0 \/ e <= lost[h] \/ Ev("reset", h, e) \in D

IsEvent(x) == x.type \in {"bulk", "critical"}

\* Every event of s has its epoch announced by D or by what is in front of it.
Preceded(s, D, lost) ==
    \A i \in DOMAIN s : IsEvent(s[i]) =>
        Announced(s[i].host, s[i].epoch, D \cup {s[j] : j \in 1 .. i - 1}, lost)

\* The part of the ring that the pump has not moved on or lost.
Queued == IF act[Pump].pc \in {"pop"} \cup Dropping THEN Tail(ring) ELSE ring

StagesOK ==
    /\ Preceded(writing, shown, lostReset)
    /\ Preceded(batch, shown \cup ToSet(writing), lostReset)
    /\ Preceded(ch, shown \cup ToSet(writing) \cup ToSet(batch), lostReset)

\* The epoch that host h publishes in is announced to what it publishes next, or
\* its reset is what the goroutine of h is about to deliver.
EpochOK(h) ==
    \/ Announced(h, epoch[h], Delivered \cup ToSet(Queued), lostReset)
    \/ At(h, "deliver") /\ act[h].ev.type = "reset"

FlowOK == StagesOK /\ Preceded(Queued, Delivered, lostReset) /\ \A h \in Hosts : EpochOK(h)

\* Nothing in the ring is of an epoch that its host has not reached.
NoneAhead == \A i \in DOMAIN ring : ring[i].host \in Hosts => ring[i].epoch <= epoch[ring[i].host]

FlowInv ==
    /\ stopped \/ FlowOK
    /\ ResetPrecedesEvents
    /\ \A x \in shown : x.type = "event" => x.host \in Hosts /\ x.epoch \in Nat
    /\ \A h \in Hosts : lostReset[h] <= epoch[h] /\ (At(h, "deliver") => act[h].ev.epoch = epoch[h])
    /\ NoneAhead

-----------------------------------------------------------------------------
(* What keeps an epoch announced. *)

\* Resets of D are in E, or were lost.
Carry(D, E, lost) == \A h \in Hosts, e \in Nat : Ev("reset", h, e) \in D => Ev("reset", h, e) \in E \/ e <= lost[h]

Grows(lost, more) == lost \in [Hosts -> Nat] /\ more \in [Hosts -> Nat] /\ \A h \in Hosts : lost[h] <= more[h]

\* An announced epoch stays announced while resets are only added, moved or lost.
LEMMA AnnouncedMore ==
  ASSUME NEW h \in Hosts, NEW e \in Nat, NEW D, NEW E, NEW lost, NEW more,
         Announced(h, e, D, lost), Carry(D, E, more), Grows(lost, more)
  PROVE  Announced(h, e, E, more)
<1>1. lost[h] \in Nat /\ more[h] \in Nat /\ lost[h] <= more[h]
  BY DEF Grows
<1>2. e <= lost[h] => e <= more[h]
  BY <1>1
<1> QED BY <1>2 DEF Announced, Carry

\* An event of the page's sequences has a host and an epoch.
LEMMA EventIs == \A x \in Items : IsEvent(x) => x.host \in Hosts /\ x.epoch \in Nat
BY DEF Items, Evs, HubEvent, Ev, Resyncs, IsEvent

\* So do the epochs of all the events of a sequence.
LEMMA PrecededMore ==
  ASSUME NEW s \in Seq(Items), NEW D, NEW E, NEW lost, NEW more,
         Preceded(s, D, lost), Carry(D, E, more), Grows(lost, more)
  PROVE  Preceded(s, E, more)
<1> SUFFICES ASSUME NEW i \in DOMAIN s, IsEvent(s[i])
             PROVE  Announced(s[i].host, s[i].epoch, E \cup {s[j] : j \in 1 .. i - 1}, more)
  BY DEF Preceded
<1> DEFINE F == {s[j] : j \in 1 .. i - 1}
<1>1. s[i] \in Items
  OBVIOUS
<1>2. Announced(s[i].host, s[i].epoch, D \cup F, lost)
  BY DEF Preceded
<1> HIDE DEF F
<1>3. Carry(D \cup F, E \cup F, more)
  BY DEF Carry
<1>4. Announced(s[i].host, s[i].epoch, E \cup F, more)
  BY <1>1, <1>2, <1>3, EventIs, AnnouncedMore
<1> QED BY <1>4 DEF F

\* An event may join a sequence when its epoch is announced by what is in front of it.
LEMMA PrecededAppend ==
  ASSUME NEW s \in Seq(Items), NEW x \in Items, NEW D, NEW lost, Preceded(s, D, lost),
         IsEvent(x) => Announced(x.host, x.epoch, D \cup ToSet(s), lost)
  PROVE  Preceded(Append(s, x), D, lost)
<1> DEFINE t == Append(s, x)
<1>1. /\ DOMAIN t = 1 .. (Len(s) + 1) /\ t[Len(s) + 1] = x /\ \A i \in 1 .. Len(s) : t[i] = s[i]
      /\ DOMAIN s = 1 .. Len(s) /\ Len(s) \in Nat
  OBVIOUS
<1> HIDE DEF t
<1> SUFFICES ASSUME NEW i \in 1 .. (Len(s) + 1), IsEvent(t[i])
             PROVE  Announced(t[i].host, t[i].epoch, D \cup {t[j] : j \in 1 .. i - 1}, lost)
  BY <1>1 DEF Preceded, t
<1>2. {t[j] : j \in 1 .. i - 1} = {s[j] : j \in 1 .. i - 1}
  BY <1>1
<1>3. CASE i \in 1 .. Len(s)
  BY <1>1, <1>2, <1>3 DEF Preceded
<1>4. CASE i = Len(s) + 1
  <2>1. {s[j] : j \in 1 .. i - 1} = ToSet(s)
    BY <1>1, <1>4 DEF ToSet
  <2> QED BY <1>1, <1>2, <1>4, <2>1
<1> QED BY <1>1, <1>3, <1>4

\* Cutting: what is in front of the cut goes to D.
LEMMA PrecededCut ==
  ASSUME NEW s \in Seq(Items), NEW n \in 1 .. Len(s), NEW D, NEW lost, Preceded(s, D, lost)
  PROVE  /\ Preceded(SubSeq(s, n + 1, Len(s)), D \cup ToSet(SubSeq(s, 1, n)), lost)
         /\ \A x \in ToSet(SubSeq(s, 1, n)) : IsEvent(x) =>
                Announced(x.host, x.epoch, D \cup ToSet(SubSeq(s, 1, n)), lost)
<1> DEFINE a == SubSeq(s, 1, n)
           b == SubSeq(s, n + 1, Len(s))
<1>1. /\ DOMAIN a = 1 .. n /\ \A i \in 1 .. n : a[i] = s[i]
      /\ DOMAIN b = 1 .. (Len(s) - n) /\ \A i \in 1 .. (Len(s) - n) : b[i] = s[n + i]
      /\ DOMAIN s = 1 .. Len(s) /\ Len(s) \in Nat
  BY CutSet
<1> HIDE DEF a, b
<1>2. ToSet(a) = {s[j] : j \in 1 .. n}
  BY <1>1 DEF ToSet
<1>3. Preceded(b, D \cup ToSet(a), lost)
  <2> SUFFICES ASSUME NEW i \in 1 .. (Len(s) - n), IsEvent(b[i])
               PROVE  Announced(b[i].host, b[i].epoch, D \cup ToSet(a) \cup {b[j] : j \in 1 .. i - 1}, lost)
    BY <1>1 DEF Preceded
  <2>1. b[i] = s[n + i] /\ n + i \in DOMAIN s
    BY <1>1
  <2>2. Announced(b[i].host, b[i].epoch, D \cup {s[j] : j \in 1 .. (n + i) - 1}, lost)
    BY <2>1 DEF Preceded
  <2>3. {s[j] : j \in 1 .. (n + i) - 1} \subseteq ToSet(a) \cup {b[j] : j \in 1 .. i - 1}
    <3> SUFFICES ASSUME NEW j \in 1 .. (n + i) - 1 PROVE s[j] \in ToSet(a) \cup {b[k] : k \in 1 .. i - 1}
      OBVIOUS
    <3>1. CASE j <= n
      BY <1>1, <1>2, <3>1
    <3>2. CASE j > n
      <4>1. j - n \in 1 .. i - 1 /\ j - n \in 1 .. (Len(s) - n) /\ n + (j - n) = j
        BY <1>1, <3>2
      <4>2. b[j - n] = s[j]
        BY <1>1, <4>1
      <4> QED BY <4>1, <4>2
    <3> QED BY <1>1, <3>1, <3>2
  <2> QED BY <2>2, <2>3 DEF Announced
<1>4. ASSUME NEW i \in 1 .. n, IsEvent(s[i]) PROVE Announced(s[i].host, s[i].epoch, D \cup ToSet(a), lost)
  <2>1. Announced(s[i].host, s[i].epoch, D \cup {s[j] : j \in 1 .. i - 1}, lost)
    <3>1. i \in DOMAIN s
      BY <1>1
    <3> QED BY <1>4, <3>1 DEF Preceded
  <2>2. {s[j] : j \in 1 .. i - 1} \subseteq ToSet(a)
    BY <1>1, <1>2
  <2> QED BY <2>1, <2>2 DEF Announced
<1> QED BY <1>2, <1>3, <1>4 DEF a, b

\* The head that leaves a sequence keeps announcing to what follows it.
LEMMA PrecededTail ==
  ASSUME NEW s \in Seq(Items), s # << >>, NEW D, NEW lost, Preceded(s, D, lost)
  PROVE  /\ Preceded(Tail(s), D \cup {Head(s)}, lost)
         /\ IsEvent(Head(s)) => Announced(Head(s).host, Head(s).epoch, D, lost)
<1>1. /\ Head(s) = s[1] /\ DOMAIN s = 1 .. Len(s) /\ Len(s) \in Nat \ {0}
      /\ DOMAIN Tail(s) = 1 .. (Len(s) - 1) /\ \A i \in 1 .. (Len(s) - 1) : Tail(s)[i] = s[i + 1]
  BY TailSet
<1>2. IsEvent(Head(s)) => Announced(Head(s).host, Head(s).epoch, D, lost)
  <2>1. 1 \in DOMAIN s /\ {s[j] : j \in 1 .. 1 - 1} = {}
    BY <1>1
  <2>2. IsEvent(s[1]) => Announced(s[1].host, s[1].epoch, D \cup {s[j] : j \in 1 .. 1 - 1}, lost)
    BY <2>1 DEF Preceded
  <2> QED BY <1>1, <2>1, <2>2
<1> DEFINE t == Tail(s)
<1> HIDE DEF t
<1>3. Preceded(t, D \cup {Head(s)}, lost)
  <2> SUFFICES ASSUME NEW i \in 1 .. (Len(s) - 1), IsEvent(t[i])
               PROVE  Announced(t[i].host, t[i].epoch, D \cup {Head(s)} \cup {t[j] : j \in 1 .. i - 1}, lost)
    BY <1>1 DEF Preceded, t
  <2>1. t[i] = s[i + 1] /\ i + 1 \in DOMAIN s
    BY <1>1 DEF t
  <2>2. Announced(t[i].host, t[i].epoch, D \cup {s[j] : j \in 1 .. (i + 1) - 1}, lost)
    BY <2>1 DEF Preceded
  <2>3. {s[j] : j \in 1 .. (i + 1) - 1} \subseteq {Head(s)} \cup {t[j] : j \in 1 .. i - 1}
    <3> SUFFICES ASSUME NEW j \in 1 .. (i + 1) - 1, j # 1 PROVE s[j] \in {t[k] : k \in 1 .. i - 1}
      BY <1>1
    <3>1. j - 1 \in 1 .. i - 1 /\ j - 1 \in 1 .. (Len(s) - 1) /\ (j - 1) + 1 = j
      BY <1>1
    <3>2. t[j - 1] = s[j]
      BY <1>1, <3>1 DEF t
    <3> QED BY <3>1, <3>2
  <2> QED BY <2>2, <2>3 DEF Announced
<1> QED BY <1>2, <1>3 DEF t

-----------------------------------------------------------------------------
(* The steps. *)

\* What is still in front of the page's channel.
LEMMA QueuedIs ==
  ASSUME TypeInv
  PROVE  /\ ring \in Seq(Items) /\ Queued \in Seq(Items)
         /\ act[Pump].pc \in {"event", "pop"} \cup Dropping =>
                /\ ring # << >> /\ Head(ring) \in Evs /\ Head(ring) \in Items /\ Tail(ring) \in Seq(Items)
                /\ ToSet(ring) = {Head(ring)} \cup ToSet(Tail(ring))
<1>1. ring \in Seq(Evs) /\ ring \in Seq(Items)
  BY DEF TypeInv, Items
<1>2. act[Pump].pc \in {"event", "pop"} \cup Dropping => ring # << >>
  BY DEF TypeInv, HeadOK
<1>3. ring # << >> => /\ Head(ring) \in Evs /\ Head(ring) \in Items /\ Tail(ring) \in Seq(Items)
                      /\ ToSet(ring) = {Head(ring)} \cup ToSet(Tail(ring))
  BY <1>1, TailSet
<1>4. Queued \in Seq(Items)
  BY <1>1, <1>2, <1>3 DEF Queued
<1> QED BY <1>1, <1>2, <1>3, <1>4

\* Nothing is lost where no step loses anything.
LEMMA SameLost == ASSUME TypeInv PROVE Grows(lostReset, lostReset)
<1>1. lostReset \in [Hosts -> Nat]
  BY DEF TypeInv
<1>2. \A h \in Hosts : lostReset[h] \in Nat
  BY <1>1
<1> QED BY <1>1, <1>2 DEF Grows

\* A step that leaves the sequences and what goroutines are about to deliver.
LEMMA FlowKept ==
  ASSUME TypeInv, FlowInv, UNCHANGED << ch, batch, writing, shown, epoch, lostReset >>,
         Queued' = Queued, stopped' = stopped,
         \A h \in Hosts : /\ (act'[h].pc = "deliver" <=> act[h].pc = "deliver")
                          /\ act[h].pc = "deliver" => act'[h] = act[h],
         NoneAhead'
  PROVE  FlowInv'
<1>1. UNCHANGED Delivered
  BY DEF Delivered
<1>2. StagesOK => StagesOK'
  BY DEF StagesOK
<1>3. \A h \in Hosts : EpochOK(h) => EpochOK(h)'
  BY <1>1 DEF EpochOK, At
<1>4. Preceded(Queued, Delivered, lostReset) => Preceded(Queued, Delivered, lostReset)'
  BY <1>1
<1>5. FlowOK => FlowOK'
  BY <1>2, <1>3, <1>4 DEF FlowOK
<1>6. ResetPrecedesEvents'
  BY DEF FlowInv, ResetPrecedesEvents
<1>7. \A h \in Hosts : lostReset'[h] <= epoch'[h] /\ (At(h, "deliver")' => act'[h].ev.epoch = epoch'[h])
  BY DEF FlowInv, At
<1> QED BY <1>5, <1>6, <1>7 DEF FlowInv

\* A step that publishes, or appends to the ring, or loses in front of it.
LEMMA PublishKeeps ==
  ASSUME TypeInv, FlowInv, NEW h \in Hosts, NEW t \in {"bulk", "critical", "reset"}, Publish(h, t)
  PROVE  FlowInv'
<1>1. /\ UNCHANGED << ch, batch, writing, shown, lostReset, ring, stopped >>
      /\ epoch' = (IF t = "reset" THEN [epoch EXCEPT ![h] = @ + 1] ELSE epoch)
      /\ act' = Go(h, "deliver", Ev(t, h, epoch'[h]))
  BY DEF Publish, writerVars, histVars
<1>2. /\ act'[h].pc = "deliver" /\ act'[h].ev = Ev(t, h, epoch'[h]) /\ act[h].pc = "idle"
      /\ \A g \in Actors \ {h} : act'[g] = act[g]
  <2>1. DOMAIN act = Actors /\ h \in Actors
    BY Apart DEF TypeInv
  <2> QED BY <1>1, <2>1, GoIs DEF Publish, At
<1>3. act'[Pump] = act[Pump] /\ \A g \in Hosts \ {h} : act'[g] = act[g]
  BY <1>2, Apart
<1>4. Delivered' = Delivered /\ Queued' = Queued
  BY <1>1, <1>3 DEF Delivered, Queued
<1>5. \A g \in Hosts : epoch[g] \in Nat /\ epoch'[g] \in Nat /\ epoch[g] <= epoch'[g] /\ lostReset[g] \in Nat
  BY <1>1 DEF TypeInv
<1>6. \A g \in Hosts : g # h \/ t # "reset" => epoch'[g] = epoch[g]
  BY <1>1 DEF TypeInv
<1>7. ASSUME FlowOK PROVE FlowOK'
  <2>1. StagesOK' /\ Preceded(Queued, Delivered, lostReset)'
    BY <1>1, <1>4, <1>7 DEF FlowOK, StagesOK
  <2>2. ASSUME NEW g \in Hosts PROVE EpochOK(g)'
    <3>1. CASE g = h /\ t = "reset"
      BY <1>2, <3>1 DEF EpochOK, At, Ev
    <3>2. CASE g = h /\ t # "reset"
      <4>1. Announced(h, epoch[h], Delivered \cup ToSet(Queued), lostReset)
        BY <1>2, <1>7 DEF FlowOK, EpochOK, At
      <4> QED BY <1>1, <1>4, <1>6, <3>2, <4>1 DEF EpochOK
    <3>3. CASE g # h
      <4>1. EpochOK(g)
        BY <1>7 DEF FlowOK
      <4> QED BY <1>1, <1>3, <1>4, <1>6, <3>3, <4>1 DEF EpochOK, At
    <3> QED BY <3>1, <3>2, <3>3
  <2> QED BY <2>1, <2>2 DEF FlowOK
<1>8. ResetPrecedesEvents'
  BY <1>1 DEF FlowInv, ResetPrecedesEvents
<1>9. ASSUME NEW g \in Hosts PROVE lostReset'[g] <= epoch'[g] /\ (At(g, "deliver")' => act'[g].ev.epoch = epoch'[g])
  <2>1. lostReset[g] <= epoch[g] /\ (At(g, "deliver") => act[g].ev.epoch = epoch[g])
    BY DEF FlowInv
  <2>2. lostReset'[g] <= epoch'[g]
    BY <1>1, <1>5, <2>1
  <2>3. CASE g = h
    BY <1>2, <2>2, <2>3 DEF Ev
  <2>4. CASE g # h
    BY <1>3, <1>6, <2>1, <2>2, <2>4 DEF At
  <2> QED BY <2>3, <2>4
<1>10. NoneAhead'
  <2> SUFFICES ASSUME NEW i \in DOMAIN ring, ring[i].host \in Hosts PROVE ring[i].epoch <= epoch'[ring[i].host]
    BY <1>1 DEF NoneAhead
  <2>1. ring[i] \in Evs /\ ring[i].epoch <= epoch[ring[i].host]
    BY DEF TypeInv, FlowInv, NoneAhead
  <2>2. ring[i].epoch \in Nat
    BY <2>1, HostsOnly
  <2> QED BY <1>5, <2>1, <2>2
<1>11. \A x \in shown' : x.type = "event" => x.host \in Hosts /\ x.epoch \in Nat
  BY <1>1 DEF FlowInv
<1> QED BY <1>1, <1>7, <1>8, <1>9, <1>10, <1>11 DEF FlowInv

\* A ring item of type "reset" is the reset of its epoch, and no event of it.
LEMMA ResetIs == \A x \in Evs : /\ x.type = "reset" => x = Ev("reset", x.host, x.epoch)
                                /\ IsEvent(x) => x.type # "reset"
BY DEF Evs, HubEvent, Ev, IsEvent

\* More resets may have been lost than before.
LEMMA StagesMore ==
  ASSUME TypeInv, StagesOK, UNCHANGED << ch, batch, writing, shown >>, Grows(lostReset, lostReset')
  PROVE  StagesOK'
<1>1. writing \in Seq(Items) /\ batch \in Seq(Items) /\ ch \in Seq(Items)
  BY DEF TypeInv
<1>2. \A D : Carry(D, D, lostReset')
  BY DEF Carry
<1>3. Preceded(writing, shown, lostReset')
  BY <1>1, <1>2, PrecededMore DEF StagesOK
<1>4. Preceded(batch, shown \cup ToSet(writing), lostReset')
  BY <1>1, <1>2, PrecededMore DEF StagesOK
<1>5. Preceded(ch, shown \cup ToSet(writing) \cup ToSet(batch), lostReset')
  BY <1>1, <1>2, PrecededMore DEF StagesOK
<1> QED BY <1>3, <1>4, <1>5 DEF StagesOK

\* The epochs of hosts whose goroutine does not move stay announced.
LEMMA EpochMore ==
  ASSUME TypeInv, NEW g \in Hosts, EpochOK(g), epoch'[g] = epoch[g], act'[g] = act[g], Grows(lostReset, lostReset'),
         Carry(Delivered \cup ToSet(Queued), (Delivered \cup ToSet(Queued))', lostReset')
  PROVE  EpochOK(g)'
<1>1. epoch[g] \in Nat
  BY DEF TypeInv
<1>2. CASE Announced(g, epoch[g], Delivered \cup ToSet(Queued), lostReset)
  <2>1. Announced(g, epoch[g], (Delivered \cup ToSet(Queued))', lostReset')
    BY <1>1, <1>2, AnnouncedMore
  <2> QED BY <2>1 DEF EpochOK
<1>3. CASE At(g, "deliver") /\ act[g].ev.type = "reset"
  BY <1>3 DEF EpochOK, At
<1> QED BY <1>2, <1>3 DEF EpochOK

\* The rest of FlowInv, where resets were lost.
LEMMA FlowRest ==
  ASSUME TypeInv, FlowInv, UNCHANGED << shown, epoch, ring >>, Grows(lostReset, lostReset'),
         \A h \in Hosts : lostReset'[h] <= epoch[h],
         \A h \in Hosts : act'[h].pc = "deliver" => act'[h] = act[h],
         stopped' \/ FlowOK'
  PROVE  FlowInv'
<1>1. ResetPrecedesEvents'
  <2> SUFFICES ASSUME NEW x \in shown, x.type = "event"
               PROVE  x.epoch = 0 \/ x.epoch <= lostReset'[x.host] \/ Ev("reset", x.host, x.epoch) \in shown
    BY DEF ResetPrecedesEvents
  <2>1. x.host \in Hosts /\ x.epoch \in Nat
    BY DEF FlowInv
  <2>2. x.epoch = 0 \/ x.epoch <= lostReset[x.host] \/ Ev("reset", x.host, x.epoch) \in shown
    BY DEF FlowInv, ResetPrecedesEvents
  <2>3. lostReset[x.host] \in Nat /\ lostReset'[x.host] \in Nat /\ lostReset[x.host] <= lostReset'[x.host]
    BY <2>1 DEF Grows
  <2> QED BY <2>1, <2>2, <2>3
<1>2. \A h \in Hosts : At(h, "deliver")' => act'[h].ev.epoch = epoch'[h]
  BY DEF FlowInv, At
<1>3. \A x \in shown' : x.type = "event" => x.host \in Hosts /\ x.epoch \in Nat
  BY DEF FlowInv
<1>4. NoneAhead'
  BY DEF FlowInv, NoneAhead
<1> QED BY <1>1, <1>2, <1>3, <1>4 DEF FlowInv

\* A host's goroutine appends to the ring, or loses in front of it.
LEMMA EnqueueKeeps ==
  ASSUME TypeInv, FlowInv, NEW h \in Hosts, Enqueue(h)
  PROVE  FlowInv'
<1> DEFINE ev == act[h].ev
<1>1. /\ UNCHANGED << ch, batch, writing, shown, epoch, stopped >> /\ act[h].pc = "deliver"
      /\ \/ /\ ring' = Append(ring, ev) /\ UNCHANGED lostReset
         \/ /\ ring' = ring /\ lostReset' = IF ev.type = "reset" THEN [lostReset EXCEPT ![h] = ev.epoch] ELSE lostReset
  BY DEF Enqueue, At, writerVars, histVars
<1>2. ev \in Evs /\ ev.host = h /\ ev.epoch = epoch[h] /\ ev \in Items
  BY <1>1, Apart DEF TypeInv, FanOK, FlowInv, At, Items
<1>3. \E pc \in {"drop", "idle"} : Moved(h, pc)
  BY FanStepMoves, Apart
<1> HIDE DEF ev
<1>4. act'[Pump] = act[Pump] /\ (\A g \in Hosts \ {h} : act'[g] = act[g]) /\ act'[h].pc # "deliver"
  BY <1>3, Apart DEF Moved
<1>5. Delivered' = Delivered
  BY <1>1 DEF Delivered
<1>6. epoch[h] \in Nat /\ lostReset \in [Hosts -> Nat]
  BY DEF TypeInv
<1>7. IsEvent(ev) => ev.type # "reset"
  BY <1>2, ResetIs
<1>8. FlowOK /\ ev.type # "reset" => Announced(h, epoch[h], Delivered \cup ToSet(Queued), lostReset)
  BY DEF FlowOK, EpochOK, ev
<1>9. CASE ring' = Append(ring, ev) /\ UNCHANGED lostReset
  <2>0. ring \in Seq(Items) /\ ring \in Seq(Evs) /\ Queued \in Seq(Items)
    BY QueuedIs DEF TypeInv
  <2>1. Queued' = Append(Queued, ev)
    <3>1. CASE act[Pump].pc \in {"pop"} \cup Dropping
      <4>1. ring # << >>
        BY <3>1, QueuedIs
      <4>2. Tail(Append(ring, ev)) = Append(Tail(ring), ev)
        BY <1>2, <2>0, <4>1
      <4> QED BY <1>4, <1>9, <3>1, <4>2 DEF Queued
    <3>2. CASE act[Pump].pc \notin {"pop"} \cup Dropping
      BY <1>4, <1>9, <3>2 DEF Queued
    <3> QED BY <3>1, <3>2
  <2>2. ToSet(Queued') = ToSet(Queued) \cup {ev}
    BY <1>2, <2>0, <2>1, AppendSet
  <2>3. ASSUME FlowOK PROVE FlowOK'
    <3>1. StagesOK'
      BY <1>1, <1>9, <2>3, StagesMore, SameLost DEF FlowOK
    <3>2. Preceded(Queued, Delivered, lostReset)'
      BY <1>2, <1>5, <1>7, <1>8, <1>9, <2>0, <2>1, <2>3, PrecededAppend DEF FlowOK
    <3>3. Carry(Delivered \cup ToSet(Queued), (Delivered \cup ToSet(Queued))', lostReset')
      BY <1>5, <2>2 DEF Carry
    <3>4. ASSUME NEW g \in Hosts, g # h PROVE EpochOK(g)'
      BY <1>1, <1>4, <1>9, <2>3, <3>3, <3>4, EpochMore, SameLost DEF FlowOK
    <3>5. EpochOK(h)'
      <4>1. CASE ev.type = "reset"
        <5>1. Ev("reset", h, epoch[h]) \in (Delivered \cup ToSet(Queued))'
          BY <1>2, <2>2, <4>1, ResetIs
        <5> QED BY <1>1, <5>1 DEF EpochOK, Announced
      <4>2. CASE ev.type # "reset"
        <5>1. Announced(h, epoch[h], (Delivered \cup ToSet(Queued))', lostReset')
          BY <1>6, <1>8, <1>9, <2>3, <3>3, <4>2, AnnouncedMore, SameLost
        <5> QED BY <1>1, <5>1 DEF EpochOK
      <4> QED BY <4>1, <4>2
    <3> QED BY <3>1, <3>2, <3>4, <3>5 DEF FlowOK
  <2>4. ResetPrecedesEvents'
    BY <1>1, <1>9 DEF FlowInv, ResetPrecedesEvents
  <2>5. \A g \in Hosts : lostReset'[g] <= epoch'[g] /\ (At(g, "deliver")' => act'[g].ev.epoch = epoch'[g])
    BY <1>1, <1>4, <1>9 DEF FlowInv, At
  <2>6. ASSUME NEW i \in DOMAIN ring', ring'[i].host \in Hosts PROVE ring'[i].epoch <= epoch'[ring'[i].host]
    <3>1. CASE i \in DOMAIN ring
      <4>1. ring'[i] = ring[i]
        BY <1>2, <1>9, <2>0, <3>1
      <4> QED BY <1>1, <2>6, <3>1, <4>1 DEF FlowInv, NoneAhead
    <3>2. CASE i \notin DOMAIN ring
      <4>1. ring'[i] = ev
        BY <1>2, <1>9, <2>0, <2>6, <3>2
      <4>2. ev.epoch <= epoch[ev.host]
        BY <1>2, <1>6
      <4> QED BY <1>1, <4>1, <4>2
    <3> QED BY <3>1, <3>2
  <2>7. \A x \in shown' : x.type = "event" => x.host \in Hosts /\ x.epoch \in Nat
    BY <1>1 DEF FlowInv
  <2>8. NoneAhead'
    BY <2>6 DEF NoneAhead
  <2> QED BY <1>1, <2>3, <2>4, <2>5, <2>8, <2>7 DEF FlowInv
<1>10. CASE ring' = ring /\ lostReset' = IF ev.type = "reset" THEN [lostReset EXCEPT ![h] = ev.epoch] ELSE lostReset
  <2>1. Queued' = Queued
    BY <1>4, <1>10 DEF Queued
  <2>2. \A g \in Hosts : /\ lostReset[g] \in Nat /\ epoch[g] \in Nat /\ lostReset[g] <= epoch[g]
                         /\ lostReset'[g] = IF g = h /\ ev.type = "reset" THEN epoch[g] ELSE lostReset[g]
    BY <1>2, <1>6, <1>10 DEF TypeInv, FlowInv
  <2>3. lostReset' \in [Hosts -> Nat]
    BY <1>2, <1>6, <1>10
  <2>4. Grows(lostReset, lostReset') /\ \A g \in Hosts : lostReset'[g] <= epoch[g]
    BY <1>6, <2>2, <2>3 DEF Grows
  <2>5. \A D : Carry(D, D, lostReset')
    BY DEF Carry
  <2>6. ASSUME FlowOK PROVE FlowOK'
    <3>1. StagesOK'
      BY <1>1, <2>4, <2>6, StagesMore DEF FlowOK
    <3>2. Preceded(Queued, Delivered, lostReset)'
      BY <1>5, <2>1, <2>4, <2>5, <2>6, QueuedIs, PrecededMore DEF FlowOK
    <3>3. (Delivered \cup ToSet(Queued))' = Delivered \cup ToSet(Queued)
      BY <1>5, <2>1
    <3>4. ASSUME NEW g \in Hosts, g # h PROVE EpochOK(g)'
      BY <1>1, <1>4, <2>4, <2>5, <2>6, <3>3, <3>4, EpochMore DEF FlowOK
    <3>5. EpochOK(h)'
      <4>1. CASE ev.type = "reset"
        <5>1. epoch[h] <= lostReset'[h]
          BY <1>6, <2>2, <4>1
        <5> QED BY <1>1, <5>1 DEF EpochOK, Announced
      <4>2. CASE ev.type # "reset"
        <5>1. Announced(h, epoch[h], (Delivered \cup ToSet(Queued))', lostReset')
          BY <1>6, <1>8, <2>4, <2>5, <2>6, <3>3, <4>2, AnnouncedMore
        <5> QED BY <1>1, <5>1 DEF EpochOK
      <4> QED BY <4>1, <4>2
    <3> QED BY <3>1, <3>2, <3>4, <3>5 DEF FlowOK
  <2>7. \A g \in Hosts : act'[g].pc = "deliver" => act'[g] = act[g]
    BY <1>4
  <2>8. stopped' \/ FlowOK'
    BY <1>1, <2>6 DEF FlowInv
  <2> QED BY <1>1, <1>10, <2>4, <2>7, <2>8, FlowRest
<1> QED BY <1>1, <1>9, <1>10

\* A hub-level event joins the ring, or is lost in front of it: it announces
\* nothing and needs no announcement.
LEMMA HubKeeps ==
  ASSUME TypeInv, FlowInv, NEW b \in Broadcasters, Enqueue(b)
  PROVE  FlowInv'
<1> DEFINE ev == act[b].ev
<1>1. /\ UNCHANGED << ch, batch, writing, shown, epoch, stopped >> /\ act[b].pc = "deliver"
      /\ \/ /\ ring' = Append(ring, ev) /\ UNCHANGED lostReset
         \/ /\ ring' = ring /\ lostReset' = IF ev.type = "reset" THEN [lostReset EXCEPT ![b] = ev.epoch] ELSE lostReset
  BY DEF Enqueue, At, writerVars, histVars
<1>2. ev \in Evs /\ ev.host = NoHost /\ ev = HubEvent /\ ev \in Items
  BY <1>1, Apart, HostsOnly DEF TypeInv, FanOK, Items
<1>3. ev.type = "hub" /\ ~IsEvent(ev)
  BY <1>2 DEF HubEvent, Ev, IsEvent
<1>4. \E pc \in {"drop", "idle"} : Moved(b, pc)
  BY FanStepMoves, Apart
<1>5. act'[Pump] = act[Pump] /\ (\A g \in Hosts : act'[g] = act[g])
  BY <1>4, Apart DEF Moved
<1>6. UNCHANGED lostReset /\ ring' \in {ring, Append(ring, ev)}
  BY <1>1, <1>3
<1> HIDE DEF ev
<1>7. Delivered' = Delivered
  BY <1>1 DEF Delivered
<1>8. CASE ring' = ring
  <2>1. Queued' = Queued /\ NoneAhead'
    BY <1>1, <1>5, <1>8 DEF Queued, FlowInv, NoneAhead
  <2> QED BY <1>1, <1>5, <1>6, <2>1, FlowKept
<1>9. CASE ring' = Append(ring, ev)
  <2>0. ring \in Seq(Items) /\ ring \in Seq(Evs) /\ Queued \in Seq(Items)
    BY QueuedIs DEF TypeInv
  <2>1. Queued' = Append(Queued, ev)
    <3>1. CASE act[Pump].pc \in {"pop"} \cup Dropping
      <4>1. ring # << >>
        BY <3>1, QueuedIs
      <4>2. Tail(Append(ring, ev)) = Append(Tail(ring), ev)
        BY <1>2, <2>0, <4>1
      <4> QED BY <1>5, <1>9, <3>1, <4>2 DEF Queued
    <3>2. CASE act[Pump].pc \notin {"pop"} \cup Dropping
      BY <1>5, <1>9, <3>2 DEF Queued
    <3> QED BY <3>1, <3>2
  <2>2. ToSet(Queued') = ToSet(Queued) \cup {ev}
    BY <1>2, <2>0, <2>1, AppendSet
  <2>3. ASSUME FlowOK PROVE FlowOK'
    <3>1. StagesOK'
      BY <1>1, <1>6, <2>3, StagesMore, SameLost DEF FlowOK
    <3>2. Preceded(Queued, Delivered, lostReset)'
      BY <1>2, <1>3, <1>6, <1>7, <2>0, <2>1, <2>3, PrecededAppend DEF FlowOK
    <3>3. Carry(Delivered \cup ToSet(Queued), (Delivered \cup ToSet(Queued))', lostReset')
      BY <1>7, <2>2 DEF Carry
    <3>4. ASSUME NEW g \in Hosts PROVE EpochOK(g)'
      BY <1>1, <1>5, <1>6, <2>3, <3>3, EpochMore, SameLost DEF FlowOK
    <3> QED BY <3>1, <3>2, <3>4 DEF FlowOK
  <2>4. ResetPrecedesEvents'
    BY <1>1, <1>6 DEF FlowInv, ResetPrecedesEvents
  <2>5. \A g \in Hosts : lostReset'[g] <= epoch'[g] /\ (At(g, "deliver")' => act'[g].ev.epoch = epoch'[g])
    BY <1>1, <1>5, <1>6 DEF FlowInv, At
  <2>6. ASSUME NEW i \in DOMAIN ring', ring'[i].host \in Hosts PROVE ring'[i].epoch <= epoch'[ring'[i].host]
    <3>1. CASE i \in DOMAIN ring
      <4>1. ring'[i] = ring[i]
        BY <1>2, <1>9, <2>0, <3>1
      <4> QED BY <1>1, <2>6, <3>1, <4>1 DEF FlowInv, NoneAhead
    <3>2. CASE i \notin DOMAIN ring
      <4>1. ring'[i] = ev
        BY <1>2, <1>9, <2>0, <2>6, <3>2
      <4> QED BY <1>2, <2>6, <4>1, Apart
    <3> QED BY <3>1, <3>2
  <2>7. \A x \in shown' : x.type = "event" => x.host \in Hosts /\ x.epoch \in Nat
    BY <1>1 DEF FlowInv
  <2>8. NoneAhead'
    BY <2>6 DEF NoneAhead
  <2> QED BY <1>1, <2>3, <2>4, <2>5, <2>7, <2>8 DEF FlowInv
<1> QED BY <1>6, <1>8, <1>9

\* The pump's event reaches the channel.
LEMMA HeadSent ==
  ASSUME TypeInv, FlowInv, act[Pump].pc = "event", Moved(Pump, "pop"), ch' = Append(ch, Head(ring)),
         UNCHANGED << batch, writing, shown, epoch, stopped, ring, lostReset >>
  PROVE  FlowInv'
<1> DEFINE x == Head(ring)
<1>1. /\ ring # << >> /\ x \in Items /\ Tail(ring) \in Seq(Items) /\ ring \in Seq(Items) /\ ch \in Seq(Items)
      /\ ToSet(ring) = {x} \cup ToSet(Tail(ring))
  BY QueuedIs DEF TypeInv
<1>2. Queued = ring /\ Queued' = Tail(ring)
  BY DEF Queued, Moved, Dropping
<1>3. \A g \in Hosts : act'[g] = act[g]
  BY Apart DEF Moved
<1> HIDE DEF x
<1>4. ToSet(ch') = ToSet(ch) \cup {x}
  BY <1>1, AppendSet DEF x
<1>5. Delivered' = Delivered \cup {x}
  BY <1>4 DEF Delivered
<1>6. ASSUME FlowOK PROVE FlowOK'
  <2>1. Preceded(Tail(ring), Delivered \cup {x}, lostReset) /\ (IsEvent(x) => Announced(x.host, x.epoch, Delivered, lostReset))
    BY <1>1, <1>2, <1>6, PrecededTail DEF FlowOK, x
  <2>2. StagesOK'
    <3> DEFINE D == shown \cup ToSet(writing) \cup ToSet(batch)
    <3>1. D \cup ToSet(ch) = Delivered
      BY DEF Delivered
    <3>2. Preceded(ch, D, lostReset)
      BY <1>6 DEF FlowOK, StagesOK
    <3> HIDE DEF D
    <3>3. Preceded(Append(ch, x), D, lostReset)
      BY <1>1, <2>1, <3>1, <3>2, PrecededAppend
    <3> QED BY <1>6, <3>3 DEF FlowOK, StagesOK, D, x
  <2>3. Preceded(Queued, Delivered, lostReset)'
    BY <1>2, <1>5, <2>1
  <2>4. (Delivered \cup ToSet(Queued))' = Delivered \cup ToSet(Queued)
    BY <1>1, <1>2, <1>5
  <2>5. \A D : Carry(D, D, lostReset')
    BY DEF Carry
  <2>6. ASSUME NEW g \in Hosts PROVE EpochOK(g)'
    BY <1>3, <1>6, <2>4, <2>5, EpochMore, SameLost DEF FlowOK
  <2> QED BY <2>2, <2>3, <2>6 DEF FlowOK
<1>7. \A h \in Hosts : lostReset'[h] <= epoch[h]
  BY DEF FlowInv
<1>8. stopped' \/ FlowOK'
  BY <1>6 DEF FlowInv
<1> QED BY <1>3, <1>7, <1>8, SameLost, FlowRest

\* The pump's event is lost.
LEMMA HeadLost ==
  ASSUME TypeInv, FlowInv, act[Pump].pc = "event", Moved(Pump, "drop"),
         UNCHANGED << ch, batch, writing, shown, epoch, stopped, ring >>,
         Grows(lostReset, lostReset'), \A h \in Hosts : lostReset'[h] <= epoch[h],
         Head(ring).type = "reset" => Head(ring).epoch <= lostReset'[Head(ring).host]
  PROVE  FlowInv'
<1> DEFINE x == Head(ring)
<1>1. /\ ring # << >> /\ x \in Items /\ x \in Evs /\ Tail(ring) \in Seq(Items) /\ ring \in Seq(Items)
      /\ ToSet(ring) = {x} \cup ToSet(Tail(ring))
  BY QueuedIs
<1>2. Queued = ring /\ Queued' = Tail(ring)
  BY DEF Queued, Moved, Dropping
<1>3. \A g \in Hosts : act'[g] = act[g]
  BY Apart DEF Moved
<1>4. x.type = "reset" => x.epoch <= lostReset'[x.host]
  OBVIOUS
<1> HIDE DEF x
<1>5. Delivered' = Delivered
  BY DEF Delivered
<1>6. \A D : Carry(D \cup {x}, D, lostReset')
  BY <1>1, <1>4 DEF Carry, Ev
<1>7. ASSUME FlowOK PROVE FlowOK'
  <2>1. Preceded(Tail(ring), Delivered \cup {x}, lostReset)
    BY <1>1, <1>2, <1>7, PrecededTail DEF FlowOK, x
  <2>2. StagesOK'
    BY <1>7, StagesMore DEF FlowOK
  <2>3. Preceded(Tail(ring), Delivered, lostReset')
    BY <1>1, <1>6, <2>1, PrecededMore
  <2>4. Carry(Delivered \cup ToSet(Queued), (Delivered \cup ToSet(Queued))', lostReset')
    <3>1. Delivered \cup ToSet(Queued) = (Delivered \cup ToSet(Tail(ring))) \cup {x}
      BY <1>1, <1>2
    <3>2. (Delivered \cup ToSet(Queued))' = Delivered \cup ToSet(Tail(ring))
      BY <1>2, <1>5
    <3> QED BY <1>6, <3>1, <3>2
  <2>5. ASSUME NEW g \in Hosts PROVE EpochOK(g)'
    BY <1>3, <1>7, <2>4, EpochMore DEF FlowOK
  <2> QED BY <1>2, <1>5, <2>2, <2>3, <2>5 DEF FlowOK
<1>8. stopped' \/ FlowOK'
  BY <1>7 DEF FlowInv
<1> QED BY <1>3, <1>8, FlowRest

\* A resync reaches the channel.
LEMMA ResyncSent ==
  ASSUME TypeInv, FlowInv, act[Pump].pc = "send", Moved(Pump, "top"), ch' = Append(ch, act[Pump].ev),
         UNCHANGED << batch, writing, shown, epoch, stopped, ring, lostReset >>
  PROVE  FlowInv'
<1> DEFINE x == act[Pump].ev
<1>1. x \in Items /\ ~IsEvent(x) /\ ch \in Seq(Items)
  BY DEF TypeInv, PumpOK, Items, Resyncs, IsEvent
<1>2. Queued' = Queued
  BY DEF Queued, Moved, Dropping
<1>3. \A g \in Hosts : act'[g] = act[g]
  BY Apart DEF Moved
<1> HIDE DEF x
<1>4. ToSet(ch') = ToSet(ch) \cup {x}
  BY <1>1, AppendSet DEF x
<1>5. Delivered' = Delivered \cup {x}
  BY <1>4 DEF Delivered
<1>6. ASSUME FlowOK PROVE FlowOK'
  <2>1. StagesOK'
    <3> DEFINE D == shown \cup ToSet(writing) \cup ToSet(batch)
    <3>1. Preceded(ch, D, lostReset)
      BY <1>6 DEF FlowOK, StagesOK
    <3> HIDE DEF D
    <3>2. Preceded(Append(ch, x), D, lostReset)
      BY <1>1, <3>1, PrecededAppend
    <3> QED BY <1>6, <3>2 DEF FlowOK, StagesOK, D, x
  <2>2. Preceded(Queued, Delivered, lostReset)'
    <3>1. Carry(Delivered, Delivered', lostReset)
      BY <1>5 DEF Carry
    <3> QED BY <1>2, <1>6, <3>1, QueuedIs, PrecededMore, SameLost DEF FlowOK
  <2>3. Carry(Delivered \cup ToSet(Queued), (Delivered \cup ToSet(Queued))', lostReset')
    BY <1>2, <1>5 DEF Carry
  <2>4. ASSUME NEW g \in Hosts PROVE EpochOK(g)'
    BY <1>3, <1>6, <2>3, EpochMore, SameLost DEF FlowOK
  <2> QED BY <2>1, <2>2, <2>4 DEF FlowOK
<1>7. \A h \in Hosts : lostReset'[h] <= epoch[h]
  BY DEF FlowInv
<1>8. stopped' \/ FlowOK'
  BY <1>6 DEF FlowInv
<1> QED BY <1>3, <1>7, <1>8, SameLost, FlowRest

\* The page has left: nothing is written any more.
LEMMA FlowStopped ==
  ASSUME TypeInv, FlowInv, stopped', UNCHANGED << shown, epoch, lostReset, ring >>,
         \A h \in Hosts : act'[h].pc = "deliver" => act'[h] = act[h]
  PROVE  FlowInv'
<1>1. \A h \in Hosts : lostReset'[h] <= epoch[h]
  BY DEF FlowInv
<1> QED BY <1>1, SameLost, FlowRest

\* The writer takes an event.
LEMMA TakeKeeps ==
  ASSUME TypeInv, FlowInv, Take
  PROVE  FlowInv'
<1> DEFINE x == Head(ch)
           b == Append(batch, x)
<1>1. /\ Delivered' = Delivered /\ ch # << >> /\ ch' = Tail(ch) /\ UNCHANGED << shown, stopped >> /\ writing = << >>
      /\ \/ batch' = b /\ writing' = << >>
         \/ writing' = b /\ batch' = << >>
  BY TakeSets
<1>2. UNCHANGED << act, ring, epoch, lostReset >>
  BY DEF Take, WriterKeeps, histVars
<1>3. Queued' = Queued
  BY <1>2 DEF Queued
<1>4. ch \in Seq(Items) /\ batch \in Seq(Items) /\ x \in Items
  BY <1>1, TailSet DEF TypeInv
<1>5. ToSet(b) = ToSet(batch) \cup {x}
  BY <1>4, AppendSet
<1>6. ASSUME StagesOK PROVE StagesOK'
  <2> DEFINE D == shown \cup ToSet(batch)
  <2>1. Preceded(ch, D, lostReset) /\ Preceded(batch, shown, lostReset)
    <3>1. /\ shown \cup ToSet(writing) \cup ToSet(batch) = D
          /\ shown \cup ToSet(writing) = shown
      BY <1>1, EmptySet
    <3> QED BY <1>6, <3>1 DEF StagesOK
  <2> HIDE DEF D
  <2>2. Preceded(Tail(ch), D \cup {x}, lostReset) /\ (IsEvent(x) => Announced(x.host, x.epoch, D, lostReset))
    BY <1>1, <1>4, <2>1, PrecededTail
  <2> HIDE DEF x
  <2>3. Preceded(b, shown, lostReset)
    BY <1>4, <2>1, <2>2, PrecededAppend DEF D
  <2>4. D \cup {x} = shown \cup ToSet(b)
    BY <1>5 DEF D
  <2> HIDE DEF b
  <2>5. \A E : Preceded(<< >>, E, lostReset)
    BY DEF Preceded
  <2>6. CASE batch' = b /\ writing' = << >>
    <3>1. shown \cup ToSet(writing') = shown /\ shown \cup ToSet(writing') \cup ToSet(batch') = D \cup {x}
      BY <2>4, <2>6, EmptySet
    <3> QED BY <1>1, <1>2, <2>2, <2>3, <2>5, <2>6, <3>1 DEF StagesOK
  <2>7. CASE writing' = b /\ batch' = << >>
    <3>1. shown \cup ToSet(writing') \cup ToSet(batch') = D \cup {x}
      BY <2>4, <2>7, EmptySet
    <3> QED BY <1>1, <1>2, <2>2, <2>3, <2>5, <2>7, <3>1 DEF StagesOK
  <2> QED BY <1>1, <2>6, <2>7
<1>7. ASSUME FlowOK PROVE FlowOK'
  <2>1. \A g \in Hosts : EpochOK(g) => EpochOK(g)'
    BY <1>1, <1>2, <1>3 DEF EpochOK, At
  <2> QED BY <1>1, <1>2, <1>3, <1>6, <1>7, <2>1 DEF FlowOK
<1>8. stopped' \/ FlowOK'
  BY <1>1, <1>7 DEF FlowInv
<1>9. \A h \in Hosts : lostReset'[h] <= epoch[h]
  BY <1>2 DEF FlowInv
<1> QED BY <1>1, <1>2, <1>8, <1>9, SameLost, FlowRest

\* The writer begins with a partial batch.
LEMMA FlushKeeps ==
  ASSUME TypeInv, FlowInv, Flush
  PROVE  FlowInv'
<1>1. /\ Delivered' = Delivered /\ writing = << >> /\ writing' = batch /\ batch' = << >>
      /\ UNCHANGED << ch, shown, stopped >>
  BY FlushSets
<1>2. UNCHANGED << act, ring, epoch, lostReset >>
  BY DEF Flush, WriterKeeps, histVars
<1>3. Queued' = Queued
  BY <1>2 DEF Queued
<1>4. ASSUME StagesOK PROVE StagesOK'
  <2>1. /\ shown \cup ToSet(writing) = shown
        /\ shown \cup ToSet(writing') \cup ToSet(batch') = shown \cup ToSet(writing) \cup ToSet(batch)
    BY <1>1, EmptySet
  <2>2. \A E : Preceded(<< >>, E, lostReset)
    BY DEF Preceded
  <2> QED BY <1>1, <1>2, <1>4, <2>1, <2>2 DEF StagesOK
<1>5. ASSUME FlowOK PROVE FlowOK'
  <2>1. \A g \in Hosts : EpochOK(g) => EpochOK(g)'
    BY <1>1, <1>2, <1>3 DEF EpochOK, At
  <2> QED BY <1>1, <1>2, <1>3, <1>4, <1>5, <2>1 DEF FlowOK
<1>6. stopped' \/ FlowOK'
  BY <1>1, <1>5 DEF FlowInv
<1>7. \A h \in Hosts : lostReset'[h] <= epoch[h]
  BY <1>2 DEF FlowInv
<1> QED BY <1>1, <1>2, <1>6, <1>7, SameLost, FlowRest

\* A frame is written: every event in it was announced before or within it.
LEMMA WriteKeeps ==
  ASSUME TypeInv, FlowInv, WriteFrame
  PROVE  FlowInv'
<1>1. /\ ~stopped /\ writing # << >> /\ writing' = NextFrame(writing)[2] /\ UNCHANGED << ch, batch, stopped >>
      /\ UNCHANGED << act, ring, epoch, lostReset >> /\ writing \in Seq(Items)
  BY DEF WriteFrame, WriterKeeps, histVars, TypeInv
<1>2. PICK n \in 1 .. Len(writing) :
          NextFrame(writing) = << SubSeq(writing, 1, n), SubSeq(writing, n + 1, Len(writing)) >>
  BY <1>1, FrameSplits
<1> DEFINE frame == SubSeq(writing, 1, n)
           rest  == SubSeq(writing, n + 1, Len(writing))
<1>3. frame \in Seq(Items) /\ rest \in Seq(Items) /\ ToSet(writing) = ToSet(frame) \cup ToSet(rest)
  BY <1>1, CutSet
<1>4. /\ writing' = rest /\ shown' = shown \cup {Seen(x) : x \in {y \in ToSet(frame) : y.host # NoHost}}
      /\ \A x : Notice(x) => (x \in Delivered' <=> x \in Delivered)
  BY <1>1, <1>2, WriteSets
<1>5. FlowOK
  BY <1>1 DEF FlowInv
<1>6. /\ Preceded(rest, shown \cup ToSet(frame), lostReset)
      /\ \A x \in ToSet(frame) : IsEvent(x) => Announced(x.host, x.epoch, shown \cup ToSet(frame), lostReset)
  BY <1>1, <1>5, PrecededCut DEF FlowOK, StagesOK
<1>7. ToSet(frame) \subseteq Items
  BY <1>3 DEF ToSet
<1> HIDE DEF frame, rest
<1>8. \A h \in Hosts : \A e : /\ Notice(Ev("reset", h, e)) /\ Seen(Ev("reset", h, e)) = Ev("reset", h, e)
                             /\ Ev("reset", h, e).host # NoHost
  BY Apart DEF Notice, Ev, Seen
<1>9. Carry(shown \cup ToSet(frame), shown', lostReset)
  BY <1>4, <1>8 DEF Carry
<1>10. Carry(Delivered, Delivered', lostReset)
  BY <1>4, <1>8 DEF Carry
<1>11. StagesOK'
  <2>1. Preceded(rest, shown', lostReset)
    BY <1>3, <1>6, <1>9, PrecededMore, SameLost
  <2>2. Carry(shown \cup ToSet(writing), shown' \cup ToSet(rest), lostReset)
    BY <1>3, <1>9 DEF Carry
  <2>3. Preceded(batch, shown' \cup ToSet(rest), lostReset)
    BY <1>5, <2>2, PrecededMore, SameLost DEF FlowOK, StagesOK, TypeInv
  <2>4. Carry(shown \cup ToSet(writing) \cup ToSet(batch), shown' \cup ToSet(rest) \cup ToSet(batch), lostReset)
    BY <2>2 DEF Carry
  <2>5. Preceded(ch, shown' \cup ToSet(rest) \cup ToSet(batch), lostReset)
    BY <1>5, <2>4, PrecededMore, SameLost DEF FlowOK, StagesOK, TypeInv
  <2> QED BY <1>1, <1>4, <2>1, <2>3, <2>5 DEF StagesOK
<1>12. Queued' = Queued
  BY <1>1 DEF Queued
<1>13. FlowOK'
  <2>1. Preceded(Queued, Delivered', lostReset)
    BY <1>5, <1>10, QueuedIs, PrecededMore, SameLost DEF FlowOK
  <2>2. Carry(Delivered \cup ToSet(Queued), (Delivered \cup ToSet(Queued))', lostReset')
    BY <1>1, <1>10, <1>12 DEF Carry
  <2>3. ASSUME NEW g \in Hosts PROVE EpochOK(g)'
    BY <1>1, <1>5, <2>2, EpochMore, SameLost DEF FlowOK
  <2> QED BY <1>1, <1>11, <1>12, <2>1, <2>3 DEF FlowOK
<1>14. ASSUME NEW y \in shown', y.type = "event"
       PROVE  /\ y.host \in Hosts /\ y.epoch \in Nat
              /\ y.epoch = 0 \/ y.epoch <= lostReset[y.host] \/ Ev("reset", y.host, y.epoch) \in shown'
  <2>1. CASE y \in shown
    <3>1. y.host \in Hosts /\ y.epoch \in Nat
      BY <1>14, <2>1 DEF FlowInv
    <3>2. y.epoch = 0 \/ y.epoch <= lostReset[y.host] \/ Ev("reset", y.host, y.epoch) \in shown
      BY <1>14, <2>1 DEF FlowInv, ResetPrecedesEvents
    <3> QED BY <1>4, <3>1, <3>2
  <2>2. CASE y \notin shown
    <3>1. PICK x \in ToSet(frame) : y = Seen(x)
      BY <1>4, <1>14, <2>2
    <3>2. x \in Items
      BY <1>7
    <3>3. IsEvent(x)
      BY <1>14, <3>1, <3>2 DEF Seen, IsEvent, Items, Evs, HubEvent, Ev, Resyncs
    <3>4. y.host = x.host /\ y.epoch = x.epoch
      BY <3>1, <3>3 DEF Seen, IsEvent, Ev
    <3>5. x.host \in Hosts /\ x.epoch \in Nat
      BY <3>2, <3>3, EventIs
    <3>6. Announced(x.host, x.epoch, shown', lostReset)
      BY <1>6, <1>9, <3>3, <3>5, AnnouncedMore, SameLost
    <3> QED BY <3>4, <3>5, <3>6 DEF Announced
  <2> QED BY <2>1, <2>2
<1>15. ResetPrecedesEvents' /\ \A x \in shown' : x.type = "event" => x.host \in Hosts /\ x.epoch \in Nat
  BY <1>1, <1>14 DEF ResetPrecedesEvents
<1>16. \A h \in Hosts : lostReset'[h] <= epoch'[h] /\ (At(h, "deliver")' => act'[h].ev.epoch = epoch'[h])
  BY <1>1 DEF FlowInv, At
<1>17. NoneAhead'
  BY <1>1 DEF FlowInv, NoneAhead
<1> QED BY <1>13, <1>15, <1>16, <1>17 DEF FlowInv

\* Resets stay in front of the events of their epoch.
LEMMA FlowStep ==
  ASSUME TypeInv, TypeInv', FlowInv, [Next]_vars
  PROVE  FlowInv'
<1> USE DEF vars, ringVars, writerVars, bounds, histVars
<1>0. NoneAhead
  BY DEF FlowInv
<1>15. ASSUME ring' = ring, epoch' = epoch PROVE NoneAhead'
  BY <1>0, <1>15 DEF NoneAhead
<1>1. ASSUME NEW h \in Hosts, \E t \in {"bulk", "critical", "reset"} : Publish(h, t) PROVE FlowInv'
  BY <1>1, PublishKeeps
<1>2. ASSUME NEW h \in Sources, Enqueue(h) PROVE FlowInv'
  BY <1>2, EnqueueKeeps, HubKeeps, Apart
<1>16. ASSUME NEW b \in Broadcasters, Broadcast(b) PROVE FlowInv'
  <2>1. UNCHANGED << ch, batch, writing, shown, epoch, lostReset, ring, stopped >>
    BY <1>16 DEF Broadcast
  <2>2. b \in Actors /\ Moved(b, "deliver")
    BY <1>16, FanStepMoves, Apart
  <2>3. act'[Pump] = act[Pump] /\ \A h \in Hosts : act'[h] = act[h]
    BY <2>2, Apart DEF Moved
  <2>4. Queued' = Queued
    BY <2>1, <2>3 DEF Queued
  <2> QED BY <1>15, <2>1, <2>3, <2>4, FlowKept
<1>3. ASSUME NEW a \in Actors, DropStep(a) PROVE FlowInv'
  <2>1. act[a].pc \in Dropping /\ \E pc \in Dropping \cup {After(a)} : Moved(a, pc)
    BY <1>3, DropStepMoves DEF DropStep, At, Dropping
  <2>2. UNCHANGED << ch, batch, writing, shown, epoch, lostReset, ring, stopped >>
    BY <1>3 DEF DropStep, CountDrop, ResetCounter, QueueResync
  <2>3. PICK pc \in Dropping \cup {After(a)} : Moved(a, pc)
    BY <2>1
  <2>4. Queued' = Queued
    <3>1. CASE a = Pump
      <4>1. act'[Pump].pc \in {"pop"} \cup Dropping
        BY <2>3, <3>1 DEF Moved, After
      <4> QED BY <2>1, <2>2, <3>1, <4>1 DEF Queued
    <3>2. CASE a # Pump
      <4>1. act'[Pump] = act[Pump]
        BY <2>3, <3>2, Apart DEF Moved
      <4> QED BY <2>2, <4>1 DEF Queued
    <3> QED BY <3>1, <3>2
  <2>5. \A h \in Hosts : /\ (act'[h].pc = "deliver" <=> act[h].pc = "deliver")
                         /\ act[h].pc = "deliver" => act'[h] = act[h]
    <3> SUFFICES ASSUME NEW h \in Hosts
                 PROVE  (act'[h].pc = "deliver" <=> act[h].pc = "deliver") /\ (act[h].pc = "deliver" => act'[h] = act[h])
      OBVIOUS
    <3>1. CASE a = h
      BY <2>1, <2>3, <3>1 DEF Moved, After, Dropping
    <3>2. CASE a # h
      <4>1. act'[h] = act[h]
        BY <2>3, <3>2, Apart DEF Moved
      <4> QED BY <4>1
    <3> QED BY <3>1, <3>2
  <2> QED BY <1>15, <2>2, <2>4, <2>5, FlowKept
<1>4. ASSUME PumpTop PROVE FlowInv'
  <2>1. UNCHANGED << ch, batch, writing, shown, epoch, lostReset, ring, stopped >>
    BY <1>4 DEF PumpTop, PumpKeeps
  <2>2. act[Pump].pc = "top" /\ act'[Pump].pc \in {"send", "wait", "event"} /\ \A h \in Hosts : act'[h] = act[h]
    BY <1>4, PumpStepMoves, Apart DEF Moved
  <2>3. Queued' = Queued
    BY <2>1, <2>2 DEF Queued, Dropping
  <2> QED BY <1>15, <2>1, <2>2, <2>3, FlowKept
<1>5. ASSUME PumpWait PROVE FlowInv'
  <2>1. UNCHANGED << ch, batch, writing, shown, epoch, lostReset, ring, stopped >>
    BY <1>5 DEF PumpWait, PumpKeeps
  <2>2. act[Pump].pc = "wait" /\ act'[Pump].pc \in {"top", "done"} /\ \A h \in Hosts : act'[h] = act[h]
    BY <1>5, PumpStepMoves, Apart DEF Moved
  <2>3. Queued' = Queued
    BY <2>1, <2>2 DEF Queued, Dropping
  <2> QED BY <1>15, <2>1, <2>2, <2>3, FlowKept
<1>6. ASSUME PumpSend PROVE FlowInv'
  <2>1. UNCHANGED << batch, writing, shown, epoch, lostReset, ring, stopped >>
    BY <1>6 DEF PumpSend, PumpKeeps
  <2>2. (\A h \in Hosts : act'[h] = act[h]) /\ act[Pump].pc \in {"send", "event"} /\ DOMAIN act = Actors
    BY <1>6, PumpStepMoves, Apart DEF Moved, TypeInv
  <2>3. CASE stopped
    BY <2>1, <2>2, <2>3, FlowStopped
  <2>4. CASE ~stopped
    <3>1. ch' = Append(ch, act[Pump].ev)
          /\ act' = IF act[Pump].pc = "send" THEN Go(Pump, "top", NoFrame) ELSE Go(Pump, "pop", NoFrame)
      BY <1>6, <2>4 DEF PumpSend, At
    <3>2. CASE act[Pump].pc = "send"
      <4>1. Moved(Pump, "top")
        BY <2>2, <3>1, <3>2, GoIs, Apart DEF Moved
      <4> QED BY <2>1, <3>1, <3>2, <4>1, ResyncSent
    <3>3. CASE act[Pump].pc = "event"
      <4>1. Moved(Pump, "pop")
        BY <2>2, <3>1, <3>3, GoIs, Apart DEF Moved
      <4>2. act[Pump].ev = Head(ring)
        BY <3>3 DEF TypeInv, HeadOK
      <4> QED BY <2>1, <3>1, <3>3, <4>1, <4>2, HeadSent
    <3> QED BY <2>2, <3>2, <3>3
  <2> QED BY <2>3, <2>4
<1>7. ASSUME PumpTrySend PROVE FlowInv'
  <2> DEFINE ev == act[Pump].ev
  <2>1. UNCHANGED << batch, writing, shown, epoch, ring, stopped >> /\ act[Pump].pc = "event"
    BY <1>7 DEF PumpTrySend, PumpKeeps, At
  <2>2. (\A h \in Hosts : act'[h] = act[h]) /\ DOMAIN act = Actors
    BY <1>7, PumpStepMoves, Apart DEF Moved, TypeInv
  <2>3. ev = Head(ring) /\ ring # << >> /\ ev \in Evs
    BY <2>1, QueuedIs DEF TypeInv, HeadOK
  <2>4. CASE Room
    <3>1. ch' = Append(ch, ev) /\ UNCHANGED lostReset /\ act' = Go(Pump, "pop", NoFrame)
      BY <1>7, <2>4 DEF PumpTrySend
    <3>2. Moved(Pump, "pop")
      BY <2>2, <3>1, GoIs, Apart DEF Moved
    <3> QED BY <2>1, <2>3, <3>1, <3>2, HeadSent
  <2>5. CASE ~Room /\ stopped
    <3>1. UNCHANGED lostReset
      BY <1>7, <2>5 DEF PumpTrySend
    <3> QED BY <2>1, <2>2, <2>5, <3>1, FlowStopped
  <2>6. CASE ~Room /\ ~stopped
    <3>1. /\ UNCHANGED ch /\ act' = Go(Pump, "drop", ev)
          /\ lostReset' = IF ev.type = "reset" /\ ev.epoch > lostReset[ev.host]
                          THEN [lostReset EXCEPT ![ev.host] = ev.epoch] ELSE lostReset
      BY <1>7, <2>6 DEF PumpTrySend
    <3>2. Moved(Pump, "drop")
      BY <2>2, <3>1, GoIs, Apart DEF Moved
    <3>3. ev.epoch \in Nat /\ (ev.type = "reset" => ev.host \in Hosts /\ ev.epoch <= epoch[ev.host])
      <4>1. 1 \in DOMAIN ring /\ Head(ring) = ring[1]
        BY <2>3, TailSet DEF TypeInv
      <4> QED BY <1>0, <2>3, <4>1, HostsOnly DEF NoneAhead
    <3>4. /\ lostReset \in [Hosts -> Nat] /\ lostReset' \in [Hosts -> Nat] /\ epoch \in [Hosts -> Nat]
          /\ \A h \in Hosts : lostReset[h] <= epoch[h]
      BY DEF TypeInv, FlowInv
    <3> HIDE DEF ev
    <3>5. Grows(lostReset, lostReset') /\ \A h \in Hosts : lostReset'[h] <= epoch[h]
      BY <3>1, <3>3, <3>4 DEF Grows
    <3>6. ev.type = "reset" => ev.epoch <= lostReset'[ev.host]
      BY <3>1, <3>3, <3>4
    <3> QED BY <2>1, <2>3, <3>1, <3>2, <3>5, <3>6, HeadLost
  <2> QED BY <2>4, <2>5, <2>6
<1>8. ASSUME PumpPop PROVE FlowInv'
  <2>1. UNCHANGED << ch, batch, writing, shown, epoch, lostReset, stopped >> /\ ring' = Tail(ring)
    BY <1>8 DEF PumpPop, PumpKeeps
  <2>2. act[Pump].pc = "pop" /\ act'[Pump].pc = "top" /\ \A h \in Hosts : act'[h] = act[h]
    BY <1>8, PumpStepMoves, Apart DEF Moved
  <2>3. Queued' = Queued
    BY <2>1, <2>2 DEF Queued, Dropping
  <2>4. NoneAhead'
    <3>1. ring \in Seq(Evs) /\ ring # << >>
      BY <2>2 DEF TypeInv, HeadOK
    <3>2. \A i \in DOMAIN Tail(ring) : i + 1 \in DOMAIN ring /\ Tail(ring)[i] = ring[i + 1]
      BY <3>1, TailSet
    <3> QED BY <1>0, <2>1, <3>2 DEF NoneAhead
  <2> QED BY <2>1, <2>2, <2>3, <2>4, FlowKept
<1>9. ASSUME Take PROVE FlowInv'
  BY <1>9, TakeKeeps
<1>10. ASSUME Flush PROVE FlowInv'
  BY <1>10, FlushKeeps
<1>11. ASSUME WriteFrame PROVE FlowInv'
  BY <1>11, WriteKeeps
<1>12. ASSUME Leave PROVE FlowInv'
  <2>1. stopped' /\ shown' = {} /\ UNCHANGED << epoch, lostReset, ring, act >>
    BY <1>12 DEF Leave, WriterKeeps
  <2>2. ResetPrecedesEvents' /\ NoneAhead'
    BY <1>15, <2>1 DEF ResetPrecedesEvents
  <2> QED BY <2>1, <2>2 DEF FlowInv, At
<1>13. ASSUME NEW h \in Hosts, Retarget(h) PROVE FlowInv'
  BY <1>13, <1>15, FlowKept DEF Retarget, Queued
<1>14. ASSUME UNCHANGED vars PROVE FlowInv'
  BY <1>14, <1>15, FlowKept DEF Queued
<1> QED BY <1>1, <1>2, <1>3, <1>4, <1>5, <1>6, <1>7, <1>8, <1>9, <1>10, <1>11, <1>12, <1>13, <1>14, <1>16, Apart
        DEF Next, SourceStep, PumpStep, WriterStep

-----------------------------------------------------------------------------
(* The theorems. *)

SubscriberInv == TypeInv /\ SilentInv /\ CriticalDropAnnounced /\ FlowInv

\* A page that has just opened has lost nothing and been shown nothing.
LEMMA InitSubscriber == Init => SubscriberInv
<1> SUFFICES ASSUME Init PROVE SubscriberInv
  OBVIOUS
<1> USE DEF Init
<1>1. \A h \in Sources : act[h].pc = "idle" /\ act[h].ev = NoFrame
  BY Apart
<1>2. act[Pump].pc = "top" /\ act[Pump].ev = NoFrame /\ DOMAIN act = Actors
  BY Apart
<1>3. TypeInv
  <2>1. /\ ring \in Seq(Evs) /\ ch \in Seq(Items) /\ batch \in Seq(Items) /\ writing \in Seq(Items)
        /\ pending \in Resyncs \cup {NoFrame}
    OBVIOUS
  <2>2. PumpOK /\ HeadOK
    BY <1>2 DEF PumpOK, HeadOK, Dropping
  <2>3. \A h \in Sources : FanOK(h)
    BY <1>1 DEF FanOK, Dropping
  <2>4. epoch \in [Hosts -> Nat] /\ crit \in [Hosts -> Nat] /\ lostReset \in [Hosts -> Nat]
    OBVIOUS
  <2>5. silent \in Nat /\ dropped \in Nat /\ stopped \in BOOLEAN /\ replaced \in SUBSET Resyncs
    OBVIOUS
  <2> QED BY <1>2, <2>1, <2>2, <2>3, <2>4, <2>5 DEF TypeInv
<1>4. SilentInv
  <2>1. Counting = {}
    BY <1>1, <1>2 DEF Counting, At, Actors
  <2>2. IsFiniteSet(Counting) /\ Cardinality(Counting) = 0
    BY <2>1, FS_EmptySet
  <2>3. ~(dropped >= Threshold)
    BY SubscriberAssumption
  <2> QED BY <2>2, <2>3 DEF SilentInv
<1>5. CriticalDropAnnounced
  <2>1. \A h \in Hosts : crit[h] = 0
    OBVIOUS
  <2> QED BY <2>1 DEF CriticalDropAnnounced
<1>6. FlowInv
  <2>1. \A E : Preceded(<< >>, E, lostReset)
    BY DEF Preceded
  <2>2. Queued = << >>
    BY <1>2 DEF Queued, Dropping
  <2>3. FlowOK
    BY <2>1, <2>2 DEF FlowOK, StagesOK, EpochOK, Announced
  <2>4. \A h \in Hosts : lostReset[h] <= epoch[h] /\ (At(h, "deliver") => act[h].ev.epoch = epoch[h])
    BY <1>1, Apart DEF At
  <2>5. NoneAhead
    BY DEF NoneAhead
  <2>6. shown = {} /\ stopped = FALSE
    OBVIOUS
  <2> QED BY <2>3, <2>4, <2>5, <2>6 DEF FlowInv, ResetPrecedesEvents
<1> QED BY <1>3, <1>4, <1>5, <1>6 DEF SubscriberInv

\* The page's inductive invariant: ring, slot, pump, channel, batch and what the
\* page was shown agree in every interleaving.
THEOREM SubscriberInvariant == Spec => []SubscriberInv
<1>1. SubscriberInv /\ [Next]_vars => SubscriberInv'
  BY TypeStep, SilentStep, AnnounceStep, FlowStep DEF SubscriberInv
<1> QED BY InitSubscriber, <1>1, PTL DEF Spec

\* Every critical event that a page loses is announced by a resync of its host
\* queued after the loss, unless that very resync was replaced in the one slot by
\* one of another host or by an untagged one (noteDrop, resyncFrame, queueResync).
THEOREM CriticalLossesAnnounced == Spec => []CriticalDropAnnounced
<1>1. SubscriberInv => CriticalDropAnnounced
  BY DEF SubscriberInv
<1> QED BY SubscriberInvariant, <1>1, PTL

\* Fewer droppable events than the threshold are lost without a resync being due,
\* however many goroutines count, reset the counter and queue at the same time.
THEOREM SilenceIsBounded == Spec => []SilentDropsBounded
<1>1. SubscriberInv => SilentDropsBounded
  <2> SUFFICES ASSUME SubscriberInv, Resetting = {}, Queueing = {}
               PROVE  silent < Threshold + Cardinality(Counting)
    BY DEF SilentDropsBounded, Resetting, Queueing, Counting
  <2>1. /\ silent \in Nat /\ dropped \in Nat /\ Threshold \in Nat /\ Cardinality(Counting) \in Nat
        /\ ~(dropped >= Threshold) /\ silent <= dropped + Cardinality(Counting)
    BY SubscriberAssumption, FS_CardinalityType DEF SubscriberInv, TypeInv, SilentInv
  <2> DEFINE c == Cardinality(Counting)
  <2> HIDE DEF c
  <2>2. c \in Nat /\ silent <= dropped + c
    BY <2>1 DEF c
  <2>3. silent < Threshold + c
    BY <2>1, <2>2
  <2> QED BY <2>3 DEF c
<1> QED BY SubscriberInvariant, <1>1, PTL

\* No event reaches the page before the reset of its epoch, unless the reset was
\* dropped, for any size of ring, channel and batch.
THEOREM ResetsComeFirst == Spec => []ResetPrecedesEvents
<1>1. SubscriberInv => ResetPrecedesEvents
  BY DEF SubscriberInv, FlowInv
<1> QED BY SubscriberInvariant, <1>1, PTL
=============================================================================
