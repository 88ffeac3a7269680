--------------------------- MODULE ControlProofs ----------------------------
(***************************************************************************)
(* Proofs about Control, for any number of callers, queue depth, units per *)
(* frame and link size: joiners of a shared probe are never stranded, the  *)
(* awaited probe is never lost to heartbeats, a control frame waits for    *)
(* one unit at most, and the frames between which it is written arrive     *)
(* intact.                                                                 *)
(***************************************************************************)
EXTENDS Control, TLAPS, NaturalsInduction, WellFoundedInduction, SequenceTheorems

-----------------------------------------------------------------------------
(* The inductive invariant, in parts.  Shapes first. *)

CallPCs == {"idle", "wait", "post", "own", "clear", "clearOk", "fail", "failOk", "ok", "failed"}

\* Before the owner has cleared the slot, and until it has closed the group.
Holding == {"post", "own", "clear", "clearOk"}
Owning == Holding \cup {"fail", "failOk"}

Kinds == {"small", "compressed", "large"}

TypeInv ==
    /\ DOMAIN call = Callers
    /\ \A c \in Callers : /\ call[c].pc \in CallPCs /\ call[c].group \in Groups \cup {None}
                          /\ call[c].pc \in Owning => call[c].group \in Groups
    /\ slot \in Groups \cup {None} /\ live.done \in Groups \cup {None}
    /\ DOMAIN live = {"pending", "done"} /\ live.pending \in BOOLEAN
    /\ DOMAIN seqs = {"probe", "live", "tr", "wr"}
    /\ seqs.probe \in Nat /\ seqs.live \in Nat /\ seqs.tr \in Nat /\ seqs.wr \in Nat
    /\ DOMAIN group = Groups /\ \A g \in Groups : DOMAIN group[g] = {"ok", "closed"}
    /\ DOMAIN writer = {"pc", "frame", "unit"} /\ writer.pc \in {"top", "entry", "lead", "unit"}
    /\ stop \in BOOLEAN /\ hostProbes \in Nat

-----------------------------------------------------------------------------
(* The control queue and what travels in it. *)

\* What the hub sends: heartbeats, its probes, answers to the host's probes.
Sent == {Plain} \cup {Probe(Preflight(g)) : g \in Groups} \cup {Probe(Liveness(n)) : n \in Nat}
        \cup {ProbeAck(<< "host", n >>) : n \in Nat}

\* What the host sends: signs of life, its probes, answers to the hub's.
Answers == {Plain} \cup {Probe(<< "host", n >>) : n \in Nat}
           \cup {ProbeAck(Preflight(g)) : g \in Groups} \cup {ProbeAck(Liveness(n)) : n \in Nat}

QueueInv == queue \in Seq(Sent) /\ Len(queue) <= Depth

UpInv == up \in Seq(Answers)

\* What is on the link: whole units with the transport's ids around control
\* frames and small reliable ones, and with the writer's ids around the others.
ControlUnits == {Whole(<< "t", n >>, f) : n \in Nat, f \in Sent}
ReliableUnits == {Whole(<< x, n >>, Reliable(k)) : x \in {"t", "w"}, n \in Nat, k \in Nat}
                 \cup {Fragment(<< "w", n >>, off, Reliable(k)) : n \in Nat, off \in 1 .. Units, k \in Nat}

LinkInv == link \in Seq(ControlUnits \cup ReliableUnits)

\* Only a large frame is written in several units.
WriterInv ==
    /\ log \in Seq(Kinds)
    /\ writer.frame \in Nat \ {0} /\ writer.unit \in 1 .. Units
    /\ writer.pc # "top" \/ writer.unit > 1 => writer.frame \in 1 .. Len(log)
    /\ writer.unit > 1 => log[writer.frame] = "large"

\* The host's reassembler is only ever open on a frame of the writer.
HostInv ==
    /\ DOMAIN host = {"re", "got", "broken"} /\ DOMAIN host.re = {"open", "id", "off"}
    /\ host.re.off \in Nat /\ (host.re.open => host.re.off > 0)
    /\ \E m \in Nat : host.re.id = << "w", m >>

\* While a control frame waits, at most one unit has passed it.
StreakInv ==
    /\ streak \in {0, 1}
    /\ ~stop /\ (queue = << >> \/ writer.pc = "unit") => streak = 0

-----------------------------------------------------------------------------
(* Probe groups. *)

\* The group in the slot has an owner that will clear it, and a waiter's group is
\* closed, about to be completed, or owned.
GroupInv ==
    /\ slot # None => \E o \in Callers : call[o].group = slot /\ call[o].pc \in Holding
    /\ \A c \in Callers : call[c].pc = "wait" =>
           \/ group[call[c].group].closed \/ live.done = call[c].group
           \/ \E o \in Callers : call[o].group = call[c].group /\ call[o].pc \in Owning
    /\ \A c \in Callers : call[c].pc = "wait" => call[c].group \in Groups

-----------------------------------------------------------------------------
(* The probe that the owner of the slot waits for. *)

InSeq(s, x) == \E i \in DOMAIN s : s[i] = x

OnTheLink(f) == \E u \in ControlUnits : u.body = f /\ InSeq(link, u)

OnItsWay(g) ==
    \/ InSeq(queue, Probe(Preflight(g))) \/ OnTheLink(Probe(Preflight(g)))
    \/ InSeq(up, ProbeAck(Preflight(g))) \/ Probe(Preflight(g)) \in evicted

Awaited(g) == slot = g /\ ~stop /\ \E c \in Callers : call[c].group = g /\ call[c].pc = "own"

\* Group ids are issued once, and the awaited probe is on its way.
AwaitedInv ==
    /\ slot <= seqs.probe /\ \A c \in Callers : call[c].group <= seqs.probe
    /\ \A g \in Groups : Awaited(g) => OnItsWay(g)

-----------------------------------------------------------------------------
(* The stream of reliable units between the writer and the host. *)

\* A position in the stream: the frame and the unit that come next, and the id of
\* the frame when it has begun.
Positions == [n : Nat \ {0}, off : 1 .. Units, id : Nat]

WriterPos == [n |-> writer.frame, off |-> writer.unit, id |-> seqs.wr]

HostAt(a) ==
    /\ a.n = host.got + 1 /\ a.off = IF host.re.open THEN host.re.off + 1 ELSE 1
    /\ host.re.open => host.re.id = << "w", a.id >>

\* Unit u takes the stream from position a to position b.
Carries(a, u, b) ==
    IF u \in ControlUnits THEN b = a
    ELSE /\ u.body = Reliable(a.n)
         /\ IF u.frag THEN u.off = a.off /\ (a.off > 1 => u.id = << "w", a.id >>) ELSE a.off = 1
         /\ IF u.frag /\ a.off < Units THEN ~u.last /\ b.n = a.n /\ b.off = a.off + 1 /\ u.id = << "w", b.id >>
            ELSE (u.frag => u.last) /\ b.n = a.n + 1 /\ b.off = 1

\* The units on the link lead from where the host is to where the writer is.
Path(pos) ==
    /\ Len(pos) = Len(link) + 1 /\ HostAt(pos[1]) /\ pos[Len(link) + 1] = WriterPos
    /\ \A i \in 1 .. Len(link) : Carries(pos[i], link[i], pos[i + 1])

ChainInv ==
    /\ ~host.broken /\ host.got \in Nat
    /\ IF stop THEN link = << >> ELSE \E pos \in Seq(Positions) : Path(pos)

-----------------------------------------------------------------------------
ControlInv ==
    /\ TypeInv /\ QueueInv /\ UpInv /\ LinkInv /\ HostInv /\ WriterInv
    /\ GroupInv /\ StreakInv /\ AwaitedInv /\ ChainInv

-----------------------------------------------------------------------------
\* Every step keeps the shapes.
LEMMA TypeStep ==
  ASSUME TypeInv, [Next]_vars
  PROVE  TypeInv'
<1> USE DEF TypeInv
<1>1. ASSUME NEW c \in Callers, Join(c) PROVE TypeInv'
  BY <1>1 DEF Join, Step, CallKeeps, CallPCs, Holding, Owning
<1>2. ASSUME NEW c \in Callers, Open(c) PROVE TypeInv'
  <2>1. seqs.probe + 1 \in Groups
    BY <1>2, ControlAssumption DEF Open, Step, CallKeeps, Groups
  <2> QED BY <1>2, <2>1 DEF Open, Step, CallKeeps, CallPCs, Holding, Owning
<1>3. ASSUME NEW c \in Callers, Post(c) PROVE TypeInv'
  BY <1>3 DEF Post, Step, CallKeeps, CallPCs, Holding, Owning
<1>4. ASSUME NEW c \in Callers, Woken(c) PROVE TypeInv'
  <2>1. CASE call[c].pc = "own"
    BY <1>4, <2>1 DEF Woken, Step, CallKeeps, CallPCs, Holding, Owning
  <2>2. CASE call[c].pc # "own"
    BY <1>4, <2>2 DEF Woken, Step, CallKeeps, CallPCs, Holding, Owning
  <2> QED BY <2>1, <2>2
<1>5. ASSUME NEW c \in Callers, GivesUp(c) PROVE TypeInv'
  <2>1. CASE call[c].pc = "own"
    BY <1>5, <2>1 DEF GivesUp, Step, CallKeeps, CallPCs, Holding, Owning
  <2>2. CASE call[c].pc # "own"
    BY <1>5, <2>2 DEF GivesUp, Step, CallKeeps, CallPCs, Holding, Owning
  <2> QED BY <2>1, <2>2
<1>6. ASSUME NEW c \in Callers, Clear(c) PROVE TypeInv'
  BY <1>6 DEF Clear, Step, CallKeeps, CallPCs, Holding, Owning
<1>7. ASSUME NEW c \in Callers, FailGroup(c) PROVE TypeInv'
  BY <1>7 DEF FailGroup, Step, CallKeeps, CallPCs, Holding, Owning
<1>8. ASSUME SendHeartbeat PROVE TypeInv'
  BY <1>8 DEF SendHeartbeat, Looping, LoopKeeps
<1>9. ASSUME SendProbe PROVE TypeInv'
  BY <1>9 DEF SendProbe, Looping, LoopKeeps
<1>10. ASSUME End PROVE TypeInv'
  BY <1>10 DEF End, Looping
<1>11. ASSUME HandleFrame PROVE TypeInv'
  BY <1>11 DEF HandleFrame, Looping, LoopKeeps
<1>12. ASSUME Succeed PROVE TypeInv'
  BY <1>12 DEF Succeed
<1>13. ASSUME WriterTop PROVE TypeInv'
  <2>1. UNCHANGED << call, slot, group, live, stop, hostProbes >>
    BY <1>13 DEF WriterTop, WriterKeeps, WriteControl
  <2>2. seqs' = seqs \/ seqs' = [seqs EXCEPT !.tr = @ + 1]
    BY <1>13 DEF WriterTop, WriterKeeps, WriteControl
  <2>3. DOMAIN writer' = DOMAIN writer /\ writer'.pc \in {"top", "entry", "lead", "unit"}
    BY <1>13 DEF WriterTop, WriterKeeps, WriteControl
  <2> QED BY <2>1, <2>2, <2>3
<1>14. ASSUME Entry PROVE TypeInv'
  <2>1. UNCHANGED << call, slot, group, live, stop, hostProbes >>
    BY <1>14 DEF Entry, Pass, Interleaves, WriterKeeps, WriteControl
  <2>2. seqs' = seqs \/ seqs' = [seqs EXCEPT !.tr = @ + 1]
    BY <1>14 DEF Entry, Pass, Interleaves, WriterKeeps, WriteControl
  <2>3. DOMAIN writer' = DOMAIN writer /\ writer'.pc \in {"top", "entry", "lead", "unit"}
    BY <1>14 DEF Entry, Pass, Interleaves, WriterKeeps, WriteControl
  <2> QED BY <2>1, <2>2, <2>3
<1>15. ASSUME Lead PROVE TypeInv'
  <2>1. UNCHANGED << call, slot, group, live, stop, hostProbes >>
    BY <1>15 DEF Lead, Pass, Interleaves, WriterKeeps, WriteControl
  <2>2. seqs' = seqs \/ seqs' = [seqs EXCEPT !.tr = @ + 1]
    BY <1>15 DEF Lead, Pass, Interleaves, WriterKeeps, WriteControl
  <2>3. DOMAIN writer' = DOMAIN writer /\ writer'.pc \in {"top", "entry", "lead", "unit"}
    BY <1>15 DEF Lead, Pass, Interleaves, WriterKeeps, WriteControl
  <2> QED BY <2>1, <2>2, <2>3
<1>16. ASSUME WriteUnit PROVE TypeInv'
  <2>1. UNCHANGED << call, slot, group, live, stop, hostProbes >>
    BY <1>16 DEF WriteUnit, Writing, WriterKeeps
  <2>2. /\ DOMAIN seqs' = DOMAIN seqs /\ seqs'.probe = seqs.probe /\ seqs'.live = seqs.live
        /\ seqs'.tr \in {seqs.tr, seqs.tr + 1} /\ seqs'.wr \in {seqs.wr, seqs.wr + 1}
    BY <1>16 DEF WriteUnit
  <2>3. DOMAIN writer' = {"pc", "frame", "unit"} /\ writer'.pc \in {"top", "entry", "lead"}
    BY <1>16 DEF WriteUnit, NextFrame
  <2> QED BY <2>1, <2>2, <2>3
<1>17. ASSUME HostReceives PROVE TypeInv'
  BY <1>17 DEF HostReceives, HostKeeps
<1>18. ASSUME NEW k \in Kinds, AppendFrame(k) PROVE TypeInv'
  BY <1>18 DEF AppendFrame, WriterKeeps
<1>19. ASSUME NEW f \in {Probe(<< "host", hostProbes >>), Plain}, HostSends(f) PROVE TypeInv'
  BY <1>19 DEF HostSends, HostKeeps
<1>20. CASE UNCHANGED vars
  BY <1>20 DEF vars
<1> QED
  BY <1>1, <1>2, <1>3, <1>4, <1>5, <1>6, <1>7, <1>8, <1>9, <1>10, <1>11, <1>12, <1>13,
     <1>14, <1>15, <1>16, <1>17, <1>18, <1>19, <1>20 DEF Next, CallStep, LoopStep,
     WriterStep, Kinds

-----------------------------------------------------------------------------
(* What postControl does to the queue. *)

\* Every nonempty set of naturals has a least element.
LEMMA LeastElement ==
  ASSUME NEW T \in SUBSET Nat, T # {}
  PROVE  \E m \in T : \A k \in T : m <= k
<1> DEFINE R == OpToRel(<, Nat)
<1>1. IsWellFoundedOn(R, Nat)
  BY NatLessThanWellFounded
<1>2. \A x, y \in Nat : <<y, x>> \in R <=> y < x
  BY DEF OpToRel
<1> HIDE DEF R
<1>3. PICK x \in T : \A y \in T : <<y, x>> \notin R
  BY <1>1, WFMin
<1>4. ASSUME NEW k \in T PROVE x <= k
  <2>1. x \in Nat /\ k \in Nat /\ ~ (k < x)
    BY <1>2, <1>3
  <2> QED BY <2>1
<1> QED BY <1>4

\* A sequence without its i-th element.
LEMMA RemoveAtProperties ==
  ASSUME NEW S, NEW s \in Seq(S), NEW i \in 1 .. Len(s)
  PROVE  /\ RemoveAt(s, i) \in Seq(S) /\ Len(RemoveAt(s, i)) = Len(s) - 1
         /\ \A j \in 1 .. Len(s) : j < i => RemoveAt(s, i)[j] = s[j]
         /\ \A j \in 1 .. Len(s) : j > i => RemoveAt(s, i)[j - 1] = s[j]
<1> DEFINE a == SubSeq(s, 1, i - 1)
           b == SubSeq(s, i + 1, Len(s))
<1>1. a \in Seq(S) /\ Len(a) = i - 1 /\ \A j \in 1 .. i - 1 : a[j] = s[j]
  OBVIOUS
<1>2. b \in Seq(S) /\ Len(b) = Len(s) - i /\ \A j \in 1 .. Len(s) - i : b[j] = s[j + i]
  OBVIOUS
<1>3. RemoveAt(s, i) = a \o b
  BY DEF RemoveAt
<1> HIDE DEF a, b
<1>4. RemoveAt(s, i) \in Seq(S) /\ Len(RemoveAt(s, i)) = Len(s) - 1
  BY <1>1, <1>2, <1>3
<1>5. ASSUME NEW j \in 1 .. Len(s), j < i PROVE RemoveAt(s, i)[j] = s[j]
  BY <1>1, <1>2, <1>3, <1>5
<1>6. ASSUME NEW j \in 1 .. Len(s), j > i PROVE RemoveAt(s, i)[j - 1] = s[j]
  <2>1. (a \o b)[j - 1] = b[j - 1 - Len(a)]
    BY <1>1, <1>2, <1>6, ConcatProperties
  <2>2. j - 1 - Len(a) = j - i /\ j - i \in 1 .. Len(s) - i
    BY <1>1, <1>6
  <2>3. b[j - i] = s[j]
    BY <1>2, <2>2
  <2> QED BY <1>3, <2>1, <2>2, <2>3
<1> QED BY <1>4, <1>5, <1>6

\* A sequence without its last element.
LEMMA FrontProperties ==
  ASSUME NEW S, NEW s \in Seq(S), s # << >>
  PROVE  /\ Front(s) \in Seq(S) /\ Len(Front(s)) = Len(s) - 1 /\ Len(s) > 0
         /\ \A j \in 1 .. Len(s) - 1 : Front(s)[j] = s[j]
<1>1. Len(s) \in Nat \ {0}
  BY EmptySeq
<1> QED BY <1>1 DEF Front

\* The frame that leaves an overflowing queue is a plain heartbeat if there is
\* one, and otherwise the oldest.
LEMMA VictimIsPlain ==
  ASSUME NEW q \in Seq(Sent), q # << >>
  PROVE  /\ Victim(q) \in DOMAIN q
         /\ IsPlainHeartbeat(q[Victim(q)]) \/ (Probes(q) = DOMAIN q /\ Victim(q) = 1)
<1> DEFINE plain == DOMAIN q \ Probes(q)
           least == CHOOSE i \in plain : \A j \in plain : i <= j
<1>1. DOMAIN q = 1 .. Len(q) /\ Len(q) \in Nat \ {0} /\ Probes(q) \subseteq DOMAIN q
  BY DEF Probes
<1>2. CASE plain = {}
  <2>1. Victim(q) = 1
    BY <1>2 DEF Victim
  <2>2. Probes(q) = DOMAIN q
    BY <1>1, <1>2
  <2> QED BY <1>1, <2>1, <2>2
<1>3. CASE plain # {}
  <2>1. plain \in SUBSET Nat
    BY <1>1
  <2>2. \E i \in plain : \A j \in plain : i <= j
    BY <1>3, <2>1, LeastElement
  <2>3. least \in plain
    BY <2>2
  <2>4. Victim(q) = least
    BY <1>3 DEF Victim
  <2> QED BY <2>3, <2>4 DEF Probes
<1> QED BY <1>2, <1>3

\* postControl leaves a queue of control frames, not empty and within its depth.
LEMMA PostedQueue ==
  ASSUME QueueInv, NEW f \in Sent
  PROVE  Posted(queue, f) \in Seq(Sent) /\ Len(Posted(queue, f)) \in 1 .. Depth
<1> DEFINE long == Append(queue, f)
<1>0. Depth \in Nat \ {0} /\ queue \in Seq(Sent) /\ Len(queue) <= Depth /\ Len(queue) \in Nat
  BY ControlAssumption DEF QueueInv
<1>1. CASE queue # << >> /\ IsPlainHeartbeat(f) /\ IsPlainHeartbeat(Last(queue))
  <2>1. Front(queue) \in Seq(Sent) /\ Len(Front(queue)) = Len(queue) - 1 /\ Len(queue) > 0
    BY <1>0, <1>1, FrontProperties
  <2>2. Posted(queue, f) = Front(queue) \o << f >>
    BY <1>1 DEF Posted
  <2> HIDE DEF long
  <2> QED BY <1>0, <2>1, <2>2
<1>2. CASE ~(queue # << >> /\ IsPlainHeartbeat(f) /\ IsPlainHeartbeat(Last(queue)))
  <2>1. long \in Seq(Sent) /\ Len(long) = Len(queue) + 1 /\ long # << >>
    BY <1>0, AppendProperties
  <2>2. Posted(queue, f) = IF Len(long) > Depth THEN RemoveAt(long, Victim(long)) ELSE long
    BY <1>2 DEF Posted
  <2>3. CASE Len(long) > Depth
    <3> HIDE DEF long
    <3>1. Victim(long) \in 1 .. Len(long)
      BY <2>1, VictimIsPlain
    <3>2. /\ RemoveAt(long, Victim(long)) \in Seq(Sent)
          /\ Len(RemoveAt(long, Victim(long))) = Len(long) - 1
      BY <2>1, <3>1, RemoveAtProperties
    <3> QED BY <1>0, <2>1, <2>2, <2>3, <3>2
  <2>4. CASE ~(Len(long) > Depth)
    BY <1>0, <2>1, <2>2, <2>4
  <2> QED BY <2>3, <2>4
<1> QED BY <1>1, <1>2

\* A probe survives every post, unless the queue holds nothing but probes: then
\* the oldest goes.
LEMMA PostedKeepsProbe ==
  ASSUME QueueInv, NEW f \in Sent, NEW x, ~IsPlainHeartbeat(x),
         x = f \/ \E i \in DOMAIN queue : queue[i] = x
  PROVE  \/ \E i \in DOMAIN Posted(queue, f) : Posted(queue, f)[i] = x
         \/ Len(queue) = Depth /\ Probes(Append(queue, f)) = 1 .. Depth + 1 /\ x = queue[1]
<1> DEFINE long == Append(queue, f)
<1>0. Depth \in Nat \ {0} /\ queue \in Seq(Sent) /\ Len(queue) <= Depth /\ Len(queue) \in Nat
  BY ControlAssumption DEF QueueInv
<1>1. CASE queue # << >> /\ IsPlainHeartbeat(f) /\ IsPlainHeartbeat(Last(queue))
  <2>1. PICK i \in 1 .. Len(queue) : queue[i] = x
    BY <1>0, <1>1
  <2>2. i # Len(queue)
    BY <1>1, <2>1 DEF Last
  <2>3. Front(queue) \in Seq(Sent) /\ Len(Front(queue)) = Len(queue) - 1 /\ Front(queue)[i] = x
    BY <1>0, <1>1, <2>1, <2>2, FrontProperties
  <2>4. Posted(queue, f) = Front(queue) \o << f >>
    BY <1>1 DEF Posted
  <2> DEFINE front == Front(queue)
  <2> HIDE DEF front
  <2>5. i \in 1 .. Len(front)
    BY <1>0, <2>1, <2>2, <2>3 DEF front
  <2>6. (front \o << f >>)[i] = front[i] /\ i \in DOMAIN (front \o << f >>)
    BY <2>3, <2>5 DEF front
  <2> QED BY <2>3, <2>4, <2>6 DEF front
<1>2. CASE ~(queue # << >> /\ IsPlainHeartbeat(f) /\ IsPlainHeartbeat(Last(queue)))
  <2>1. long \in Seq(Sent) /\ Len(long) = Len(queue) + 1 /\ long # << >>
    BY <1>0, AppendProperties
  <2>2. Posted(queue, f) = IF Len(long) > Depth THEN RemoveAt(long, Victim(long)) ELSE long
    BY <1>2 DEF Posted
  <2>3. PICK i \in 1 .. Len(long) : long[i] = x
    BY <1>0
  <2>4. CASE Len(long) > Depth
    <3> DEFINE v == Victim(long)
    <3> HIDE DEF long
    <3>1. /\ v \in 1 .. Len(long)
          /\ IsPlainHeartbeat(long[v]) \/ (Probes(long) = DOMAIN long /\ v = 1)
      BY <2>1, VictimIsPlain
    <3>2. CASE IsPlainHeartbeat(long[v])
      <4>1. i # v
        BY <2>3, <3>2
      <4> HIDE DEF v
      <4> DEFINE rest == RemoveAt(long, v)
      <4>2. /\ rest \in Seq(Sent) /\ Len(rest) = Len(long) - 1 /\ Len(long) \in Nat
            /\ \A j \in 1 .. Len(long) : j < v => rest[j] = long[j]
            /\ \A j \in 1 .. Len(long) : j > v => rest[j - 1] = long[j]
        BY <2>1, <3>1, RemoveAtProperties
      <4> HIDE DEF rest
      <4>3. CASE i < v
        BY <2>2, <2>3, <2>4, <3>1, <4>2, <4>3 DEF v, rest
      <4>4. CASE i > v
        <5>1. i - 1 \in DOMAIN rest /\ rest[i - 1] = x
          BY <2>3, <3>1, <4>2, <4>4
        <5> QED BY <2>2, <2>4, <5>1 DEF v, rest
      <4> QED BY <3>1, <4>1, <4>3, <4>4
    <3>3. CASE Probes(long) = DOMAIN long /\ v = 1 /\ i = 1
      <4>1. Len(queue) = Depth /\ DOMAIN long = 1 .. Depth + 1 /\ queue[1] = long[1]
        <5>1. Len(queue) = Depth /\ Len(long) = Depth + 1
          BY <1>0, <2>1, <2>4
        <5>2. DOMAIN long = 1 .. Depth + 1
          BY <2>1, <5>1
        <5>3. 1 \in 1 .. Len(queue)
          BY <1>0, <5>1
        <5>4. long[1] = queue[1]
          BY <1>0, <5>3, AppendProperties DEF long
        <5> QED BY <5>1, <5>2, <5>4
      <4> QED BY <2>3, <3>3, <4>1 DEF long
    <3>4. CASE v = 1 /\ i # 1
      <4> HIDE DEF v
      <4>1. i - 1 \in DOMAIN RemoveAt(long, v) /\ RemoveAt(long, v)[i - 1] = x
        BY <2>1, <2>3, <3>1, <3>4, RemoveAtProperties
      <4> QED BY <2>2, <2>4, <4>1 DEF v
    <3> QED BY <3>1, <3>2, <3>3, <3>4
  <2>5. CASE ~(Len(long) > Depth)
    BY <2>1, <2>2, <2>3, <2>5
  <2> QED BY <2>4, <2>5
<1> QED BY <1>1, <1>2

\* Every step keeps the control queue within its depth.
LEMMA QueueStep ==
  ASSUME TypeInv, UpInv, QueueInv, [Next]_vars
  PROVE  QueueInv'
<1> USE DEF QueueInv
<1>1. ASSUME NEW c \in Callers, Join(c) PROVE QueueInv'
  BY <1>1 DEF Join, Step, CallKeeps
<1>2. ASSUME NEW c \in Callers, Open(c) PROVE QueueInv'
  BY <1>2 DEF Open, Step, CallKeeps
<1>3. ASSUME NEW c \in Callers, Post(c) PROVE QueueInv'
  <2>1. CASE stop
    BY <1>3, <2>1 DEF Post, Step, CallKeeps
  <2>2. CASE ~stop
    <3>1. Probe(Preflight(call[c].group)) \in Sent
      BY <1>3 DEF Post, Step, CallKeeps, Sent, TypeInv, Holding, Owning
    <3> QED BY <1>3, <2>2, <3>1, PostedQueue DEF Post, Step, CallKeeps, PostControl
  <2> QED BY <2>1, <2>2
<1>4. ASSUME NEW c \in Callers, Woken(c) PROVE QueueInv'
  BY <1>4 DEF Woken, Step, CallKeeps
<1>5. ASSUME NEW c \in Callers, GivesUp(c) PROVE QueueInv'
  BY <1>5 DEF GivesUp, Step, CallKeeps
<1>6. ASSUME NEW c \in Callers, Clear(c) PROVE QueueInv'
  BY <1>6 DEF Clear, Step, CallKeeps
<1>7. ASSUME NEW c \in Callers, FailGroup(c) PROVE QueueInv'
  BY <1>7 DEF FailGroup, Step, CallKeeps
<1>8. ASSUME SendHeartbeat PROVE QueueInv'
  <2> DEFINE f == IF live.pending THEN Probe(Liveness(seqs.live)) ELSE Plain
  <2>1. f \in Sent
    BY DEF Sent, TypeInv
  <2> HIDE DEF f
  <2> QED BY <1>8, <2>1, PostedQueue DEF SendHeartbeat, Looping, LoopKeeps, PostControl, f
<1>9. ASSUME SendProbe PROVE QueueInv'
  <2>1. Probe(Liveness(seqs.live + 1)) \in Sent
    BY DEF Sent, TypeInv
  <2> QED BY <1>9, <2>1, PostedQueue DEF SendProbe, Looping, LoopKeeps, PostControl
<1>10. ASSUME End PROVE QueueInv'
  BY <1>10, EmptySeq, ControlAssumption DEF End, Looping
<1>11. ASSUME HandleFrame PROVE QueueInv'
  <2> DEFINE f == Head(up)
  <2>1. CASE f.type = "probe"
    <3>1. ProbeAck(f.nonce) \in Sent
      <4>1. f \in Answers
        BY <1>11 DEF HandleFrame, UpInv
      <4>2. PICK n \in Nat : f = Probe(<< "host", n >>)
        BY <2>1, <4>1 DEF Answers, Plain, ProbeAck
      <4>3. f.nonce = << "host", n >>
        BY <4>2 DEF Probe
      <4> QED BY <4>3 DEF Sent
    <3> QED BY <1>11, <2>1, <3>1, PostedQueue DEF HandleFrame, Looping, LoopKeeps, PostControl
  <2>2. CASE f.type # "probe"
    BY <1>11, <2>2 DEF HandleFrame, Looping, LoopKeeps
  <2> QED BY <2>1, <2>2
<1>12. ASSUME Succeed PROVE QueueInv'
  BY <1>12 DEF Succeed
<1>13. ASSUME WriterTop PROVE QueueInv'
  <2>1. queue' = queue \/ (queue # << >> /\ queue' = Tail(queue))
    BY <1>13 DEF WriterTop, WriterKeeps, WriteControl
  <2>2. CASE queue # << >> /\ queue' = Tail(queue)
    <3>1. queue' \in Seq(Sent) /\ Len(queue') = Len(queue) - 1 /\ Len(queue) \in Nat
      BY <2>2, HeadTailProperties
    <3> QED BY <3>1, ControlAssumption
  <2> QED BY <2>1, <2>2
<1>14. ASSUME Entry PROVE QueueInv'
  <2>1. queue' = queue \/ (queue # << >> /\ queue' = Tail(queue))
    BY <1>14 DEF Entry, Pass, Interleaves, WriterKeeps, WriteControl
  <2>2. CASE queue # << >> /\ queue' = Tail(queue)
    <3>1. queue' \in Seq(Sent) /\ Len(queue') = Len(queue) - 1 /\ Len(queue) \in Nat
      BY <2>2, HeadTailProperties
    <3> QED BY <3>1, ControlAssumption
  <2> QED BY <2>1, <2>2
<1>15. ASSUME Lead PROVE QueueInv'
  <2>1. queue' = queue \/ (queue # << >> /\ queue' = Tail(queue))
    BY <1>15 DEF Lead, Pass, Interleaves, WriterKeeps, WriteControl
  <2>2. CASE queue # << >> /\ queue' = Tail(queue)
    <3>1. queue' \in Seq(Sent) /\ Len(queue') = Len(queue) - 1 /\ Len(queue) \in Nat
      BY <2>2, HeadTailProperties
    <3> QED BY <3>1, ControlAssumption
  <2> QED BY <2>1, <2>2
<1>16. ASSUME WriteUnit PROVE QueueInv'
  BY <1>16 DEF WriteUnit, Writing, WriterKeeps
<1>17. ASSUME HostReceives PROVE QueueInv'
  BY <1>17 DEF HostReceives, HostKeeps
<1>18. ASSUME NEW k \in Kinds, AppendFrame(k) PROVE QueueInv'
  BY <1>18 DEF AppendFrame, WriterKeeps
<1>19. ASSUME NEW f \in {Probe(<< "host", hostProbes >>), Plain}, HostSends(f) PROVE QueueInv'
  BY <1>19 DEF HostSends, HostKeeps
<1>20. CASE UNCHANGED vars
  BY <1>20 DEF vars
<1> QED
  BY <1>1, <1>2, <1>3, <1>4, <1>5, <1>6, <1>7, <1>8, <1>9, <1>10, <1>11, <1>12, <1>13,
     <1>14, <1>15, <1>16, <1>17, <1>18, <1>19, <1>20 DEF Next, CallStep, LoopStep,
     WriterStep, Kinds

\* Every step keeps the writer inside the log.
LEMMA WriterInvStep ==
  ASSUME TypeInv, WriterInv, [Next]_vars
  PROVE  WriterInv'
<1> USE DEF WriterInv
<1>1. ASSUME NEW c \in Callers, Join(c) PROVE WriterInv'
  BY <1>1 DEF Join, Step, CallKeeps
<1>2. ASSUME NEW c \in Callers, Open(c) PROVE WriterInv'
  BY <1>2 DEF Open, Step, CallKeeps
<1>3. ASSUME NEW c \in Callers, Post(c) PROVE WriterInv'
  BY <1>3 DEF Post, Step, CallKeeps
<1>4. ASSUME NEW c \in Callers, Woken(c) PROVE WriterInv'
  BY <1>4 DEF Woken, Step, CallKeeps
<1>5. ASSUME NEW c \in Callers, GivesUp(c) PROVE WriterInv'
  BY <1>5 DEF GivesUp, Step, CallKeeps
<1>6. ASSUME NEW c \in Callers, Clear(c) PROVE WriterInv'
  BY <1>6 DEF Clear, Step, CallKeeps
<1>7. ASSUME NEW c \in Callers, FailGroup(c) PROVE WriterInv'
  BY <1>7 DEF FailGroup, Step, CallKeeps
<1>8. ASSUME SendHeartbeat PROVE WriterInv'
  BY <1>8 DEF SendHeartbeat, Looping, LoopKeeps
<1>9. ASSUME SendProbe PROVE WriterInv'
  BY <1>9 DEF SendProbe, Looping, LoopKeeps
<1>10. ASSUME End PROVE WriterInv'
  BY <1>10 DEF End, Looping
<1>11. ASSUME HandleFrame PROVE WriterInv'
  BY <1>11 DEF HandleFrame, Looping, LoopKeeps
<1>12. ASSUME Succeed PROVE WriterInv'
  BY <1>12 DEF Succeed
<1>13. ASSUME WriterTop PROVE WriterInv'
  <2>1. log' = log /\ (writer' = writer \/ (writer' = [writer EXCEPT !.pc = "entry"] /\ writer.frame <= Len(log)))
    BY <1>13 DEF WriterTop, WriterKeeps, WriteControl
  <2> QED BY <2>1 DEF TypeInv
<1>14. ASSUME Entry PROVE WriterInv'
  <2>1. log' = log /\ writer' = [writer EXCEPT !.pc = writer'.pc] /\ writer.pc # "top"
    BY <1>14 DEF Entry, Pass, Interleaves, WriterKeeps, WriteControl, TypeInv
  <2> QED BY <2>1 DEF TypeInv
<1>15. ASSUME Lead PROVE WriterInv'
  <2>1. log' = log /\ writer' = [writer EXCEPT !.pc = writer'.pc] /\ writer.pc # "top"
    BY <1>15 DEF Lead, Pass, Interleaves, WriterKeeps, WriteControl, TypeInv
  <2> QED BY <2>1 DEF TypeInv
<1>16. ASSUME WriteUnit PROVE WriterInv'
  <2>1. log' = log /\ writer.frame \in 1 .. Len(log) /\ Len(log) \in Nat /\ Units \in Nat /\ Units > 1
    BY <1>16, ControlAssumption DEF WriteUnit, Writing, WriterKeeps
  <2>2. CASE log[writer.frame] = "large" /\ writer.unit < Units
    <3>1. writer' = [writer EXCEPT !.pc = "lead", !.unit = writer.unit + 1]
      BY <1>16, <2>2 DEF WriteUnit
    <3> QED BY <2>1, <2>2, <3>1 DEF TypeInv
  <2>3. CASE ~(log[writer.frame] = "large" /\ writer.unit < Units)
    <3>1. writer' = NextFrame(writer.frame)
      BY <1>16, <2>3 DEF WriteUnit
    <3>2. writer'.frame = writer.frame + 1 /\ writer'.unit = 1 /\ (writer'.pc # "top" => writer.frame < Len(log))
      BY <3>1 DEF NextFrame
    <3> QED BY <2>1, <3>2
  <2> QED BY <2>2, <2>3
<1>17. ASSUME HostReceives PROVE WriterInv'
  BY <1>17 DEF HostReceives, HostKeeps
<1>18. ASSUME NEW k \in Kinds, AppendFrame(k) PROVE WriterInv'
  <2>1. log' = Append(log, k) /\ writer' = writer
    BY <1>18 DEF AppendFrame, WriterKeeps
  <2>2. log' \in Seq(Kinds) /\ Len(log') = Len(log) + 1 /\ Len(log) \in Nat
        /\ \A i \in 1 .. Len(log) : log'[i] = log[i]
    BY <2>1, AppendProperties
  <2> QED BY <2>1, <2>2
<1>19. ASSUME NEW f \in {Probe(<< "host", hostProbes >>), Plain}, HostSends(f) PROVE WriterInv'
  BY <1>19 DEF HostSends, HostKeeps
<1>20. CASE UNCHANGED vars
  BY <1>20 DEF vars
<1> QED
  BY <1>1, <1>2, <1>3, <1>4, <1>5, <1>6, <1>7, <1>8, <1>9, <1>10, <1>11, <1>12, <1>13,
     <1>14, <1>15, <1>16, <1>17, <1>18, <1>19, <1>20 DEF Next, CallStep, LoopStep,
     WriterStep, Kinds

\* Every step keeps the units on the link.
LEMMA LinkStep ==
  ASSUME TypeInv, QueueInv, WriterInv, LinkInv, [Next]_vars
  PROVE  LinkInv'
<1> USE DEF LinkInv
<1>1. ASSUME NEW c \in Callers, Join(c) PROVE LinkInv'
  BY <1>1 DEF Join, Step, CallKeeps
<1>2. ASSUME NEW c \in Callers, Open(c) PROVE LinkInv'
  BY <1>2 DEF Open, Step, CallKeeps
<1>3. ASSUME NEW c \in Callers, Post(c) PROVE LinkInv'
  BY <1>3 DEF Post, Step, CallKeeps
<1>4. ASSUME NEW c \in Callers, Woken(c) PROVE LinkInv'
  BY <1>4 DEF Woken, Step, CallKeeps
<1>5. ASSUME NEW c \in Callers, GivesUp(c) PROVE LinkInv'
  BY <1>5 DEF GivesUp, Step, CallKeeps
<1>6. ASSUME NEW c \in Callers, Clear(c) PROVE LinkInv'
  BY <1>6 DEF Clear, Step, CallKeeps
<1>7. ASSUME NEW c \in Callers, FailGroup(c) PROVE LinkInv'
  BY <1>7 DEF FailGroup, Step, CallKeeps
<1>8. ASSUME SendHeartbeat PROVE LinkInv'
  BY <1>8 DEF SendHeartbeat, Looping, LoopKeeps
<1>9. ASSUME SendProbe PROVE LinkInv'
  BY <1>9 DEF SendProbe, Looping, LoopKeeps
<1>10. ASSUME End PROVE LinkInv'
  BY <1>10 DEF End, Looping
<1>11. ASSUME HandleFrame PROVE LinkInv'
  BY <1>11 DEF HandleFrame, Looping, LoopKeeps
<1>12. ASSUME Succeed PROVE LinkInv'
  BY <1>12 DEF Succeed
<1>13. ASSUME WriterTop PROVE LinkInv'
  <2>1. link' = link \/ (queue # << >> /\ link' = Append(link, Whole(TransportId(seqs.tr + 1), Head(queue))))
    BY <1>13 DEF WriterTop, WriterKeeps, WriteControl
  <2>2. CASE queue # << >> /\ link' = Append(link, Whole(TransportId(seqs.tr + 1), Head(queue)))
    <3>1. Head(queue) \in Sent
      BY <2>2 DEF QueueInv
    <3>2. Whole(TransportId(seqs.tr + 1), Head(queue)) \in ControlUnits
      <4>1. seqs.tr + 1 \in Nat
        BY DEF TypeInv
      <4> QED BY <3>1, <4>1 DEF ControlUnits, TransportId
    <3> QED BY <2>2, <3>2, AppendProperties
  <2> QED BY <2>1, <2>2
<1>14. ASSUME Entry PROVE LinkInv'
  <2>1. link' = link \/ (queue # << >> /\ link' = Append(link, Whole(TransportId(seqs.tr + 1), Head(queue))))
    BY <1>14 DEF Entry, Pass, Interleaves, WriterKeeps, WriteControl
  <2>2. CASE queue # << >> /\ link' = Append(link, Whole(TransportId(seqs.tr + 1), Head(queue)))
    <3>1. Head(queue) \in Sent
      BY <2>2 DEF QueueInv
    <3>2. Whole(TransportId(seqs.tr + 1), Head(queue)) \in ControlUnits
      <4>1. seqs.tr + 1 \in Nat
        BY DEF TypeInv
      <4> QED BY <3>1, <4>1 DEF ControlUnits, TransportId
    <3> QED BY <2>2, <3>2, AppendProperties
  <2> QED BY <2>1, <2>2
<1>15. ASSUME Lead PROVE LinkInv'
  <2>1. link' = link \/ (queue # << >> /\ link' = Append(link, Whole(TransportId(seqs.tr + 1), Head(queue))))
    BY <1>15 DEF Lead, Pass, Interleaves, WriterKeeps, WriteControl
  <2>2. CASE queue # << >> /\ link' = Append(link, Whole(TransportId(seqs.tr + 1), Head(queue)))
    <3>1. Head(queue) \in Sent
      BY <2>2 DEF QueueInv
    <3>2. Whole(TransportId(seqs.tr + 1), Head(queue)) \in ControlUnits
      <4>1. seqs.tr + 1 \in Nat
        BY DEF TypeInv
      <4> QED BY <3>1, <4>1 DEF ControlUnits, TransportId
    <3> QED BY <2>2, <3>2, AppendProperties
  <2> QED BY <2>1, <2>2
<1>16. ASSUME WriteUnit PROVE LinkInv'
  <2> DEFINE n == writer.frame
             kind == log[n]
             new == IF kind # "small" /\ writer.unit = 1 THEN seqs.wr + 1 ELSE seqs.wr
             u == CASE kind = "small"      -> Whole(TransportId(seqs.tr + 1), Reliable(n))
                    [] kind = "compressed" -> Whole(<< "w", new >>, Reliable(n))
                    [] OTHER               -> Fragment(<< "w", new >>, writer.unit, Reliable(n))
  <2>1. link' = Append(link, u)
    BY <1>16 DEF WriteUnit
  <2>2. new \in Nat /\ seqs.tr + 1 \in Nat /\ n \in Nat /\ writer.unit \in 1 .. Units
    BY DEF TypeInv, WriterInv
  <2> HIDE DEF new, n
  <2>3. CASE kind = "small"
    <3>1. u = Whole(<< "t", seqs.tr + 1 >>, Reliable(n))
      BY <2>3 DEF TransportId
    <3> HIDE DEF u, kind
    <3>2. u \in ReliableUnits
      BY <2>2, <3>1 DEF ReliableUnits
    <3> QED BY <2>1, <3>2, AppendProperties
  <2>4. CASE kind = "compressed"
    <3>1. u = Whole(<< "w", new >>, Reliable(n))
      BY <2>4
    <3> HIDE DEF u, kind
    <3>2. u \in ReliableUnits
      BY <2>2, <3>1 DEF ReliableUnits
    <3> QED BY <2>1, <3>2, AppendProperties
  <2>5. CASE kind \notin {"small", "compressed"}
    <3>1. u = Fragment(<< "w", new >>, writer.unit, Reliable(n))
      BY <2>5
    <3> HIDE DEF u, kind
    <3>2. u \in ReliableUnits
      BY <2>2, <3>1 DEF ReliableUnits
    <3> QED BY <2>1, <3>2, AppendProperties
  <2> QED BY <2>3, <2>4, <2>5
<1>17. ASSUME HostReceives PROVE LinkInv'
  BY <1>17 DEF HostReceives, HostKeeps
<1>18. ASSUME NEW k \in Kinds, AppendFrame(k) PROVE LinkInv'
  BY <1>18 DEF AppendFrame, WriterKeeps
<1>19. ASSUME NEW f \in {Probe(<< "host", hostProbes >>), Plain}, HostSends(f) PROVE LinkInv'
  BY <1>19 DEF HostSends, HostKeeps
<1>20. CASE UNCHANGED vars
  BY <1>20 DEF vars
<1> QED
  BY <1>1, <1>2, <1>3, <1>4, <1>5, <1>6, <1>7, <1>8, <1>9, <1>10, <1>11, <1>12, <1>13,
     <1>14, <1>15, <1>16, <1>17, <1>18, <1>19, <1>20 DEF Next, CallStep, LoopStep,
     WriterStep, Kinds

\* A control frame never disturbs the reassembly it is written into.
LEMMA ControlReceived ==
  ASSUME HostInv, NEW u \in ControlUnits
  PROVE  /\ ~UnitError(host.re, u) /\ UnitCompletes(u) /\ Reassembled(host.re, u) = host.re
         /\ u.body \in Sent
<1>1. PICK n \in Nat, f \in Sent : u = Whole(<< "t", n >>, f)
  BY DEF ControlUnits
<1>2. u.frag = FALSE /\ u.id = << "t", n >> /\ u.body = f
  BY <1>1 DEF Whole
<1>3. u.id # host.re.id
  BY <1>2 DEF HostInv
<1> QED BY <1>2, <1>3 DEF UnitError, UnitCompletes, Reassembled

\* The frames of the two directions by their types.
LEMMA FrameTypes ==
  /\ \A f \in Sent : f.type \in {"hb", "probe", "probeAck"}
  /\ \A f \in Sent : f.type = "probe" => ProbeAck(f.nonce) \in Answers
  /\ \A u \in ReliableUnits : u.body.type = "reliable" /\ u.off \in Nat \ {0} /\ u.frag \in BOOLEAN
  /\ \A u \in ReliableUnits : u.frag => \E m \in Nat : u.id = << "w", m >>
<1>1. \A f \in Sent : f.type \in {"hb", "probe", "probeAck"}
  BY DEF Sent, Plain, Probe, ProbeAck
<1>2. ASSUME NEW f \in Sent, f.type = "probe" PROVE ProbeAck(f.nonce) \in Answers
  <2>1. \/ \E g \in Groups : f = Probe(Preflight(g))
        \/ \E n \in Nat : f = Probe(Liveness(n))
    BY <1>2 DEF Sent, Plain, ProbeAck
  <2>2. \/ \E g \in Groups : f.nonce = Preflight(g)
        \/ \E n \in Nat : f.nonce = Liveness(n)
    BY <2>1 DEF Probe
  <2> QED BY <2>2 DEF Answers
<1>3. ASSUME NEW u \in ReliableUnits
      PROVE  /\ u.body.type = "reliable" /\ u.off \in Nat \ {0} /\ u.frag \in BOOLEAN
             /\ u.frag => \E m \in Nat : u.id = << "w", m >>
  <2>1. CASE \E x \in {"t", "w"}, n \in Nat, k \in Nat : u = Whole(<< x, n >>, Reliable(k))
    BY <2>1 DEF Whole, Reliable
  <2>2. CASE \E n \in Nat, off \in 1 .. Units, k \in Nat : u = Fragment(<< "w", n >>, off, Reliable(k))
    BY <2>2, ControlAssumption DEF Fragment, Reliable
  <2> QED BY <2>1, <2>2 DEF ReliableUnits
<1> QED BY <1>1, <1>2, <1>3

\* Every step keeps what the host sends.
LEMMA UpStep ==
  ASSUME TypeInv, LinkInv, HostInv, UpInv, [Next]_vars
  PROVE  UpInv'
<1> USE DEF UpInv
<1>1. ASSUME NEW c \in Callers, Join(c) PROVE UpInv'
  BY <1>1 DEF Join, Step, CallKeeps
<1>2. ASSUME NEW c \in Callers, Open(c) PROVE UpInv'
  BY <1>2 DEF Open, Step, CallKeeps
<1>3. ASSUME NEW c \in Callers, Post(c) PROVE UpInv'
  BY <1>3 DEF Post, Step, CallKeeps
<1>4. ASSUME NEW c \in Callers, Woken(c) PROVE UpInv'
  BY <1>4 DEF Woken, Step, CallKeeps
<1>5. ASSUME NEW c \in Callers, GivesUp(c) PROVE UpInv'
  BY <1>5 DEF GivesUp, Step, CallKeeps
<1>6. ASSUME NEW c \in Callers, Clear(c) PROVE UpInv'
  BY <1>6 DEF Clear, Step, CallKeeps
<1>7. ASSUME NEW c \in Callers, FailGroup(c) PROVE UpInv'
  BY <1>7 DEF FailGroup, Step, CallKeeps
<1>8. ASSUME SendHeartbeat PROVE UpInv'
  BY <1>8 DEF SendHeartbeat, Looping, LoopKeeps
<1>9. ASSUME SendProbe PROVE UpInv'
  BY <1>9 DEF SendProbe, Looping, LoopKeeps
<1>10. ASSUME End PROVE UpInv'
  BY <1>10 DEF End, Looping
<1>11. ASSUME HandleFrame PROVE UpInv'
  BY <1>11, HeadTailProperties DEF HandleFrame, Looping, LoopKeeps
<1>12. ASSUME Succeed PROVE UpInv'
  BY <1>12 DEF Succeed
<1>13. ASSUME WriterTop PROVE UpInv'
  BY <1>13 DEF WriterTop, WriterKeeps, WriteControl
<1>14. ASSUME Entry PROVE UpInv'
  BY <1>14 DEF Entry, Pass, Interleaves, WriterKeeps, WriteControl
<1>15. ASSUME Lead PROVE UpInv'
  BY <1>15 DEF Lead, Pass, Interleaves, WriterKeeps, WriteControl
<1>16. ASSUME WriteUnit PROVE UpInv'
  BY <1>16 DEF WriteUnit, Writing, WriterKeeps
<1>17. ASSUME HostReceives PROVE UpInv'
  <2> DEFINE u == Head(link)
  <2>1. u \in ControlUnits \cup ReliableUnits /\ link # << >>
    BY <1>17 DEF HostReceives, LinkInv
  <2>2. CASE u.body.type = "probe" /\ u \in ControlUnits
    <3>1. ProbeAck(u.body.nonce) \in Answers
      BY <2>2, ControlReceived, FrameTypes
    <3>2. up' = up \/ up' = Append(up, ProbeAck(u.body.nonce))
      BY <1>17 DEF HostReceives
    <3> QED BY <3>1, <3>2, AppendProperties
  <2>3. CASE u.body.type # "probe"
    BY <1>17, <2>3 DEF HostReceives
  <2>4. u \in ReliableUnits => u.body.type # "probe"
    BY FrameTypes
  <2> QED BY <2>1, <2>2, <2>3, <2>4
<1>18. ASSUME NEW k \in Kinds, AppendFrame(k) PROVE UpInv'
  BY <1>18 DEF AppendFrame, WriterKeeps
<1>19. ASSUME NEW f \in {Probe(<< "host", hostProbes >>), Plain}, HostSends(f) PROVE UpInv'
  <2>1. f \in Answers
    BY DEF Answers, TypeInv
  <2> QED BY <1>19, <2>1, AppendProperties DEF HostSends, HostKeeps
<1>20. CASE UNCHANGED vars
  BY <1>20 DEF vars
<1> QED
  BY <1>1, <1>2, <1>3, <1>4, <1>5, <1>6, <1>7, <1>8, <1>9, <1>10, <1>11, <1>12, <1>13,
     <1>14, <1>15, <1>16, <1>17, <1>18, <1>19, <1>20 DEF Next, CallStep, LoopStep,
     WriterStep, Kinds

\* Every step keeps the reassembler's state.
LEMMA HostStep ==
  ASSUME TypeInv, LinkInv, HostInv, [Next]_vars
  PROVE  HostInv'
<1> USE DEF HostInv
<1>1. ASSUME NEW c \in Callers, Join(c) PROVE HostInv'
  BY <1>1 DEF Join, Step, CallKeeps
<1>2. ASSUME NEW c \in Callers, Open(c) PROVE HostInv'
  BY <1>2 DEF Open, Step, CallKeeps
<1>3. ASSUME NEW c \in Callers, Post(c) PROVE HostInv'
  BY <1>3 DEF Post, Step, CallKeeps
<1>4. ASSUME NEW c \in Callers, Woken(c) PROVE HostInv'
  BY <1>4 DEF Woken, Step, CallKeeps
<1>5. ASSUME NEW c \in Callers, GivesUp(c) PROVE HostInv'
  BY <1>5 DEF GivesUp, Step, CallKeeps
<1>6. ASSUME NEW c \in Callers, Clear(c) PROVE HostInv'
  BY <1>6 DEF Clear, Step, CallKeeps
<1>7. ASSUME NEW c \in Callers, FailGroup(c) PROVE HostInv'
  BY <1>7 DEF FailGroup, Step, CallKeeps
<1>8. ASSUME SendHeartbeat PROVE HostInv'
  BY <1>8 DEF SendHeartbeat, Looping, LoopKeeps
<1>9. ASSUME SendProbe PROVE HostInv'
  BY <1>9 DEF SendProbe, Looping, LoopKeeps
<1>10. ASSUME End PROVE HostInv'
  BY <1>10 DEF End, Looping
<1>11. ASSUME HandleFrame PROVE HostInv'
  BY <1>11 DEF HandleFrame, Looping, LoopKeeps
<1>12. ASSUME Succeed PROVE HostInv'
  BY <1>12 DEF Succeed
<1>13. ASSUME WriterTop PROVE HostInv'
  BY <1>13 DEF WriterTop, WriterKeeps, WriteControl
<1>14. ASSUME Entry PROVE HostInv'
  BY <1>14 DEF Entry, Pass, Interleaves, WriterKeeps, WriteControl
<1>15. ASSUME Lead PROVE HostInv'
  BY <1>15 DEF Lead, Pass, Interleaves, WriterKeeps, WriteControl
<1>16. ASSUME WriteUnit PROVE HostInv'
  BY <1>16 DEF WriteUnit, Writing, WriterKeeps
<1>17. ASSUME HostReceives PROVE HostInv'
  <2> DEFINE u == Head(link)
  <2>1. u \in ControlUnits \cup ReliableUnits /\ link # << >>
    BY <1>17 DEF HostReceives, LinkInv
  <2>2. CASE UnitError(host.re, u)
    <3>1. host' = [host EXCEPT !.broken = TRUE]
      BY <1>17, <2>2 DEF HostReceives
    <3> QED BY <3>1
  <2>3. CASE ~UnitError(host.re, u)
    <3>1. PICK g : host' = [host EXCEPT !.re = Reassembled(host.re, u), !.got = g]
      BY <1>17, <2>3 DEF HostReceives
    <3>2. host'.re = Reassembled(host.re, u) /\ DOMAIN host' = DOMAIN host
      BY <3>1
    <3>3. CASE u \in ControlUnits
      BY <3>2, <3>3, ControlReceived DEF HostInv
    <3>4. CASE u \in ReliableUnits
      <4>1. u.off \in Nat \ {0} /\ u.frag \in BOOLEAN /\ (u.frag => \E m \in Nat : u.id = << "w", m >>)
        BY <3>4, FrameTypes
      <4>2. \/ host'.re = host.re \/ host'.re = NoReassembly
            \/ u.frag /\ host'.re = [open |-> TRUE, id |-> u.id, off |-> u.off]
        BY <3>2, <4>1 DEF Reassembled
      <4>3. CASE host'.re = NoReassembly
        <5>1. DOMAIN host'.re = {"open", "id", "off"} /\ host'.re.open = FALSE /\ host'.re.off = 0
              /\ host'.re.id = << "w", 0 >>
          BY <4>3 DEF NoReassembly
        <5>2. \E m \in Nat : host'.re.id = << "w", m >>
          BY <5>1
        <5>3. host'.re.off \in Nat /\ (host'.re.open => host'.re.off > 0)
          BY <5>1
        <5> QED BY <3>2, <5>1, <5>2, <5>3
      <4>4. CASE u.frag /\ host'.re = [open |-> TRUE, id |-> u.id, off |-> u.off]
        <5>1. DOMAIN host'.re = {"open", "id", "off"} /\ host'.re.open = TRUE /\ host'.re.off = u.off
              /\ host'.re.id = u.id
          BY <4>4
        <5>2. \E m \in Nat : host'.re.id = << "w", m >>
          BY <4>1, <4>4, <5>1
        <5>3. host'.re.off \in Nat /\ (host'.re.open => host'.re.off > 0)
          BY <4>1, <5>1
        <5> QED BY <3>2, <5>1, <5>2, <5>3
      <4> QED BY <3>2, <4>2, <4>3, <4>4
    <3> QED BY <2>1, <3>3, <3>4
  <2> QED BY <2>2, <2>3
<1>18. ASSUME NEW k \in Kinds, AppendFrame(k) PROVE HostInv'
  BY <1>18 DEF AppendFrame, WriterKeeps
<1>19. ASSUME NEW f \in {Probe(<< "host", hostProbes >>), Plain}, HostSends(f) PROVE HostInv'
  BY <1>19 DEF HostSends, HostKeeps
<1>20. CASE UNCHANGED vars
  BY <1>20 DEF vars
<1> QED
  BY <1>1, <1>2, <1>3, <1>4, <1>5, <1>6, <1>7, <1>8, <1>9, <1>10, <1>11, <1>12, <1>13,
     <1>14, <1>15, <1>16, <1>17, <1>18, <1>19, <1>20 DEF Next, CallStep, LoopStep,
     WriterStep, Kinds

\* Every step keeps an owner, a verdict or a completion for the groups waited on.
LEMMA GroupStep ==
  ASSUME TypeInv, GroupInv, [Next]_vars
  PROVE  GroupInv'
<1> USE DEF GroupInv
<1>1. ASSUME NEW c \in Callers, Join(c) PROVE GroupInv'
  <2>1. UNCHANGED << group, live >> /\ \A o \in Callers : o # c => call'[o] = call[o]
    BY <1>1 DEF Join, Step, CallKeeps, TypeInv
  <2>2. slot' = slot /\ slot # None /\ slot \in Groups /\ call'[c].pc = "wait" /\ call'[c].group = slot /\ call[c].pc = "idle"
    BY <1>1 DEF Join, Step, CallKeeps, TypeInv
  <2> QED BY <2>1, <2>2 DEF Holding, Owning
<1>2. ASSUME NEW c \in Callers, Open(c) PROVE GroupInv'
  <2>1. UNCHANGED << group, live >> /\ \A o \in Callers : o # c => call'[o] = call[o]
    BY <1>2 DEF Open, Step, CallKeeps, TypeInv
  <2>2. slot' = call'[c].group /\ call'[c].pc = "post" /\ call[c].pc = "idle"
    BY <1>2 DEF Open, Step, CallKeeps, TypeInv
  <2> QED BY <2>1, <2>2 DEF Holding, Owning
<1>3. ASSUME NEW c \in Callers, Post(c) PROVE GroupInv'
  <2>1. UNCHANGED << group, live >> /\ \A o \in Callers : o # c => call'[o] = call[o]
    BY <1>3 DEF Post, Step, CallKeeps, TypeInv
  <2>2. slot' = slot /\ call'[c].group = call[c].group /\ call'[c].pc = "own" /\ call[c].pc = "post"
    BY <1>3 DEF Post, Step, CallKeeps, TypeInv
  <2> QED BY <2>1, <2>2 DEF Holding, Owning
<1>4. ASSUME NEW c \in Callers, Woken(c) PROVE GroupInv'
  <2>1. UNCHANGED << group, live >> /\ \A o \in Callers : o # c => call'[o] = call[o]
    BY <1>4 DEF Woken, Step, CallKeeps, TypeInv
  <2>2. CASE call[c].pc = "own"
    <3>1. slot' = slot /\ call'[c].group = call[c].group /\ call'[c].pc \in {"clear", "clearOk"}
      BY <1>4, <2>2 DEF Woken, Step, CallKeeps, TypeInv
    <3> QED BY <2>1, <2>2, <3>1 DEF Holding, Owning
  <2>3. CASE call[c].pc # "own"
    <3>1. slot' = slot /\ call[c].pc = "wait" /\ call'[c].pc \in {"ok", "failed"}
      BY <1>4, <2>3 DEF Woken, Step, CallKeeps, TypeInv
    <3> QED BY <2>1, <3>1 DEF Holding, Owning
  <2> QED BY <2>2, <2>3
<1>5. ASSUME NEW c \in Callers, GivesUp(c) PROVE GroupInv'
  <2>1. UNCHANGED << group, live >> /\ \A o \in Callers : o # c => call'[o] = call[o]
    BY <1>5 DEF GivesUp, Step, CallKeeps, TypeInv
  <2>2. CASE call[c].pc = "own"
    <3>1. slot' = slot /\ call'[c].group = call[c].group /\ call'[c].pc \in {"clear", "clearOk"}
      BY <1>5, <2>2 DEF GivesUp, Step, CallKeeps, TypeInv
    <3> QED BY <2>1, <2>2, <3>1 DEF Holding, Owning
  <2>3. CASE call[c].pc # "own"
    <3>1. slot' = slot /\ call[c].pc = "wait" /\ call'[c].pc \in {"ok", "failed"}
      BY <1>5, <2>3 DEF GivesUp, Step, CallKeeps, TypeInv
    <3> QED BY <2>1, <3>1 DEF Holding, Owning
  <2> QED BY <2>2, <2>3
<1>6. ASSUME NEW c \in Callers, Clear(c) PROVE GroupInv'
  <2>1. UNCHANGED << group, live >> /\ \A o \in Callers : o # c => call'[o] = call[o]
    BY <1>6 DEF Clear, Step, CallKeeps, TypeInv
  <2>2. slot' = (IF slot = call[c].group THEN None ELSE slot) /\ call'[c].group = call[c].group
        /\ call'[c].pc \in {"fail", "failOk"} /\ call[c].pc \in {"clear", "clearOk"}
    BY <1>6 DEF Clear, Step, CallKeeps, TypeInv
  <2>3. slot' # None => slot' = slot /\ slot # call[c].group
    BY <2>2
  <2> QED BY <2>1, <2>2, <2>3 DEF Holding, Owning
<1>7. ASSUME NEW c \in Callers, FailGroup(c) PROVE GroupInv'
  <2> DEFINE g == call[c].group
  <2>1. UNCHANGED << slot, live >> /\ \A o \in Callers : o # c => call'[o] = call[o]
    BY <1>7 DEF FailGroup, Step, CallKeeps, TypeInv
  <2>2. call'[c].pc \in {"ok", "failed"} /\ call[c].pc \in {"fail", "failOk"} /\ g \in Groups
    BY <1>7 DEF FailGroup, Step, CallKeeps, TypeInv, Owning
  <2>3. group'[g].closed /\ \A h \in Groups : group[h].closed => group'[h].closed
    <3>1. group' = [group EXCEPT ![g].closed = TRUE]
      BY <1>7 DEF FailGroup, Closes
    <3> QED BY <2>2, <3>1 DEF TypeInv
  <2> QED BY <2>1, <2>2, <2>3 DEF Holding, Owning
<1>8. ASSUME SendHeartbeat PROVE GroupInv'
  <2>1. UNCHANGED << call, slot, group, live >> \/ (UNCHANGED << call, slot, group >> /\ live'.done = live.done)
    BY <1>8 DEF SendHeartbeat, Looping, LoopKeeps, TypeInv
  <2> QED BY <2>1
<1>9. ASSUME SendProbe PROVE GroupInv'
  <2>1. UNCHANGED << call, slot, group, live >> \/ (UNCHANGED << call, slot, group >> /\ live'.done = live.done)
    BY <1>9 DEF SendProbe, Looping, LoopKeeps, TypeInv
  <2> QED BY <2>1
<1>10. ASSUME End PROVE GroupInv'
  <2>1. UNCHANGED << call, slot, group, live >> \/ (UNCHANGED << call, slot, group >> /\ live'.done = live.done)
    BY <1>10 DEF End, Looping, TypeInv
  <2> QED BY <2>1
<1>11. ASSUME HandleFrame PROVE GroupInv'
  <2>1. call' = call /\ group' = group /\ live.done = None
    BY <1>11 DEF HandleFrame, Looping, LoopKeeps
  <2>2. (slot' = slot /\ live'.done = None) \/ (slot' = None /\ live'.done = slot)
    BY <1>11 DEF HandleFrame
  <2>3. \A c \in Callers : call[c].pc = "wait" => call[c].group # None
    BY DEF Groups, None
  <2> QED BY <2>1, <2>2, <2>3
<1>12. ASSUME Succeed PROVE GroupInv'
  <2>1. UNCHANGED << call, slot >> /\ \A g \in Groups : group[g].closed => group'[g].closed
    BY <1>12 DEF Succeed, TypeInv
  <2>2. live.done \in Groups /\ group'[live.done].closed
    BY <1>12 DEF Succeed, TypeInv
  <2> QED BY <2>1, <2>2
<1>13. ASSUME WriterTop PROVE GroupInv'
  <2>1. UNCHANGED << call, slot, group, live >> \/ (UNCHANGED << call, slot, group >> /\ live'.done = live.done)
    BY <1>13 DEF WriterTop, WriterKeeps, WriteControl, TypeInv
  <2> QED BY <2>1
<1>14. ASSUME Entry PROVE GroupInv'
  <2>1. UNCHANGED << call, slot, group, live >> \/ (UNCHANGED << call, slot, group >> /\ live'.done = live.done)
    BY <1>14 DEF Entry, Pass, Interleaves, WriterKeeps, WriteControl, TypeInv
  <2> QED BY <2>1
<1>15. ASSUME Lead PROVE GroupInv'
  <2>1. UNCHANGED << call, slot, group, live >> \/ (UNCHANGED << call, slot, group >> /\ live'.done = live.done)
    BY <1>15 DEF Lead, Pass, Interleaves, WriterKeeps, WriteControl, TypeInv
  <2> QED BY <2>1
<1>16. ASSUME WriteUnit PROVE GroupInv'
  <2>1. UNCHANGED << call, slot, group, live >> \/ (UNCHANGED << call, slot, group >> /\ live'.done = live.done)
    BY <1>16 DEF WriteUnit, Writing, WriterKeeps, TypeInv
  <2> QED BY <2>1
<1>17. ASSUME HostReceives PROVE GroupInv'
  <2>1. UNCHANGED << call, slot, group, live >> \/ (UNCHANGED << call, slot, group >> /\ live'.done = live.done)
    BY <1>17 DEF HostReceives, HostKeeps, TypeInv
  <2> QED BY <2>1
<1>18. ASSUME NEW k \in Kinds, AppendFrame(k) PROVE GroupInv'
  <2>1. UNCHANGED << call, slot, group, live >> \/ (UNCHANGED << call, slot, group >> /\ live'.done = live.done)
    BY <1>18 DEF AppendFrame, WriterKeeps, TypeInv
  <2> QED BY <2>1
<1>19. ASSUME NEW f \in {Probe(<< "host", hostProbes >>), Plain}, HostSends(f) PROVE GroupInv'
  <2>1. UNCHANGED << call, slot, group, live >> \/ (UNCHANGED << call, slot, group >> /\ live'.done = live.done)
    BY <1>19 DEF HostSends, HostKeeps, TypeInv
  <2> QED BY <2>1
<1>20. CASE UNCHANGED vars
  BY <1>20 DEF vars
<1> QED
  BY <1>1, <1>2, <1>3, <1>4, <1>5, <1>6, <1>7, <1>8, <1>9, <1>10, <1>11, <1>12, <1>13,
     <1>14, <1>15, <1>16, <1>17, <1>18, <1>19, <1>20 DEF Next, CallStep, LoopStep,
     WriterStep, Kinds

\* No post empties the queue.
LEMMA PostGrows ==
  ASSUME TypeInv, UpInv, QueueInv, NEW f \in Sent, PostControl(f)
  PROVE  queue' # << >>
<1>1. queue' \in Seq(Sent) /\ Len(queue') \in 1 .. Depth
  BY PostedQueue DEF PostControl
<1>2. Len(queue') # 0
  BY <1>1
<1> QED BY <1>2, EmptySeq

\* The control frames that the hub posts.
LEMMA PostedFrames ==
  ASSUME TypeInv, UpInv
  PROVE  /\ \A g \in Groups : Probe(Preflight(g)) \in Sent
         /\ Plain \in Sent /\ Probe(Liveness(seqs.live)) \in Sent /\ Probe(Liveness(seqs.live + 1)) \in Sent
         /\ up # << >> /\ Head(up).type = "probe" => ProbeAck(Head(up).nonce) \in Sent
<1>1. ASSUME up # << >>, Head(up).type = "probe" PROVE ProbeAck(Head(up).nonce) \in Sent
  <2>1. Head(up) \in Answers
    BY <1>1 DEF UpInv
  <2>2. PICK n \in Nat : Head(up) = Probe(<< "host", n >>)
    BY <1>1, <2>1 DEF Answers, Plain, ProbeAck
  <2>3. Head(up).nonce = << "host", n >>
    BY <2>2 DEF Probe
  <2> QED BY <2>3 DEF Sent
<1>2. seqs.live \in Nat /\ seqs.live + 1 \in Nat
  BY DEF TypeInv
<1> QED BY <1>1, <1>2 DEF Sent

\* Every step lets at most one unit pass a waiting control frame.
LEMMA StreakStep ==
  ASSUME TypeInv, UpInv, QueueInv, StreakInv, [Next]_vars
  PROVE  StreakInv'
<1> USE DEF StreakInv
<1>1. ASSUME NEW c \in Callers, Join(c) PROVE StreakInv'
  <2>1. UNCHANGED << streak, stop, writer, queue >>
    BY <1>1 DEF Join, Step, CallKeeps
  <2> QED BY <2>1
<1>2. ASSUME NEW c \in Callers, Open(c) PROVE StreakInv'
  <2>1. UNCHANGED << streak, stop, writer, queue >>
    BY <1>2 DEF Open, Step, CallKeeps
  <2> QED BY <2>1
<1>3. ASSUME NEW c \in Callers, Post(c) PROVE StreakInv'
  <2>1. UNCHANGED << streak, stop, writer >>
    BY <1>3 DEF Post, Step, CallKeeps
  <2>2. queue' = queue \/ queue' # << >>
    BY <1>3, PostGrows, PostedFrames DEF Post, TypeInv, Holding, Owning
  <2> QED BY <2>1, <2>2
<1>4. ASSUME NEW c \in Callers, Woken(c) PROVE StreakInv'
  <2>1. UNCHANGED << streak, stop, writer, queue >>
    BY <1>4 DEF Woken, Step, CallKeeps
  <2> QED BY <2>1
<1>5. ASSUME NEW c \in Callers, GivesUp(c) PROVE StreakInv'
  <2>1. UNCHANGED << streak, stop, writer, queue >>
    BY <1>5 DEF GivesUp, Step, CallKeeps
  <2> QED BY <2>1
<1>6. ASSUME NEW c \in Callers, Clear(c) PROVE StreakInv'
  <2>1. UNCHANGED << streak, stop, writer, queue >>
    BY <1>6 DEF Clear, Step, CallKeeps
  <2> QED BY <2>1
<1>7. ASSUME NEW c \in Callers, FailGroup(c) PROVE StreakInv'
  <2>1. UNCHANGED << streak, stop, writer, queue >>
    BY <1>7 DEF FailGroup, Step, CallKeeps
  <2> QED BY <2>1
<1>8. ASSUME SendHeartbeat PROVE StreakInv'
  <2>1. UNCHANGED << streak, stop, writer >>
    BY <1>8 DEF SendHeartbeat, Looping, LoopKeeps
  <2>2. queue' # << >>
    BY <1>8, PostGrows, PostedFrames DEF SendHeartbeat, Looping, LoopKeeps
  <2> QED BY <2>1, <2>2
<1>9. ASSUME SendProbe PROVE StreakInv'
  <2>1. UNCHANGED << streak, stop, writer >>
    BY <1>9 DEF SendProbe, Looping, LoopKeeps
  <2>2. queue' # << >>
    BY <1>9, PostGrows, PostedFrames DEF SendProbe, Looping, LoopKeeps
  <2> QED BY <2>1, <2>2
<1>10. ASSUME End PROVE StreakInv'
  BY <1>10 DEF End, Looping
<1>11. ASSUME HandleFrame PROVE StreakInv'
  <2>1. UNCHANGED << streak, stop, writer >>
    BY <1>11 DEF HandleFrame, Looping, LoopKeeps
  <2>2. queue' = queue \/ queue' # << >>
    BY <1>11, PostGrows, PostedFrames DEF HandleFrame, Looping, LoopKeeps
  <2> QED BY <2>1, <2>2
<1>12. ASSUME Succeed PROVE StreakInv'
  <2>1. UNCHANGED << streak, stop, writer, queue >>
    BY <1>12 DEF Succeed
  <2> QED BY <2>1
<1>13. ASSUME WriterTop PROVE StreakInv'
  <2>1. streak' = 0 \/ (queue = << >> /\ ~stop /\ streak' = streak)
    BY <1>13 DEF WriterTop, WriterKeeps, WriteControl
  <2> QED BY <2>1
<1>14. ASSUME Entry PROVE StreakInv'
  <2>1. streak' = 0 \/ (queue = << >> /\ ~stop /\ streak' = streak)
    BY <1>14 DEF Entry, Pass, Interleaves, WriterKeeps, WriteControl
  <2> QED BY <2>1
<1>15. ASSUME Lead PROVE StreakInv'
  <2>1. streak' = 0 \/ (queue = << >> /\ ~stop /\ streak' = streak)
    BY <1>15 DEF Lead, Pass, Interleaves, WriterKeeps, WriteControl
  <2> QED BY <2>1
<1>16. ASSUME WriteUnit PROVE StreakInv'
  <2>1. UNCHANGED << queue, stop >> /\ ~stop /\ writer.pc = "unit" /\ streak' = IF queue = << >> THEN 0 ELSE streak + 1
    BY <1>16 DEF WriteUnit, Writing, WriterKeeps
  <2>2. writer'.pc # "unit"
    BY <1>16 DEF WriteUnit, NextFrame, TypeInv
  <2> QED BY <2>1, <2>2
<1>17. ASSUME HostReceives PROVE StreakInv'
  <2>1. UNCHANGED << streak, stop, writer, queue >>
    BY <1>17 DEF HostReceives, HostKeeps
  <2> QED BY <2>1
<1>18. ASSUME NEW k \in Kinds, AppendFrame(k) PROVE StreakInv'
  <2>1. UNCHANGED << streak, stop, writer, queue >>
    BY <1>18 DEF AppendFrame, WriterKeeps
  <2> QED BY <2>1
<1>19. ASSUME NEW f \in {Probe(<< "host", hostProbes >>), Plain}, HostSends(f) PROVE StreakInv'
  <2>1. UNCHANGED << streak, stop, writer, queue >>
    BY <1>19 DEF HostSends, HostKeeps
  <2> QED BY <2>1
<1>20. CASE UNCHANGED vars
  BY <1>20 DEF vars
<1> QED
  BY <1>1, <1>2, <1>3, <1>4, <1>5, <1>6, <1>7, <1>8, <1>9, <1>10, <1>11, <1>12, <1>13,
     <1>14, <1>15, <1>16, <1>17, <1>18, <1>19, <1>20 DEF Next, CallStep, LoopStep,
     WriterStep, Kinds

-----------------------------------------------------------------------------
(* The awaited probe. *)

\* What Append does to the elements of a sequence.
LEMMA AppendHas ==
  ASSUME NEW S, NEW s \in Seq(S), NEW e \in S, NEW x, InSeq(s, x) \/ x = e
  PROVE  InSeq(Append(s, e), x)
<1>1. /\ DOMAIN Append(s, e) = 1 .. Len(s) + 1 /\ DOMAIN s = 1 .. Len(s) /\ Len(s) \in Nat
      /\ \A i \in 1 .. Len(s) : Append(s, e)[i] = s[i]
      /\ Append(s, e)[Len(s) + 1] = e
  BY AppendProperties
<1>2. CASE x = e
  <2>1. Len(s) + 1 \in DOMAIN Append(s, e)
    BY <1>1
  <2> QED BY <1>1, <1>2, <2>1 DEF InSeq
<1>3. CASE InSeq(s, x)
  <2>1. PICK i \in 1 .. Len(s) : s[i] = x
    BY <1>1, <1>3 DEF InSeq
  <2>2. i \in DOMAIN Append(s, e) /\ Append(s, e)[i] = x
    BY <1>1, <2>1
  <2> QED BY <2>2 DEF InSeq
<1> QED BY <1>2, <1>3

\* What Tail does to the elements of a sequence.
LEMMA TailHas ==
  ASSUME NEW S, NEW s \in Seq(S), s # << >>, NEW x, InSeq(s, x), x # Head(s)
  PROVE  InSeq(Tail(s), x)
<1>1. /\ Tail(s) \in Seq(S) /\ Len(Tail(s)) = Len(s) - 1 /\ Len(s) \in Nat \ {0}
      /\ \A i \in 1 .. Len(Tail(s)) : Tail(s)[i] = s[i + 1] /\ Head(s) = s[1]
  OBVIOUS
<1>2. PICK i \in 1 .. Len(s) : s[i] = x
  BY DEF InSeq
<1>3. i # 1
  BY <1>2
<1>4. i - 1 \in 1 .. Len(Tail(s)) /\ Tail(s)[i - 1] = s[i]
  BY <1>1, <1>2, <1>3
<1>5. i - 1 \in DOMAIN Tail(s) /\ Tail(s)[i - 1] = x
  BY <1>1, <1>2, <1>4
<1> QED BY <1>5 DEF InSeq

\* A post keeps the probes on their way, and puts its own there.
LEMMA PostKeepsProbes ==
  ASSUME QueueInv, NEW f \in Sent, PostControl(f), NEW g,
         f = Probe(Preflight(g)) \/ InSeq(queue, Probe(Preflight(g))) \/ Probe(Preflight(g)) \in evicted
  PROVE  InSeq(queue', Probe(Preflight(g))) \/ Probe(Preflight(g)) \in evicted'
<1> DEFINE x == Probe(Preflight(g))
<1>1. CASE x \in evicted
  BY <1>1 DEF PostControl
<1>2. CASE f = x \/ InSeq(queue, x)
  <2>1. ~IsPlainHeartbeat(x)
    BY DEF IsPlainHeartbeat, Probe
  <2>2. \/ InSeq(Posted(queue, f), x)
        \/ Len(queue) = Depth /\ Probes(Append(queue, f)) = 1 .. Depth + 1 /\ x = queue[1]
    BY <1>2, <2>1, PostedKeepsProbe DEF InSeq
  <2> QED BY <2>2 DEF PostControl
<1> QED BY <1>1, <1>2


\* The unit around a control frame.
LEMMA ControlUnit ==
  ASSUME NEW n \in Nat, NEW f \in Sent
  PROVE  Whole(TransportId(n), f) \in ControlUnits /\ Whole(TransportId(n), f).body = f
<1>1. Whole(TransportId(n), f).body = f
  BY DEF Whole
<1>2. Whole(TransportId(n), f) \in ControlUnits
  BY DEF ControlUnits, TransportId
<1> QED BY <1>1, <1>2

\* A control frame that the writer takes is on the link, and what was there stays.
LEMMA MovedKeepsProbes ==
  ASSUME TypeInv, QueueInv, LinkInv, queue # << >>, queue' = Tail(queue),
         link' = Append(link, Whole(TransportId(seqs.tr + 1), Head(queue))),
         NEW f \in Sent, InSeq(queue, f) \/ OnTheLink(f)
  PROVE  InSeq(queue', f) \/ OnTheLink(f)'
<1> DEFINE u == Whole(TransportId(seqs.tr + 1), Head(queue))
<1>1. u \in ControlUnits /\ u.body = Head(queue)
  <2>1. Head(queue) \in Sent /\ seqs.tr + 1 \in Nat
    BY DEF QueueInv, TypeInv
  <2> QED BY <2>1, ControlUnit
<1> HIDE DEF u
<1>2. \A v \in ControlUnits : InSeq(link, v) \/ v = u => InSeq(link', v)
  BY <1>1, AppendHas DEF LinkInv, u
<1>3. CASE OnTheLink(f) \/ f = Head(queue)
  BY <1>1, <1>2, <1>3 DEF OnTheLink
<1>4. CASE InSeq(queue, f) /\ f # Head(queue)
  BY <1>4, TailHas DEF QueueInv
<1> QED BY <1>3, <1>4

\* Every step keeps the awaited probe on its way: only a queue full of probes drops
\* one, and its answer ends the wait.
LEMMA AwaitedStep ==
  ASSUME TypeInv, QueueInv, LinkInv, HostInv, UpInv, AwaitedInv, [Next]_vars
  PROVE  AwaitedInv'
<1>1. ASSUME NEW c \in Callers, Join(c) PROVE AwaitedInv'
  <2>1. UNCHANGED << queue, link, up, evicted, stop, seqs >> /\ \A o \in Callers : o # c => call'[o] = call[o]
    BY <1>1 DEF Join, Step, CallKeeps, TypeInv
  <2>2. \A g : OnItsWay(g)' <=> OnItsWay(g)
    BY <2>1 DEF OnItsWay, OnTheLink
  <2>3. slot' = slot /\ call'[c].pc = "wait" /\ call'[c].group = slot
    BY <1>1 DEF Join, Step, CallKeeps, TypeInv
  <2> QED BY <2>1, <2>2, <2>3 DEF AwaitedInv, Awaited
<1>2. ASSUME NEW c \in Callers, Open(c) PROVE AwaitedInv'
  <2>1. UNCHANGED << queue, link, up, evicted, stop >> /\ \A o \in Callers : o # c => call'[o] = call[o]
    BY <1>2 DEF Open, Step, CallKeeps, TypeInv
  <2>2. slot' = seqs.probe + 1 /\ seqs'.probe = seqs.probe + 1 /\ call'[c].pc = "post" /\ call'[c].group = seqs.probe + 1
    BY <1>2 DEF Open, Step, CallKeeps, TypeInv
  <2>3. seqs.probe \in Nat /\ \A o \in Callers : call[o].group \in Int /\ call[o].group <= seqs.probe
    BY DEF TypeInv, AwaitedInv, Groups, None
  <2>4. \A g : ~Awaited(g)'
    BY <2>1, <2>2, <2>3 DEF Awaited
  <2>5. slot' <= seqs'.probe /\ \A o \in Callers : call'[o].group <= seqs'.probe
    BY <2>1, <2>2, <2>3
  <2> QED BY <2>4, <2>5 DEF AwaitedInv
<1>3. ASSUME NEW c \in Callers, Post(c) PROVE AwaitedInv'
  <2>1. UNCHANGED << link, up, stop, seqs, slot >> /\ \A o \in Callers : o # c => call'[o] = call[o]
    BY <1>3 DEF Post, Step, CallKeeps, TypeInv
  <2>2. call'[c].group = call[c].group /\ call[c].group \in Groups
    BY <1>3 DEF Post, Step, CallKeeps, TypeInv, Holding, Owning
  <2>3. CASE stop
    BY <2>1, <2>2, <2>3 DEF AwaitedInv, Awaited
  <2>4. CASE ~stop
    <3> DEFINE f == Probe(Preflight(call[c].group))
    <3>1. f \in Sent /\ PostControl(f)
      BY <1>3, <2>2, <2>4, PostedFrames DEF Post
    <3>2. \A g \in Groups : OnItsWay(g) \/ g = call[c].group => OnItsWay(g)'
      BY <2>1, <3>1, PostKeepsProbes DEF OnItsWay, OnTheLink
    <3>3. \A g \in Groups : Awaited(g)' => Awaited(g) \/ g = call[c].group
      BY <2>1, <2>2 DEF Awaited
    <3> QED BY <2>1, <2>2, <3>2, <3>3 DEF AwaitedInv
  <2> QED BY <2>3, <2>4
<1>4. ASSUME NEW c \in Callers, Woken(c) PROVE AwaitedInv'
  <2>1. UNCHANGED << queue, link, up, evicted, stop, seqs >> /\ \A o \in Callers : o # c => call'[o] = call[o]
    BY <1>4 DEF Woken, Step, CallKeeps, TypeInv
  <2>2. \A g : OnItsWay(g)' <=> OnItsWay(g)
    BY <2>1 DEF OnItsWay, OnTheLink
  <2>3. slot' = slot /\ call'[c].pc # "own" /\ call'[c].group \in {None, call[c].group}
    BY <1>4 DEF Woken, Step, CallKeeps, TypeInv
  <2>4. seqs.probe \in Nat
    BY DEF TypeInv
  <2> QED BY <2>1, <2>2, <2>3, <2>4 DEF AwaitedInv, Awaited, None
<1>5. ASSUME NEW c \in Callers, GivesUp(c) PROVE AwaitedInv'
  <2>1. UNCHANGED << queue, link, up, evicted, stop, seqs >> /\ \A o \in Callers : o # c => call'[o] = call[o]
    BY <1>5 DEF GivesUp, Step, CallKeeps, TypeInv
  <2>2. \A g : OnItsWay(g)' <=> OnItsWay(g)
    BY <2>1 DEF OnItsWay, OnTheLink
  <2>3. slot' = slot /\ call'[c].pc # "own" /\ call'[c].group \in {None, call[c].group}
    BY <1>5 DEF GivesUp, Step, CallKeeps, TypeInv
  <2>4. seqs.probe \in Nat
    BY DEF TypeInv
  <2> QED BY <2>1, <2>2, <2>3, <2>4 DEF AwaitedInv, Awaited, None
<1>6. ASSUME NEW c \in Callers, Clear(c) PROVE AwaitedInv'
  <2>1. UNCHANGED << queue, link, up, evicted, stop, seqs >> /\ \A o \in Callers : o # c => call'[o] = call[o]
    BY <1>6 DEF Clear, Step, CallKeeps, TypeInv
  <2>2. \A g : OnItsWay(g)' <=> OnItsWay(g)
    BY <2>1 DEF OnItsWay, OnTheLink
  <2>3. slot' \in {None, slot} /\ call'[c].pc # "own" /\ call'[c].group = call[c].group
    BY <1>6 DEF Clear, Step, CallKeeps, TypeInv
  <2>4. seqs.probe \in Nat /\ \A g \in Groups : g # None
    BY DEF TypeInv, Groups, None
  <2> QED BY <2>1, <2>2, <2>3, <2>4 DEF AwaitedInv, Awaited, None
<1>7. ASSUME NEW c \in Callers, FailGroup(c) PROVE AwaitedInv'
  <2>1. UNCHANGED << queue, link, up, evicted, stop, seqs >> /\ \A o \in Callers : o # c => call'[o] = call[o]
    BY <1>7 DEF FailGroup, Step, CallKeeps, TypeInv
  <2>2. \A g : OnItsWay(g)' <=> OnItsWay(g)
    BY <2>1 DEF OnItsWay, OnTheLink
  <2>3. slot' = slot /\ call'[c].pc # "own" /\ call'[c].group = None
    BY <1>7 DEF FailGroup, Step, CallKeeps, TypeInv
  <2>4. seqs.probe \in Nat
    BY DEF TypeInv
  <2> QED BY <2>1, <2>2, <2>3, <2>4 DEF AwaitedInv, Awaited, None
<1>8. ASSUME SendHeartbeat PROVE AwaitedInv'
  <2>1. UNCHANGED << call, slot, stop, link, up >> /\ seqs'.probe = seqs.probe
    BY <1>8 DEF SendHeartbeat, Looping, LoopKeeps, TypeInv
  <2>2. PICK f \in Sent : PostControl(f)
    BY <1>8, PostedFrames DEF SendHeartbeat, Looping, LoopKeeps
  <2>3. \A g \in Groups : OnItsWay(g) => OnItsWay(g)'
    BY <2>1, <2>2, PostKeepsProbes DEF OnItsWay, OnTheLink
  <2> QED BY <2>1, <2>3 DEF AwaitedInv, Awaited
<1>9. ASSUME SendProbe PROVE AwaitedInv'
  <2>1. UNCHANGED << call, slot, stop, link, up >> /\ seqs'.probe = seqs.probe
    BY <1>9 DEF SendProbe, Looping, LoopKeeps, TypeInv
  <2>2. PICK f \in Sent : PostControl(f)
    BY <1>9, PostedFrames DEF SendProbe, Looping, LoopKeeps
  <2>3. \A g \in Groups : OnItsWay(g) => OnItsWay(g)'
    BY <2>1, <2>2, PostKeepsProbes DEF OnItsWay, OnTheLink
  <2> QED BY <2>1, <2>3 DEF AwaitedInv, Awaited
<1>10. ASSUME End PROVE AwaitedInv'
  <2>1. stop' /\ UNCHANGED << call, slot, seqs >>
    BY <1>10 DEF End, Looping
  <2> QED BY <2>1 DEF AwaitedInv, Awaited
<1>11. ASSUME HandleFrame PROVE AwaitedInv'
  <2> DEFINE f == Head(up)
  <2>1. UNCHANGED << call, stop, link, seqs >> /\ up # << >> /\ up' = Tail(up)
    BY <1>11 DEF HandleFrame, Looping, LoopKeeps
  <2>2. slot' = (IF Completes(f) THEN None ELSE slot)
    BY <1>11 DEF HandleFrame
  <2>3. (queue' = queue /\ evicted' = evicted) \/ \E m \in Sent : PostControl(m)
    BY <1>11, PostedFrames DEF HandleFrame
  <2>4. \A g \in Groups : InSeq(queue, Probe(Preflight(g))) \/ Probe(Preflight(g)) \in evicted
            => InSeq(queue', Probe(Preflight(g))) \/ Probe(Preflight(g)) \in evicted'
    BY <2>3, PostKeepsProbes
  <2>5. ASSUME NEW g \in Groups, slot' = g, InSeq(up, ProbeAck(Preflight(g)))
        PROVE  InSeq(up', ProbeAck(Preflight(g)))
    <3>1. ~Completes(f) /\ slot = g /\ slot # None
      BY <2>2, <2>5 DEF Groups, None
    <3>2. f # ProbeAck(Preflight(g))
      BY <3>1 DEF Completes, ProbeAck
    <3> QED BY <2>1, <2>5, <3>2, TailHas DEF UpInv
  <2>6. \A g \in Groups : slot' = g => slot = g
    BY <2>2 DEF Groups, None
  <2>7. \A g \in Groups : slot' = g /\ OnItsWay(g) => OnItsWay(g)'
    BY <2>1, <2>4, <2>5 DEF OnItsWay, OnTheLink
  <2>8. \A g \in Groups : Awaited(g)' => Awaited(g) /\ slot' = g
    BY <2>1, <2>6 DEF Awaited
  <2>9. slot' <= seqs.probe
    BY <2>2 DEF AwaitedInv, TypeInv, None
  <2> QED BY <2>1, <2>7, <2>8, <2>9 DEF AwaitedInv
<1>12. ASSUME Succeed PROVE AwaitedInv'
  BY <1>12 DEF Succeed, AwaitedInv, Awaited, OnItsWay, OnTheLink
<1>13. ASSUME WriterTop PROVE AwaitedInv'
  <2>1. UNCHANGED << call, slot, stop, up, evicted >> /\ seqs'.probe = seqs.probe
    BY <1>13 DEF WriterTop, WriterKeeps, WriteControl, TypeInv
  <2>2. \/ UNCHANGED << queue, link >>
        \/ /\ queue # << >> /\ queue' = Tail(queue)
           /\ link' = Append(link, Whole(TransportId(seqs.tr + 1), Head(queue)))
    BY <1>13 DEF WriterTop, WriterKeeps, WriteControl
  <2>3. \A g \in Groups : OnItsWay(g) => OnItsWay(g)'
    <3> SUFFICES ASSUME NEW g \in Groups, OnItsWay(g) PROVE OnItsWay(g)'
      OBVIOUS
    <3> DEFINE f == Probe(Preflight(g))
    <3>1. f \in Sent
      BY PostedFrames
    <3> HIDE DEF f
    <3>2. InSeq(queue, f) \/ OnTheLink(f) => InSeq(queue', f) \/ OnTheLink(f)'
      <4>1. CASE UNCHANGED << queue, link >>
        BY <4>1 DEF OnTheLink
      <4>2. CASE ~UNCHANGED << queue, link >>
        BY <2>2, <3>1, <4>2, MovedKeepsProbes
      <4> QED BY <4>1, <4>2
    <3> QED BY <2>1, <3>2 DEF OnItsWay, f
  <2> QED BY <2>1, <2>3 DEF AwaitedInv, Awaited
<1>14. ASSUME Entry PROVE AwaitedInv'
  <2>1. UNCHANGED << call, slot, stop, up, evicted >> /\ seqs'.probe = seqs.probe
    BY <1>14 DEF Entry, Pass, Interleaves, WriterKeeps, WriteControl, TypeInv
  <2>2. \/ UNCHANGED << queue, link >>
        \/ /\ queue # << >> /\ queue' = Tail(queue)
           /\ link' = Append(link, Whole(TransportId(seqs.tr + 1), Head(queue)))
    BY <1>14 DEF Entry, Pass, Interleaves, WriterKeeps, WriteControl
  <2>3. \A g \in Groups : OnItsWay(g) => OnItsWay(g)'
    <3> SUFFICES ASSUME NEW g \in Groups, OnItsWay(g) PROVE OnItsWay(g)'
      OBVIOUS
    <3> DEFINE f == Probe(Preflight(g))
    <3>1. f \in Sent
      BY PostedFrames
    <3> HIDE DEF f
    <3>2. InSeq(queue, f) \/ OnTheLink(f) => InSeq(queue', f) \/ OnTheLink(f)'
      <4>1. CASE UNCHANGED << queue, link >>
        BY <4>1 DEF OnTheLink
      <4>2. CASE ~UNCHANGED << queue, link >>
        BY <2>2, <3>1, <4>2, MovedKeepsProbes
      <4> QED BY <4>1, <4>2
    <3> QED BY <2>1, <3>2 DEF OnItsWay, f
  <2> QED BY <2>1, <2>3 DEF AwaitedInv, Awaited
<1>15. ASSUME Lead PROVE AwaitedInv'
  <2>1. UNCHANGED << call, slot, stop, up, evicted >> /\ seqs'.probe = seqs.probe
    BY <1>15 DEF Lead, Pass, Interleaves, WriterKeeps, WriteControl, TypeInv
  <2>2. \/ UNCHANGED << queue, link >>
        \/ /\ queue # << >> /\ queue' = Tail(queue)
           /\ link' = Append(link, Whole(TransportId(seqs.tr + 1), Head(queue)))
    BY <1>15 DEF Lead, Pass, Interleaves, WriterKeeps, WriteControl
  <2>3. \A g \in Groups : OnItsWay(g) => OnItsWay(g)'
    <3> SUFFICES ASSUME NEW g \in Groups, OnItsWay(g) PROVE OnItsWay(g)'
      OBVIOUS
    <3> DEFINE f == Probe(Preflight(g))
    <3>1. f \in Sent
      BY PostedFrames
    <3> HIDE DEF f
    <3>2. InSeq(queue, f) \/ OnTheLink(f) => InSeq(queue', f) \/ OnTheLink(f)'
      <4>1. CASE UNCHANGED << queue, link >>
        BY <4>1 DEF OnTheLink
      <4>2. CASE ~UNCHANGED << queue, link >>
        BY <2>2, <3>1, <4>2, MovedKeepsProbes
      <4> QED BY <4>1, <4>2
    <3> QED BY <2>1, <3>2 DEF OnItsWay, f
  <2> QED BY <2>1, <2>3 DEF AwaitedInv, Awaited
<1>16. ASSUME WriteUnit PROVE AwaitedInv'
  <2>1. UNCHANGED << call, slot, stop, up, evicted, queue >> /\ seqs'.probe = seqs.probe
    BY <1>16 DEF WriteUnit, Writing, WriterKeeps, TypeInv
  <2>2. PICK u : link' = Append(link, u)
    BY <1>16 DEF WriteUnit
  <2>3. \A v : InSeq(link, v) => InSeq(link', v)
    BY <2>2 DEF LinkInv, InSeq
  <2>4. \A g \in Groups : OnItsWay(g) => OnItsWay(g)'
    BY <2>1, <2>3 DEF OnItsWay, OnTheLink
  <2> QED BY <2>1, <2>4 DEF AwaitedInv, Awaited
<1>17. ASSUME HostReceives PROVE AwaitedInv'
  <2> DEFINE u == Head(link)
  <2>1. UNCHANGED << call, slot, stop, queue, evicted, seqs >> /\ link # << >> /\ link' = Tail(link)
    BY <1>17 DEF HostReceives, HostKeeps
  <2>2. u \in ControlUnits \cup ReliableUnits
    BY <2>1 DEF LinkInv
  <2>3. \A x : InSeq(up, x) => InSeq(up', x)
    <3>1. up' = up \/ up' = Append(up, ProbeAck(u.body.nonce))
      BY <1>17 DEF HostReceives
    <3> QED BY <3>1 DEF UpInv, InSeq
  <2>4. ASSUME NEW g \in Groups, OnTheLink(Probe(Preflight(g)))
        PROVE  OnTheLink(Probe(Preflight(g)))' \/ InSeq(up', ProbeAck(Preflight(g)))
    <3> DEFINE f == Probe(Preflight(g))
    <3>1. PICK v \in ControlUnits : v.body = f /\ InSeq(link, v)
      BY <2>4 DEF OnTheLink
    <3>2. CASE v # u
      BY <2>1, <3>1, <3>2, TailHas DEF OnTheLink, LinkInv
    <3>3. CASE v = u
      <4>1. ~UnitError(host.re, u) /\ UnitCompletes(u)
        BY <3>1, <3>3, ControlReceived
      <4>2. u.body.type = "probe" /\ u.body.nonce = Preflight(g)
        BY <3>1, <3>3 DEF Probe
      <4>3. up' = Append(up, ProbeAck(Preflight(g)))
        BY <1>17, <4>1, <4>2 DEF HostReceives
      <4> QED BY <4>3, AppendHas DEF UpInv, Answers
    <3> QED BY <3>2, <3>3
  <2>5. \A g \in Groups : OnItsWay(g) => OnItsWay(g)'
    BY <2>1, <2>3, <2>4 DEF OnItsWay
  <2> QED BY <2>1, <2>5 DEF AwaitedInv, Awaited
<1>18. ASSUME NEW k \in Kinds, AppendFrame(k) PROVE AwaitedInv'
  BY <1>18 DEF AppendFrame, WriterKeeps, AwaitedInv, Awaited, OnItsWay, OnTheLink
<1>19. ASSUME NEW f \in {Probe(<< "host", hostProbes >>), Plain}, HostSends(f) PROVE AwaitedInv'
  <2>1. UNCHANGED << call, slot, stop, queue, link, evicted, seqs >> /\ up' = Append(up, f)
    BY <1>19 DEF HostSends, HostKeeps
  <2>2. \A x : InSeq(up, x) => InSeq(up', x)
    BY <2>1 DEF UpInv, InSeq
  <2>3. \A g \in Groups : OnItsWay(g) => OnItsWay(g)'
    BY <2>1, <2>2 DEF OnItsWay, OnTheLink
  <2> QED BY <2>1, <2>3 DEF AwaitedInv, Awaited
<1>20. CASE UNCHANGED vars
  BY <1>20 DEF vars, AwaitedInv, Awaited, OnItsWay, OnTheLink, InSeq
<1> QED
  BY <1>1, <1>2, <1>3, <1>4, <1>5, <1>6, <1>7, <1>8, <1>9, <1>10, <1>11, <1>12, <1>13,
     <1>14, <1>15, <1>16, <1>17, <1>18, <1>19, <1>20 DEF Next, CallStep, LoopStep,
     WriterStep, Kinds

-----------------------------------------------------------------------------
(* Frames arrive intact. *)

\* The unit at the end of a large frame says so, and no other.
LEMMA LastFragment ==
  ASSUME NEW id, NEW off, NEW body PROVE Fragment(id, off, body).last <=> off = Units
<1>1. CASE off = Units
  BY <1>1 DEF Fragment
<1>2. CASE off # Units
  BY <1>2 DEF Fragment
<1> QED BY <1>1, <1>2

\* A unit that comes in its place takes the host to the next position.
LEMMA HostFollows ==
  ASSUME HostInv, ~host.broken, host.got \in Nat, NEW a \in Positions, NEW b \in Positions, HostAt(a),
         NEW u \in ControlUnits \cup ReliableUnits, u = Head(link), Carries(a, u, b), HostReceives
  PROVE  HostAt(b)' /\ ~host'.broken /\ host'.got \in Nat
<1> DEFINE whole == ~UnitError(host.re, u) /\ UnitCompletes(u)
<1>1. CASE u \in ControlUnits
  <2>1. u.body.type # "reliable" /\ ~UnitError(host.re, u) /\ Reassembled(host.re, u) = host.re
    BY <1>1, ControlReceived, FrameTypes
  <2>2. host' = [host EXCEPT !.re = host.re, !.got = host.got]
    BY <2>1 DEF HostReceives
  <2>3. host'.re = host.re /\ host'.got = host.got /\ host'.broken = host.broken
    BY <2>2 DEF HostInv
  <2> QED BY <1>1, <2>3 DEF Carries, HostAt
<1>2. CASE u \notin ControlUnits
  <2>1. u.body = Reliable(a.n) /\ u.frag \in BOOLEAN /\ u.off \in Nat \ {0}
    BY <1>2, FrameTypes DEF Carries
  <2>2. u.body.type = "reliable" /\ u.body.n = host.got + 1
    BY <2>1 DEF Reliable, HostAt
  <2>3. host.re.off \in Nat /\ (host.re.open => host.re.off > 0) /\ a.off \in Nat
    BY DEF HostInv, Positions
  <2>4. ~UnitError(host.re, u)
    <3>1. CASE u.frag
      <4>1. u.off = a.off /\ (a.off > 1 => u.id = << "w", a.id >>)
        BY <1>2, <3>1 DEF Carries
      <4>2. CASE host.re.open
        <5>1. a.off = host.re.off + 1 /\ a.off > 1 /\ host.re.id = << "w", a.id >>
          BY <2>3, <4>2 DEF HostAt
        <5> QED BY <3>1, <4>1, <4>2, <5>1 DEF UnitError
      <4>3. CASE ~host.re.open
        BY <3>1, <4>1, <4>3 DEF UnitError, HostAt
      <4> QED BY <4>2, <4>3
    <3>2. CASE ~u.frag
      <4>1. a.off = 1
        BY <1>2, <3>2 DEF Carries
      <4>2. ~host.re.open
        BY <2>3, <4>1 DEF HostAt
      <4> QED BY <3>2, <4>2 DEF UnitError
    <3> QED BY <3>1, <3>2
  <2>5. host' = [host EXCEPT !.re = Reassembled(host.re, u),
                             !.got = IF UnitCompletes(u) THEN host.got + 1 ELSE host.got]
    BY <2>2, <2>4 DEF HostReceives
  <2>6. /\ host'.re = Reassembled(host.re, u) /\ host'.broken = host.broken
        /\ host'.got = IF UnitCompletes(u) THEN host.got + 1 ELSE host.got
    BY <2>5 DEF HostInv
  <2>7. CASE u.frag /\ a.off < Units
    <3>1. ~u.last /\ b.n = a.n /\ b.off = a.off + 1 /\ u.id = << "w", b.id >> /\ u.off = a.off
      BY <1>2, <2>7 DEF Carries
    <3>2. ~UnitCompletes(u) /\ Reassembled(host.re, u) = [open |-> TRUE, id |-> u.id, off |-> u.off]
      BY <2>7, <3>1 DEF UnitCompletes, Reassembled
    <3>3. host'.re.open /\ host'.re.id = u.id /\ host'.re.off = u.off /\ host'.got = host.got
      BY <2>6, <3>2
    <3> QED BY <2>6, <3>1, <3>3 DEF HostAt
  <2>8. CASE ~(u.frag /\ a.off < Units)
    <3>1. (u.frag => u.last) /\ b.n = a.n + 1 /\ b.off = 1 /\ (~u.frag => a.off = 1)
      BY <1>2, <2>8 DEF Carries
    <3>2. UnitCompletes(u)
      BY <3>1 DEF UnitCompletes
    <3>3. ~host'.re.open
      <4>1. CASE u.frag
        BY <2>6, <3>1, <4>1 DEF Reassembled, NoReassembly
      <4>2. CASE ~u.frag
        <5>1. ~host.re.open
          BY <2>3, <3>1, <4>2 DEF HostAt
        <5> QED BY <2>6, <4>2, <5>1 DEF Reassembled
      <4> QED BY <4>1, <4>2
    <3> QED BY <2>6, <3>1, <3>2, <3>3 DEF HostAt
  <2> QED BY <2>7, <2>8
<1> QED BY <1>1, <1>2

\* A unit appended to the link extends the path by the position after it.
LEMMA PathExtends ==
  ASSUME NEW pos \in Seq(Positions), Path(pos), link \in Seq(ControlUnits \cup ReliableUnits),
         NEW u \in ControlUnits \cup ReliableUnits, link' = Append(link, u), host' = host,
         NEW w \in Positions, w = WriterPos', Carries(WriterPos, u, w)
  PROVE  Path(Append(pos, w))'
<1> DEFINE n == Len(link)
           new == Append(pos, w)
<1>1. n \in Nat /\ Len(link') = n + 1 /\ (\A i \in 1 .. n : link'[i] = link[i]) /\ link'[n + 1] = u
  BY AppendProperties
<1>2. Len(pos) = n + 1
  BY DEF Path
<1>3. Len(new) = n + 2 /\ (\A i \in 1 .. n + 1 : new[i] = pos[i]) /\ new[n + 2] = w
  BY <1>1, <1>2, AppendProperties
<1> HIDE DEF new, n
<1>4. HostAt(new[1])'
  <2>1. new[1] = pos[1] /\ HostAt(pos[1])
    BY <1>1, <1>3 DEF Path
  <2> QED BY <2>1 DEF HostAt, new
<1>5. ASSUME NEW i \in 1 .. n + 1 PROVE Carries(new[i], link'[i], new[i + 1])
  <2>1. CASE i = n + 1
    <3>1. new[i] = WriterPos /\ new[i + 1] = w
      BY <1>1, <1>3, <2>1 DEF Path, n
    <3> QED BY <1>1, <2>1, <3>1
  <2>2. CASE i # n + 1
    <3>1. i \in 1 .. n /\ new[i] = pos[i] /\ new[i + 1] = pos[i + 1] /\ link'[i] = link[i]
      BY <1>1, <1>3, <2>2
    <3> QED BY <3>1 DEF Path, n
  <2> QED BY <2>1, <2>2
<1> QED BY <1>1, <1>3, <1>4, <1>5 DEF Path, new

\* A unit that the host takes shortens the path.
LEMMA PathShortens ==
  ASSUME NEW pos \in Seq(Positions), Path(pos), link \in Seq(ControlUnits \cup ReliableUnits), link # << >>,
         link' = Tail(link), WriterPos' = WriterPos, HostAt(pos[2])'
  PROVE  Path(Tail(pos))' /\ Tail(pos) \in Seq(Positions)
<1> DEFINE n == Len(link)
           new == Tail(pos)
<1>1. n \in Nat \ {0} /\ Len(link') = n - 1 /\ \A i \in 1 .. n - 1 : link'[i] = link[i + 1]
  OBVIOUS
<1>2. Len(pos) = n + 1 /\ pos # << >>
  BY <1>1 DEF Path
<1>3. new \in Seq(Positions) /\ Len(new) = n /\ \A i \in 1 .. n : new[i] = pos[i + 1]
  BY <1>1, <1>2
<1> HIDE DEF new, n
<1>4. HostAt(new[1])'
  <2>1. new[1] = pos[2]
    BY <1>1, <1>3
  <2> QED BY <2>1 DEF HostAt, new
<1>5. new[n] = WriterPos
  BY <1>1, <1>3 DEF Path, n
<1>6. ASSUME NEW i \in 1 .. n - 1 PROVE Carries(new[i], link'[i], new[i + 1])
  <2>1. i + 1 \in 1 .. n /\ new[i] = pos[i + 1] /\ new[i + 1] = pos[i + 2] /\ link'[i] = link[i + 1]
    BY <1>1, <1>3
  <2>2. Carries(pos[i + 1], link[i + 1], pos[i + 2])
    <3>1. Carries(pos[i + 1], link[i + 1], pos[(i + 1) + 1])
      BY <2>1 DEF Path, n
    <3>2. (i + 1) + 1 = i + 2
      BY <1>1
    <3> QED BY <3>1, <3>2
  <2> QED BY <2>1, <2>2
<1> QED BY <1>1, <1>3, <1>4, <1>5, <1>6 DEF Path, new


\* The writer's position is one.
LEMMA WriterPosType ==
  ASSUME TypeInv, WriterInv PROVE WriterPos \in Positions
BY DEF TypeInv, WriterInv, WriterPos, Positions

\* A control frame written between two units leaves the stream where it was.
LEMMA ControlExtends ==
  ASSUME TypeInv, QueueInv, LinkInv, WriterInv, ChainInv, ~stop, stop' = stop, host' = host, WriterPos' = WriterPos,
         queue # << >>, link' = Append(link, Whole(TransportId(seqs.tr + 1), Head(queue)))
  PROVE  ChainInv'
<1> DEFINE u == Whole(TransportId(seqs.tr + 1), Head(queue))
<1>1. u \in ControlUnits
  <2>1. Head(queue) \in Sent /\ seqs.tr + 1 \in Nat
    BY DEF QueueInv, TypeInv
  <2> QED BY <2>1, ControlUnit
<1> HIDE DEF u
<1>2. Carries(WriterPos, u, WriterPos)
  BY <1>1 DEF Carries
<1>3. PICK pos \in Seq(Positions) : Path(pos)
  BY DEF ChainInv
<1>4. PICK w \in Positions : w = WriterPos /\ w = WriterPos'
  BY WriterPosType
<1>5. Path(Append(pos, w))' /\ Append(pos, w) \in Seq(Positions)
  BY <1>1, <1>2, <1>3, <1>4, PathExtends, AppendProperties DEF LinkInv, u
<1> QED BY <1>5 DEF ChainInv

\* Every step keeps the path from the host to the writer.
LEMMA ChainStep ==
  ASSUME TypeInv, QueueInv, LinkInv, HostInv, WriterInv, ChainInv, [Next]_vars
  PROVE  ChainInv'
<1>1. ASSUME NEW c \in Callers, Join(c) PROVE ChainInv'
  <2>1. UNCHANGED << host, link, stop >> /\ writer'.frame = writer.frame /\ writer'.unit = writer.unit /\ seqs'.wr = seqs.wr
    BY <1>1 DEF Join, Step, CallKeeps, TypeInv
  <2> QED BY <2>1 DEF ChainInv, Path, HostAt, WriterPos
<1>2. ASSUME NEW c \in Callers, Open(c) PROVE ChainInv'
  <2>1. UNCHANGED << host, link, stop >> /\ writer'.frame = writer.frame /\ writer'.unit = writer.unit /\ seqs'.wr = seqs.wr
    BY <1>2 DEF Open, Step, CallKeeps, TypeInv
  <2> QED BY <2>1 DEF ChainInv, Path, HostAt, WriterPos
<1>3. ASSUME NEW c \in Callers, Post(c) PROVE ChainInv'
  <2>1. UNCHANGED << host, link, stop >> /\ writer'.frame = writer.frame /\ writer'.unit = writer.unit /\ seqs'.wr = seqs.wr
    BY <1>3 DEF Post, Step, CallKeeps, TypeInv
  <2> QED BY <2>1 DEF ChainInv, Path, HostAt, WriterPos
<1>4. ASSUME NEW c \in Callers, Woken(c) PROVE ChainInv'
  <2>1. UNCHANGED << host, link, stop >> /\ writer'.frame = writer.frame /\ writer'.unit = writer.unit /\ seqs'.wr = seqs.wr
    BY <1>4 DEF Woken, Step, CallKeeps, TypeInv
  <2> QED BY <2>1 DEF ChainInv, Path, HostAt, WriterPos
<1>5. ASSUME NEW c \in Callers, GivesUp(c) PROVE ChainInv'
  <2>1. UNCHANGED << host, link, stop >> /\ writer'.frame = writer.frame /\ writer'.unit = writer.unit /\ seqs'.wr = seqs.wr
    BY <1>5 DEF GivesUp, Step, CallKeeps, TypeInv
  <2> QED BY <2>1 DEF ChainInv, Path, HostAt, WriterPos
<1>6. ASSUME NEW c \in Callers, Clear(c) PROVE ChainInv'
  <2>1. UNCHANGED << host, link, stop >> /\ writer'.frame = writer.frame /\ writer'.unit = writer.unit /\ seqs'.wr = seqs.wr
    BY <1>6 DEF Clear, Step, CallKeeps, TypeInv
  <2> QED BY <2>1 DEF ChainInv, Path, HostAt, WriterPos
<1>7. ASSUME NEW c \in Callers, FailGroup(c) PROVE ChainInv'
  <2>1. UNCHANGED << host, link, stop >> /\ writer'.frame = writer.frame /\ writer'.unit = writer.unit /\ seqs'.wr = seqs.wr
    BY <1>7 DEF FailGroup, Step, CallKeeps, TypeInv
  <2> QED BY <2>1 DEF ChainInv, Path, HostAt, WriterPos
<1>8. ASSUME SendHeartbeat PROVE ChainInv'
  <2>1. UNCHANGED << host, link, stop >> /\ writer'.frame = writer.frame /\ writer'.unit = writer.unit /\ seqs'.wr = seqs.wr
    BY <1>8 DEF SendHeartbeat, Looping, LoopKeeps, TypeInv
  <2> QED BY <2>1 DEF ChainInv, Path, HostAt, WriterPos
<1>9. ASSUME SendProbe PROVE ChainInv'
  <2>1. UNCHANGED << host, link, stop >> /\ writer'.frame = writer.frame /\ writer'.unit = writer.unit /\ seqs'.wr = seqs.wr
    BY <1>9 DEF SendProbe, Looping, LoopKeeps, TypeInv
  <2> QED BY <2>1 DEF ChainInv, Path, HostAt, WriterPos
<1>10. ASSUME End PROVE ChainInv'
  <2>1. host' = host /\ stop' /\ link' = << >>
    BY <1>10 DEF End, Looping
  <2> QED BY <2>1 DEF ChainInv
<1>11. ASSUME HandleFrame PROVE ChainInv'
  <2>1. UNCHANGED << host, link, stop >> /\ writer'.frame = writer.frame /\ writer'.unit = writer.unit /\ seqs'.wr = seqs.wr
    BY <1>11 DEF HandleFrame, Looping, LoopKeeps, TypeInv
  <2> QED BY <2>1 DEF ChainInv, Path, HostAt, WriterPos
<1>12. ASSUME Succeed PROVE ChainInv'
  <2>1. UNCHANGED << host, link, stop >> /\ writer'.frame = writer.frame /\ writer'.unit = writer.unit /\ seqs'.wr = seqs.wr
    BY <1>12 DEF Succeed, TypeInv
  <2> QED BY <2>1 DEF ChainInv, Path, HostAt, WriterPos
<1>13. ASSUME WriterTop PROVE ChainInv'
  <2>1. UNCHANGED << host, stop >> /\ writer'.frame = writer.frame /\ writer'.unit = writer.unit /\ seqs'.wr = seqs.wr /\ ~stop
    BY <1>13 DEF WriterTop, WriterKeeps, WriteControl, TypeInv
  <2>2. \/ link' = link
        \/ queue # << >> /\ link' = Append(link, Whole(TransportId(seqs.tr + 1), Head(queue)))
    BY <1>13 DEF WriterTop, WriterKeeps, WriteControl
  <2>3. WriterPos' = WriterPos
    BY <2>1 DEF WriterPos
  <2>4. CASE link' = link
    BY <2>1, <2>3, <2>4 DEF ChainInv, Path, HostAt
  <2>5. CASE queue # << >> /\ link' = Append(link, Whole(TransportId(seqs.tr + 1), Head(queue)))
    BY <2>1, <2>3, <2>5, ControlExtends
  <2> QED BY <2>2, <2>4, <2>5
<1>14. ASSUME Entry PROVE ChainInv'
  <2>1. UNCHANGED << host, stop >> /\ writer'.frame = writer.frame /\ writer'.unit = writer.unit /\ seqs'.wr = seqs.wr /\ ~stop
    BY <1>14 DEF Entry, Pass, Interleaves, WriterKeeps, WriteControl, TypeInv
  <2>2. \/ link' = link
        \/ queue # << >> /\ link' = Append(link, Whole(TransportId(seqs.tr + 1), Head(queue)))
    BY <1>14 DEF Entry, Pass, Interleaves, WriterKeeps, WriteControl
  <2>3. WriterPos' = WriterPos
    BY <2>1 DEF WriterPos
  <2>4. CASE link' = link
    BY <2>1, <2>3, <2>4 DEF ChainInv, Path, HostAt
  <2>5. CASE queue # << >> /\ link' = Append(link, Whole(TransportId(seqs.tr + 1), Head(queue)))
    BY <2>1, <2>3, <2>5, ControlExtends
  <2> QED BY <2>2, <2>4, <2>5
<1>15. ASSUME Lead PROVE ChainInv'
  <2>1. UNCHANGED << host, stop >> /\ writer'.frame = writer.frame /\ writer'.unit = writer.unit /\ seqs'.wr = seqs.wr /\ ~stop
    BY <1>15 DEF Lead, Pass, Interleaves, WriterKeeps, WriteControl, TypeInv
  <2>2. \/ link' = link
        \/ queue # << >> /\ link' = Append(link, Whole(TransportId(seqs.tr + 1), Head(queue)))
    BY <1>15 DEF Lead, Pass, Interleaves, WriterKeeps, WriteControl
  <2>3. WriterPos' = WriterPos
    BY <2>1 DEF WriterPos
  <2>4. CASE link' = link
    BY <2>1, <2>3, <2>4 DEF ChainInv, Path, HostAt
  <2>5. CASE queue # << >> /\ link' = Append(link, Whole(TransportId(seqs.tr + 1), Head(queue)))
    BY <2>1, <2>3, <2>5, ControlExtends
  <2> QED BY <2>2, <2>4, <2>5
<1>16. ASSUME WriteUnit PROVE ChainInv'
  <2> DEFINE n == writer.frame
             kind == log[n]
             new == IF kind # "small" /\ writer.unit = 1 THEN seqs.wr + 1 ELSE seqs.wr
             u == CASE kind = "small"      -> Whole(TransportId(seqs.tr + 1), Reliable(n))
                    [] kind = "compressed" -> Whole(<< "w", new >>, Reliable(n))
                    [] OTHER               -> Fragment(<< "w", new >>, writer.unit, Reliable(n))
  <2>1. UNCHANGED << host, stop >> /\ ~stop /\ writer.pc = "unit" /\ link' = Append(link, u)
    BY <1>16 DEF WriteUnit, Writing, WriterKeeps
  <2>2. seqs'.wr = new /\ writer' = IF kind = "large" /\ writer.unit < Units
                                    THEN [writer EXCEPT !.pc = "lead", !.unit = writer.unit + 1] ELSE NextFrame(n)
    BY <1>16 DEF WriteUnit, TypeInv
  <2>3. n \in Nat \ {0} /\ kind \in Kinds /\ new \in Nat /\ (writer.unit > 1 => kind = "large") /\ writer.unit \in 1 .. Units
        /\ seqs.tr + 1 \in Nat
    BY <2>1 DEF WriterInv, TypeInv
  <2>4. WriterPos = [n |-> n, off |-> writer.unit, id |-> seqs.wr]
    BY DEF WriterPos
  <2>5. writer.unit > 1 => new = seqs.wr
    BY <2>3
  <2> HIDE DEF new
  <2>6. u \in ReliableUnits \ ControlUnits /\ Carries(WriterPos, u, WriterPos')
    <3>1. CASE kind # "large"
      <4>1. writer'.frame = n + 1 /\ writer'.unit = 1 /\ writer.unit = 1
        BY <2>2, <2>3, <3>1 DEF NextFrame
      <4>2. WriterPos'.n = n + 1 /\ WriterPos'.off = 1
        BY <4>1 DEF WriterPos
      <4>3. PICK x \in {"t", "w"}, m \in Nat : u = Whole(<< x, m >>, Reliable(n))
        BY <2>3, <3>1 DEF Kinds, TransportId
      <4> HIDE DEF u, kind
      <4>4. u \in ReliableUnits
        BY <2>3, <4>3 DEF ReliableUnits
      <4>5. u.body = Reliable(n) /\ u.frag = FALSE
        BY <4>3 DEF Whole
      <4>6. u \notin ControlUnits
        BY <4>4, FrameTypes, ControlReceived
      <4> QED BY <2>4, <4>1, <4>2, <4>4, <4>5, <4>6 DEF Carries
    <3>2. CASE kind = "large"
      <4>1. u = Fragment(<< "w", new >>, writer.unit, Reliable(n))
        BY <3>2
      <4> HIDE DEF u, kind
      <4>2. u \in ReliableUnits
        BY <2>3, <4>1 DEF ReliableUnits
      <4>3. /\ u.body = Reliable(n) /\ u.frag = TRUE /\ u.off = writer.unit /\ u.id = << "w", new >>
            /\ u.last = (writer.unit = Units)
        BY <4>1 DEF Fragment
      <4>4. u \notin ControlUnits
        BY <4>2, FrameTypes, ControlReceived
      <4>5. CASE writer.unit < Units
        <5>1. writer'.frame = n /\ writer'.unit = writer.unit + 1
          BY <2>2, <3>2, <4>5 DEF TypeInv
        <5>2. WriterPos'.n = n /\ WriterPos'.off = writer.unit + 1 /\ WriterPos'.id = new
          BY <2>2, <5>1 DEF WriterPos
        <5>3. ~u.last
          BY <2>3, <4>1, <4>5, LastFragment
        <5> QED BY <2>4, <2>5, <4>2, <4>3, <4>4, <4>5, <5>2, <5>3 DEF Carries
      <4>6. CASE ~(writer.unit < Units)
        <5>1. writer'.frame = n + 1 /\ writer'.unit = 1
          BY <2>2, <4>6 DEF NextFrame
        <5>2. WriterPos'.n = n + 1 /\ WriterPos'.off = 1
          BY <5>1 DEF WriterPos
        <5>3. u.last
          BY <2>3, <4>1, <4>6, LastFragment, ControlAssumption
        <5> QED BY <2>4, <2>5, <4>2, <4>3, <4>4, <4>6, <5>2, <5>3 DEF Carries
      <4> QED BY <4>5, <4>6
    <3> QED BY <3>1, <3>2
  <2> HIDE DEF u
  <2>7. PICK pos \in Seq(Positions) : Path(pos)
    BY <2>1 DEF ChainInv
  <2>8. TypeInv' /\ WriterInv'
    BY TypeStep, WriterInvStep
  <2>9. PICK w \in Positions : w = WriterPos'
    BY <2>8 DEF TypeInv, WriterInv, WriterPos, Positions
  <2>10. Path(Append(pos, w))' /\ Append(pos, w) \in Seq(Positions)
    BY <2>1, <2>6, <2>7, <2>9, PathExtends, AppendProperties DEF LinkInv
  <2> QED BY <2>1, <2>10 DEF ChainInv
<1>17. ASSUME HostReceives PROVE ChainInv'
  <2> DEFINE u == Head(link)
  <2>1. UNCHANGED << writer, seqs, stop >> /\ link # << >> /\ link' = Tail(link)
    BY <1>17 DEF HostReceives, HostKeeps
  <2>2. ~stop
    BY <2>1 DEF ChainInv
  <2>3. PICK pos \in Seq(Positions) : Path(pos)
    BY <2>2 DEF ChainInv
  <2>4. 1 \in 1 .. Len(link) /\ Len(pos) = Len(link) + 1 /\ u = link[1] /\ u \in ControlUnits \cup ReliableUnits
    BY <2>1, <2>3 DEF LinkInv, Path
  <2>5. Carries(pos[1], u, pos[2]) /\ HostAt(pos[1]) /\ pos[1] \in Positions /\ pos[2] \in Positions
    <3>1. Carries(pos[1], link[1], pos[1 + 1])
      BY <2>3, <2>4 DEF Path
    <3>2. 1 \in 1 .. Len(pos) /\ 2 \in 1 .. Len(pos)
      BY <2>4
    <3> QED BY <2>3, <2>4, <3>1, <3>2 DEF Path
  <2>6. HostAt(pos[2])' /\ ~host'.broken /\ host'.got \in Nat
    BY <1>17, <2>4, <2>5, HostFollows DEF ChainInv
  <2>7. WriterPos' = WriterPos
    BY <2>1 DEF WriterPos
  <2>8. Path(Tail(pos))' /\ Tail(pos) \in Seq(Positions)
    BY <2>1, <2>3, <2>6, <2>7, PathShortens DEF LinkInv
  <2> QED BY <2>1, <2>2, <2>6, <2>8 DEF ChainInv
<1>18. ASSUME NEW k \in Kinds, AppendFrame(k) PROVE ChainInv'
  <2>1. UNCHANGED << host, link, stop >> /\ writer'.frame = writer.frame /\ writer'.unit = writer.unit /\ seqs'.wr = seqs.wr
    BY <1>18 DEF AppendFrame, WriterKeeps, TypeInv
  <2> QED BY <2>1 DEF ChainInv, Path, HostAt, WriterPos
<1>19. ASSUME NEW f \in {Probe(<< "host", hostProbes >>), Plain}, HostSends(f) PROVE ChainInv'
  <2>1. UNCHANGED << host, link, stop >> /\ writer'.frame = writer.frame /\ writer'.unit = writer.unit /\ seqs'.wr = seqs.wr
    BY <1>19 DEF HostSends, HostKeeps, TypeInv
  <2> QED BY <2>1 DEF ChainInv, Path, HostAt, WriterPos
<1>20. CASE UNCHANGED vars
  BY <1>20 DEF vars, ChainInv, Path, HostAt, WriterPos
<1> QED
  BY <1>1, <1>2, <1>3, <1>4, <1>5, <1>6, <1>7, <1>8, <1>9, <1>10, <1>11, <1>12, <1>13,
     <1>14, <1>15, <1>16, <1>17, <1>18, <1>19, <1>20 DEF Next, CallStep, LoopStep,
     WriterStep, Kinds

-----------------------------------------------------------------------------
(* The theorems. *)

\* The initial state satisfies the invariant: nothing is queued or sent, and the
\* host and the writer are both at the first unit of the first frame.
LEMMA InitControl == ASSUME Init PROVE ControlInv
<1> USE DEF Init
<1>1. TypeInv
  BY DEF TypeInv, CallPCs, Owning, Holding, None
<1>2. QueueInv /\ UpInv /\ LinkInv
  BY EmptySeq, ControlAssumption DEF QueueInv, UpInv, LinkInv
<1>3. HostInv
  BY DEF HostInv, NoReassembly
<1>4. WriterInv
  BY EmptySeq, ControlAssumption DEF WriterInv
<1>5. GroupInv /\ StreakInv
  BY DEF GroupInv, StreakInv, None
<1>6. AwaitedInv
  BY DEF AwaitedInv, Awaited, Groups, None
<1>7. ChainInv
  <2> DEFINE a == [n |-> 1, off |-> 1, id |-> 0]
             pos == << a >>
  <2>1. a \in Positions /\ a.n = 1 /\ a.off = 1 /\ a = WriterPos
    BY ControlAssumption DEF Positions, WriterPos
  <2> HIDE DEF a
  <2>2. pos \in Seq(Positions) /\ Len(pos) = 1 /\ pos[1] = a
    BY <2>1
  <2>3. link = << >> /\ Len(link) = 0
    OBVIOUS
  <2>4. HostAt(a)
    BY <2>1 DEF HostAt, NoReassembly
  <2> HIDE DEF pos
  <2>5. Path(pos)
    BY <2>1, <2>2, <2>3, <2>4 DEF Path
  <2> QED BY <2>2, <2>5 DEF ChainInv
<1> QED BY <1>1, <1>2, <1>3, <1>4, <1>5, <1>6, <1>7 DEF ControlInv

\* The inductive invariant, for the whole control plane.
THEOREM ControlInvariant == Spec => []ControlInv
<1>1. ControlInv /\ [Next]_vars => ControlInv'
  <2> SUFFICES ASSUME ControlInv, [Next]_vars PROVE ControlInv'
    OBVIOUS
  <2>1. TypeInv /\ QueueInv /\ UpInv /\ LinkInv /\ HostInv /\ WriterInv /\ GroupInv /\ StreakInv /\ AwaitedInv /\ ChainInv
    BY DEF ControlInv
  <2>2. TypeInv' /\ QueueInv' /\ WriterInv' /\ LinkInv'
    BY <2>1, TypeStep, QueueStep, WriterInvStep, LinkStep
  <2>3. UpInv' /\ HostInv' /\ GroupInv' /\ StreakInv'
    BY <2>1, UpStep, HostStep, GroupStep, StreakStep
  <2>4. AwaitedInv' /\ ChainInv'
    BY <2>1, AwaitedStep, ChainStep
  <2> QED BY <2>2, <2>3, <2>4 DEF ControlInv
<1> QED BY InitControl, <1>1, PTL DEF Spec

\* Control frames between the fragments of a large frame never break its
\* reassembly, whatever the number of units and frames: the units on the link lead
\* from where the host's reassembler is to where the writer is, and the ids that
\* the transport gives are never the writer's.
THEOREM FramesArriveIntact == Spec => []FramesIntact
<1>1. ControlInv => FramesIntact
  BY DEF ControlInv, ChainInv, FramesIntact
<1> QED BY <1>1, ControlInvariant, PTL

\* Nobody waits on a probe group that no one will close, for any number of calls.
THEOREM NobodyIsStranded == Spec => []JoinersNotStranded
<1>1. ControlInv => JoinersNotStranded
  BY DEF ControlInv, GroupInv, Owning, Holding, JoinersNotStranded
<1> QED BY <1>1, ControlInvariant, PTL

\* The probe that a caller waits for is in the queue, on the link or answered: only
\* a queue that holds nothing but probes drops one, for any depth of the queue.
THEOREM ProbesAreKept == Spec => []AwaitedProbeOnTheWay
<1>1. ASSUME ControlInv PROVE AwaitedProbeOnTheWay
  <2> SUFFICES ASSUME NEW g \in Groups, Awaited(g)
               PROVE  \/ Preflight(g) \in Nonces(queue) \cup LinkNonces \cup Nonces(up)
                      \/ Probe(Preflight(g)) \in evicted
    BY DEF AwaitedProbeOnTheWay, Awaited
  <2>1. OnItsWay(g)
    BY <1>1 DEF ControlInv, AwaitedInv
  <2>2. CASE InSeq(queue, Probe(Preflight(g)))
    BY <2>2 DEF InSeq, Nonces, Probe
  <2>3. CASE OnTheLink(Probe(Preflight(g)))
    <3>1. PICK i \in DOMAIN link : link[i].body = Probe(Preflight(g))
      BY <2>3 DEF OnTheLink, InSeq
    <3>2. link[i].body.type = "probe" /\ link[i].body.nonce = Preflight(g)
      BY <3>1 DEF Probe
    <3> QED BY <3>1, <3>2 DEF LinkNonces
  <2>4. CASE InSeq(up, ProbeAck(Preflight(g)))
    BY <2>4 DEF InSeq, Nonces, ProbeAck
  <2> QED BY <2>1, <2>2, <2>3, <2>4 DEF OnItsWay
<1> QED BY <1>1, ControlInvariant, PTL

\* A waiting control frame is passed by one unit of a large frame at most.
THEOREM OneUnitPasses == Spec => []ControlWaitsOneUnit
<1>1. ControlInv => ControlWaitsOneUnit
  BY DEF ControlInv, StreakInv, ControlWaitsOneUnit
<1> QED BY <1>1, ControlInvariant, PTL

=============================================================================
