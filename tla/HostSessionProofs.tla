-------------------------- MODULE HostSessionProofs -------------------------
(***************************************************************************)
(* Proofs about the uplink of one host, for any number of transports,      *)
(* epochs, events and hub restarts and any size of the queues: whoever     *)
(* serves the host is registered, the buffer can be searched and is thrown *)
(* away only after the whole grace period, a browser hears of an epoch     *)
(* before its events and gets them in order, and, without overlapping      *)
(* resumes, what the host was told to forget was ingested.                 *)
(***************************************************************************)
EXTENDS HostSession, TLAPS, WellFoundedInduction

Seqs  == 0 .. MaxSeq
Items == [kind : {"event", "reset"}, epoch : Epochs, seq : Seqs]
Runs  == {r \in Seqs \X Seqs : r[1] <= r[2]}

\* A receiver parks every seq under itself.
ReceiverOK(r) == /\ DOMAIN r = {"acked", "window", "buf"} /\ r.acked \in Seqs /\ DOMAIN r.buf \subseteq Seqs
                 /\ \A q \in DOMAIN r.buf : r.buf[q] = q

SessOK(r) == /\ DOMAIN r = {"pc", "epoch", "todo", "ready", "ack", "lastAckSent", "stop", "old"}
             /\ r.pc \in {"new", "attach", "hello", "idle", "accept", "gate", "buffer", "enqueue", "note",
                          "closing", "done"}
             /\ r.epoch \in Epochs \cup {0} /\ r.todo \in Seq(Seqs) /\ r.ready \in Seq(Seqs)
             /\ r.ack \in Seqs /\ r.lastAckSent \in Seqs

HostOK == /\ DOMAIN host = {"epoch", "base", "produced", "acked", "link", "sent"}
          /\ host.epoch \in Epochs /\ host.link \in Sessions \cup {None}
          /\ host.produced \in Seqs /\ host.acked \in Seqs /\ host.sent \in Seqs

RegOK == /\ DOMAIN reg = {"session", "epoch", "base", "upAcked", "evBufEpoch"}
         /\ reg.session \in Sessions \cup {None} /\ reg.epoch \in Epochs \cup {0}
         /\ reg.base \in Seqs /\ reg.upAcked \in Seqs /\ reg.evBufEpoch \in Nat

ProtoInv == DOMAIN proto = Epochs /\ \A e \in Epochs : ReceiverOK(proto[e])
SessInv  == DOMAIN sess = Sessions /\ \A s \in Sessions : SessOK(sess[s])
InboxOK  == DOMAIN inbox = Sessions /\ \A s \in Sessions : inbox[s] \in Seq(Runs)
AckOutOK == DOMAIN ackOut = Sessions /\ \A s \in Sessions : ackOut[s] \in Seqs
QueueOK  == queue \in Seq(Items) /\ drain \in Items \cup {NoItem} /\ started \in BOOLEAN
SeenOK   == DOMAIN seen = {"last", "before", "reset"} /\ seen.last \in Items \cup {NoItem}
RestOK   == lock \in Sessions \cup {None} /\ restarts \in Nat

TypeInv == /\ HostOK /\ RegOK /\ ProtoInv /\ SessInv /\ InboxOK /\ AckOutOK
           /\ evBuf \in Seq(Items) /\ QueueOK /\ SeenOK /\ RestOK

\* Transports are used in order; only an attach in its middle holds the lock, and
\* no session of the epoch it publishes exists; the registry names the newest
\* session, the only one of its epoch while no resume overlapped.
ServeInv ==
    /\ reg.epoch <= host.epoch
    /\ \A s, t \in Sessions : t < s /\ sess[s].pc # "new" => sess[t].pc # "new"
    /\ \A s \in Sessions : sess[s].pc = "attach" => lock = s
    /\ lock # None => /\ reg.epoch # 0 /\ sess[lock].pc = "attach"
                      /\ \A t \in Sessions : t > lock => sess[t].pc = "new"
    /\ \A s \in Sessions : Attached(s) => /\ sess[s].epoch \in Epochs /\ sess[s].epoch <= reg.epoch
                                          /\ lock # None => sess[s].epoch < reg.epoch
    /\ reg.session # None => /\ Attached(reg.session)
                             /\ lock = None => sess[reg.session].epoch = reg.epoch
    /\ OnlineWhileServed
    /\ reg.epoch \notin overlapped =>
           \A s \in Sessions : Attached(s) /\ sess[s].epoch = reg.epoch => reg.session = s

\* What the host was told is below the watermark of its epoch; no timer is from a
\* later pause than the registry's.
LinkInv ==
    /\ host.link # None => /\ sess[host.link].pc # "new"
                           /\ Attached(host.link) => sess[host.link].epoch = host.epoch
                           /\ lock = host.link => reg.epoch = host.epoch
    /\ \A s \in Sessions : Attached(s) => /\ ackOut[s] <= proto[sess[s].epoch].acked
                                          /\ sess[s].ack <= proto[sess[s].epoch].acked
    /\ reg.epoch = host.epoch => host.acked <= proto[host.epoch].acked
    /\ reg.epoch # 0 => reg.base <= proto[reg.epoch].acked
    /\ timers \subseteq 0 .. reg.evBufEpoch

\* A loop with accepted events that it has still to hand on.
Carrying(s) == sess[s].pc \in {"accept", "gate", "buffer", "enqueue"}

\* What a loop carries ascends to the watermark, and a run that has yielded
\* events has no gap in front of its rest.
LoopOK(s) ==
    /\ sess[s].pc \in {"gate", "buffer", "enqueue"} => sess[s].ready # << >>
    /\ Carrying(s) => /\ \A i, j \in DOMAIN sess[s].ready : i < j => sess[s].ready[i] < sess[s].ready[j]
                      /\ \A i \in DOMAIN sess[s].ready : sess[s].ready[i] <= proto[sess[s].epoch].acked
    /\ sess[s].pc = "accept" =>
           /\ sess[s].todo # << >>
           /\ \A i, j \in DOMAIN sess[s].todo : j = i + 1 => sess[s].todo[j] = sess[s].todo[i] + 1
           /\ sess[s].ready # << >> => Head(sess[s].todo) <= proto[sess[s].epoch].acked + 1

LoopInv == \A s \in Sessions : LoopOK(s)

\* The events of s that are not in the buffer yet.
Unbuffered(s) == IF sess[s].pc = "enqueue" THEN DOMAIN sess[s].ready \ {1} ELSE DOMAIN sess[s].ready

\* No event is carried by two loops ...
Apart(s, t) ==
    s # t /\ Carrying(s) /\ Carrying(t) /\ sess[s].epoch = sess[t].epoch =>
        \A i \in DOMAIN sess[s].ready, j \in DOMAIN sess[t].ready : sess[s].ready[i] # sess[t].ready[j]

\* ... or is still to be buffered though it was already.
Fresh(s) ==
    Carrying(s) /\ sess[s].epoch = reg.epoch =>
        \A i \in Unbuffered(s), j \in DOMAIN evBuf : evBuf[j].seq # sess[s].ready[i]

BufInv ==
    /\ GapPullSorted
    /\ lock = None => \A i \in DOMAIN evBuf : evBuf[i].seq <= proto[reg.epoch].acked
    /\ \A i, j \in DOMAIN evBuf : evBuf[i].epoch = evBuf[j].epoch
    /\ \A s, t \in Sessions : Apart(s, t)
    /\ \A s \in Sessions : Fresh(s)

\* Without overlapping resumes of the registered epoch, the registered session
\* carries the events behind Sent, those up to Reached are in the buffer.
Sole       == reg.epoch # 0 /\ reg.epoch \notin overlapped
Carrier(s) == s # None /\ sess[s].epoch = reg.epoch /\ Carrying(s)
Load       == IF Carrier(reg.session) THEN Len(sess[reg.session].ready) ELSE 0
Sent       == proto[reg.epoch].acked - Load
Reached    == IF Carrier(reg.session) /\ sess[reg.session].pc = "enqueue" THEN Sent + 1 ELSE Sent

\* The registered session carries the events right behind Sent.
LoadOK == Carrier(reg.session) =>
              \A i \in DOMAIN sess[reg.session].ready : sess[reg.session].ready[i] = Sent + i

RunOK ==
    /\ \A q \in (reg.base + 1) .. Reached : << reg.epoch, q >> \in ingested
    /\ reg.upAcked <= Reached
    /\ LoadOK
    /\ lock = None /\ evBuf # << >> => evBuf[Len(evBuf)].seq = Reached

RunInv == GapPullContiguous /\ (Sole => RunOK)

\* The reset of the registered epoch has been handed to the browser, is held by the
\* drain, or is in the queue in front of every event of the epoch.
Current(x) == x.epoch = reg.epoch
IsReset(x) == x.kind = "reset" /\ Current(x)
Announced  == seen.reset = reg.epoch \/ IsReset(drain)

ResetQueued == \E j \in DOMAIN queue : IsReset(queue[j]) /\ \A i \in 1 .. j - 1 : ~Current(queue[i])

ResetInv ==
    /\ ~started => queue = << >> /\ drain = NoItem
    /\ /\ drain.epoch <= reg.epoch /\ seen.reset <= reg.epoch /\ seen.last.epoch <= reg.epoch
       /\ \A i \in DOMAIN queue : queue[i].epoch <= reg.epoch
    /\ lock # None => /\ ~Current(drain) /\ seen.reset # reg.epoch /\ ~Current(seen.last)
                      /\ \A i \in DOMAIN queue : ~Current(queue[i])
    /\ seen.reset \in Nat
    /\ reg.epoch # 0 /\ seen.reset = reg.epoch => Current(seen.last) /\ (drain = NoItem \/ Current(drain))
    /\ drain.kind = "event" => drain.epoch \in unreset \/ drain.epoch = seen.reset
    /\ EventsFollowTheirReset
    /\ lock = None /\ reg.epoch # 0 /\ reg.epoch \notin unreset /\ ~Announced =>
           ResetQueued

\* What is queued, held and handed over of the registered epoch ascends to Sent.
OrderOK ==
    /\ \A i, j \in DOMAIN queue :
           i < j /\ Current(queue[i]) /\ Current(queue[j]) => queue[i].seq < queue[j].seq
    /\ \A i \in DOMAIN queue : Current(queue[i]) =>
           /\ queue[i].seq <= Sent
           /\ Current(drain) => drain.seq < queue[i].seq
           /\ seen.reset = reg.epoch => seen.last.seq < queue[i].seq
    /\ Current(drain) => drain.seq <= Sent
    /\ Current(seen.last) => seen.last.seq <= Sent

OrderInv ==
    /\ lock = None /\ Sole /\ reg.epoch \notin unreset => OrderOK
    /\ drain.kind = "event" => drain.epoch \in overlapped \cup unreset \/ seen.last.seq < drain.seq
    /\ SeenInOrder

\* Without an epoch the mirrored watermark is 0.
IdleInv == reg.epoch = 0 => reg.upAcked = 0

HostSessionInv == /\ TypeInv /\ ServeInv /\ LinkInv /\ LoopInv /\ BufInv /\ RunInv /\ ResetInv /\ OrderInv
                  /\ IdleInv

-----------------------------------------------------------------------------
(* What a step may do to the session loops. *)

\* Session t as far as the invariant sees it stays the same.
Same(t) == /\ sess'[t].pc = sess[t].pc /\ sess'[t].epoch = sess[t].epoch /\ sess'[t].todo = sess[t].todo
           /\ sess'[t].ready = sess[t].ready /\ sess'[t].ack = sess[t].ack

\* Only s moves on, within its epoch.
Moves(s, pc, todo, ready, ack) ==
    /\ \A t \in Sessions \ {s} : Same(t)
    /\ sess'[s].pc = pc /\ sess'[s].epoch = sess[s].epoch /\ sess'[s].todo = todo
    /\ sess'[s].ready = ready /\ sess'[s].ack = ack

\* Only s changes: it begins or ends.
Begins(s, pc, epoch) ==
    /\ \A t \in Sessions \ {s} : Same(t)
    /\ sess'[s].pc = pc /\ sess'[s].epoch = epoch /\ sess'[s].todo = << >>
    /\ sess'[s].ready = << >> /\ sess'[s].ack = 0

-----------------------------------------------------------------------------
(* The operators of the model. *)

\* The bounds of the model are natural numbers; no epoch or session is 0.
LEMMA Bounds ==
  /\ {MaxSessions, MaxEpoch, MaxInbox, QueueCap, BufCap} \subseteq Nat \ {0} /\ {MaxSeq, MaxRestarts, BufHighWater} \subseteq Nat
  /\ BufCap <= BufHighWater /\ None = 0
  /\ Sessions \subseteq Nat \ {0} /\ Epochs \subseteq Nat \ {0} /\ Seqs \subseteq Nat /\ 0 \in Seqs /\ 1 \in Epochs
BY HostSessionAssumption DEF Sessions, Epochs, Seqs, None

\* A nonempty set of naturals has a least element.
LEMMA LeastElement ==
  ASSUME NEW T \in SUBSET Nat, T # {}
  PROVE  \E m \in T : \A k \in T : m <= k
<1> DEFINE R == OpToRel(<, Nat)
<1>1. IsWellFoundedOn(R, Nat)
  BY NatLessThanWellFounded
<1>2. \A x, y \in Nat : << y, x >> \in R <=> y < x
  BY DEF OpToRel
<1> HIDE DEF R
<1>3. PICK m \in T : \A k \in T : ~(<< k, m >> \in R)
  BY <1>1, WFMin
<1>4. \A k \in T : m \in Nat /\ k \in Nat /\ ~(k < m)
  BY <1>2, <1>3
<1> QED BY <1>4

\* RunEnd is the end of the parked run behind n.
LEMMA RunEndIsEndOfRun ==
  ASSUME NEW buf, NEW n \in Seqs, DOMAIN buf \subseteq Seqs
  PROVE  LET k == RunEnd(buf, n)
         IN  k \in Seqs /\ n <= k /\ \A q \in (n + 1) .. k : q \in DOMAIN buf
<1> DEFINE Missing == {m \in Nat : m > n /\ m \notin DOMAIN buf}
           Good(k) == n <= k /\ (n + 1) .. k \subseteq DOMAIN buf /\ k + 1 \notin DOMAIN buf
<1>0. MaxSeq \in Nat /\ n \in Nat
  BY Bounds DEF Seqs
<1>1. Missing \in SUBSET Nat /\ MaxSeq + 1 \in Missing
  BY <1>0 DEF Seqs
<1>2. PICK m \in Missing : \A j \in Missing : m <= j
  BY <1>1, LeastElement
<1>3. m \in Nat /\ n < m /\ m \notin DOMAIN buf
  BY <1>2
<1>4. (n + 1) .. (m - 1) \subseteq DOMAIN buf
  BY <1>0, <1>2, <1>3
<1>5. m - 1 \in {n} \cup DOMAIN buf /\ Good(m - 1)
  BY <1>0, <1>3, <1>4
<1>6. \E k \in {n} \cup DOMAIN buf : Good(k)
  BY <1>5
<1>7. RunEnd(buf, n) \in {n} \cup DOMAIN buf /\ Good(RunEnd(buf, n))
  BY <1>6 DEF RunEnd
<1> QED BY <1>7

\* Accept moves the watermark over exactly the events it hands on.
LEMMA AcceptOK ==
  ASSUME NEW r, ReceiverOK(r), NEW q \in Seqs
  PROVE  LET a == AcceptReceiver(r, q, q)
             g == AcceptReady(r, q, q)
         IN  /\ ReceiverOK(a) /\ r.acked <= a.acked
             /\ g \in Seq(Seqs) /\ Len(g) = a.acked - r.acked
             /\ \A i \in 1 .. Len(g) : g[i] = r.acked + i
             /\ q <= r.acked + 1 => q <= a.acked
             /\ g # << >> => q = r.acked + 1
<1> DEFINE a == AcceptReceiver(r, q, q)
           g == AcceptReady(r, q, q)
<1>0. MaxSeq \in Nat /\ r.acked \in Nat /\ q \in Nat /\ Seqs \subseteq Nat
  BY Bounds DEF ReceiverOK, Seqs
<1>1. CASE IsNext(r, q)
  <2> DEFINE k == RunEnd(r.buf, q)
  <2>1. k \in Seqs /\ q <= k /\ \A d \in (q + 1) .. k : d \in DOMAIN r.buf
    BY RunEndIsEndOfRun DEF ReceiverOK
  <2>2. q = r.acked + 1
    BY <1>1 DEF IsNext
  <2>3. a = [acked |-> k, window |-> r.window, buf |-> [z \in {d \in DOMAIN r.buf : d > k} |-> r.buf[z]]]
    BY <1>1 DEF AcceptReceiver, DrainBehind
  <2>4. g = [i \in 1 .. (k - q + 1) |-> IF i = 1 THEN q ELSE r.buf[q + i - 1]]
    BY <1>1 DEF AcceptReady
  <2> HIDE DEF k, a, g
  <2>5. ReceiverOK(a) /\ a.acked = k
    BY <2>1, <2>3 DEF ReceiverOK
  <2>6. k - q + 1 \in Nat /\ k \in Nat
    BY <1>0, <2>1
  <2>7. \A i \in 1 .. (k - q + 1) : g[i] = r.acked + i
    <3> SUFFICES ASSUME NEW i \in 1 .. (k - q + 1) PROVE g[i] = r.acked + i
      OBVIOUS
    <3>1. CASE i = 1
      BY <2>2, <2>4, <3>1
    <3>2. CASE i # 1
      <4>1. q + i - 1 \in (q + 1) .. k
        BY <1>0, <2>6, <3>2
      <4>2. r.buf[q + i - 1] = q + i - 1
        BY <2>1, <4>1 DEF ReceiverOK
      <4>3. g[i] = q + i - 1
        BY <2>4, <3>2, <4>2
      <4> QED BY <1>0, <2>2, <4>3
    <3> QED BY <3>1, <3>2
  <2>8. \A i \in 1 .. (k - q + 1) : g[i] \in Seqs
    BY <1>0, <2>1, <2>2, <2>6, <2>7 DEF Seqs
  <2>9. g \in [1 .. (k - q + 1) -> Seqs]
    BY <2>4, <2>8
  <2>10. g \in Seq(Seqs) /\ Len(g) = k - q + 1
    BY <2>6, <2>9
  <2> QED BY <1>0, <2>1, <2>2, <2>5, <2>6, <2>7, <2>10 DEF a, g
<1>2. CASE ~IsNext(r, q)
  <2>1. g = << >>
    BY <1>2 DEF AcceptReady
  <2>2. ReceiverOK(a) /\ a.acked = r.acked
    <3>1. CASE IsGap(r, q) /\ ~Overflows(r, q)
      <4>1. a = [acked |-> r.acked, window |-> r.window,
                 buf |-> [z \in DOMAIN r.buf \cup {q} |-> IF z = q THEN q ELSE r.buf[z]]]
        BY <1>2, <3>1 DEF AcceptReceiver, Park
      <4> HIDE DEF a
      <4> QED BY <4>1 DEF ReceiverOK
    <3>2. CASE ~(IsGap(r, q) /\ ~Overflows(r, q))
      BY <1>2, <3>2 DEF AcceptReceiver
    <3> QED BY <3>1, <3>2
  <2>3. q <= r.acked + 1 => q <= r.acked
    BY <1>0, <1>2 DEF IsNext
  <2> HIDE DEF a, g
  <2>4. g \in Seq(Seqs) /\ Len(g) = 0
    BY <2>1
  <2> QED BY <1>0, <2>1, <2>2, <2>3, <2>4 DEF a, g
<1> QED BY <1>1, <1>2

\* Concatenation, element by element.
LEMMA ConcatOK ==
  ASSUME NEW S, NEW u \in Seq(S), NEW v \in Seq(S)
  PROVE  /\ u \o v \in Seq(S) /\ Len(u \o v) = Len(u) + Len(v)
         /\ \A i \in 1 .. Len(u) : (u \o v)[i] = u[i]
         /\ \A i \in 1 .. Len(v) : (u \o v)[Len(u) + i] = v[i]
<1>1. u \o v \in Seq(S) /\ Len(u \o v) = Len(u) + Len(v)
  OBVIOUS
<1>2. Len(u) \in Nat /\ Len(v) \in Nat
  OBVIOUS
<1>3. \A i \in 1 .. Len(u) + Len(v) : (u \o v)[i] = IF i <= Len(u) THEN u[i] ELSE v[i - Len(u)]
  OBVIOUS
<1>4. \A i \in 1 .. Len(u) : (u \o v)[i] = u[i]
  BY <1>2, <1>3
<1>5. ASSUME NEW i \in 1 .. Len(v) PROVE (u \o v)[Len(u) + i] = v[i]
  <2>1. Len(u) + i \in 1 .. Len(u) + Len(v) /\ ~(Len(u) + i <= Len(u)) /\ Len(u) + i - Len(u) = i
    BY <1>2
  <2> QED BY <1>3, <2>1
<1> QED BY <1>1, <1>4, <1>5

\* c is buf with x put at a place, what was there and behind it shifted.
Inserted(c, buf, at, x) ==
    /\ c \in Seq(Items) /\ Len(c) = Len(buf) + 1 /\ c[at] = x
    /\ \A i \in 1 .. at - 1 : c[i] = buf[i]
    /\ \A i \in at + 1 .. Len(buf) + 1 : c[i] = buf[i - 1]

\* InsertAt inserts.
LEMMA InsertAtOK ==
  ASSUME NEW buf \in Seq(Items), NEW at \in 1 .. Len(buf) + 1, NEW x \in Items, NEW c, c = InsertAt(buf, at, x)
  PROVE  Inserted(c, buf, at, x)
<1> DEFINE l == SubSeq(buf, 1, at - 1)
           m == << x >>
           r == SubSeq(buf, at, Len(buf))
<1>1. Len(buf) \in Nat
  OBVIOUS
<1>2. l \in Seq(Items) /\ Len(l) = at - 1 /\ \A i \in 1 .. at - 1 : l[i] = buf[i]
  BY <1>1
<1>3. r \in Seq(Items) /\ Len(r) = Len(buf) - at + 1 /\ \A i \in 1 .. Len(buf) - at + 1 : r[i] = buf[at + i - 1]
  BY <1>1
<1>4. m \in Seq(Items) /\ Len(m) = 1 /\ m[1] = x
  OBVIOUS
<1> HIDE DEF l, m, r
<1>5. l \in Seq(Items) /\ m \in Seq(Items)
  BY <1>2, <1>4
<1>6. PICK n : n = l \o m
  OBVIOUS
<1>7. /\ n \in Seq(Items) /\ Len(n) = Len(l) + Len(m) /\ \A i \in 1 .. Len(l) : n[i] = l[i]
      /\ \A i \in 1 .. Len(m) : n[Len(l) + i] = m[i]
  BY <1>5, <1>6, ConcatOK
<1>8. n \in Seq(Items) /\ Len(n) = at /\ n[at] = x /\ \A i \in 1 .. at - 1 : n[i] = buf[i]
  <2>0. 1 \in 1 .. Len(m)
    BY <1>4
  <2>1. n[Len(l) + 1] = m[1]
    BY <1>7, <2>0
  <2>2. at \in Nat /\ at - 1 + 1 = at
    BY <1>1
  <2> QED BY <1>2, <1>4, <1>7, <2>1, <2>2
<1>9. c = n \o r
  BY <1>6 DEF InsertAt, l, m, r
<1>10. /\ c \in Seq(Items) /\ Len(c) = Len(n) + Len(r)
       /\ \A i \in 1 .. Len(n) : c[i] = n[i]
       /\ \A i \in 1 .. Len(r) : c[Len(n) + i] = r[i]
  BY <1>3, <1>8, <1>9, ConcatOK
<1>11. Len(c) = Len(buf) + 1 /\ c[at] = x /\ \A i \in 1 .. at - 1 : c[i] = buf[i]
  <2>1. at \in Nat /\ at + (Len(buf) - at + 1) = Len(buf) + 1 /\ at \in 1 .. at
    BY <1>1
  <2>2. \A i \in 1 .. at - 1 : i \in 1 .. at
    BY <2>1
  <2> QED BY <1>3, <1>8, <1>10, <2>1, <2>2
<1>12. \A i \in at + 1 .. Len(buf) + 1 : c[i] = buf[i - 1]
  <2> SUFFICES ASSUME NEW i \in at + 1 .. Len(buf) + 1 PROVE c[i] = buf[i - 1]
    OBVIOUS
  <2>1. i - at \in 1 .. Len(buf) - at + 1 /\ at + (i - at) - 1 = i - 1 /\ at + (i - at) = i
    BY <1>1
  <2>2. c[at + (i - at)] = r[i - at]
    BY <1>3, <1>8, <1>10, <2>1
  <2>3. r[i - at] = buf[at + (i - at) - 1]
    BY <1>3, <2>1
  <2> QED BY <2>1, <2>2, <2>3
<1> QED BY <1>10, <1>11, <1>12 DEF Inserted

\* Compaction keeps a suffix, never an empty one.
LEMMA CompactedOK ==
  ASSUME NEW buf \in Seq(Items), buf # << >>
  PROVE  LET b == Compacted(buf)
             k == Len(buf) - Len(b)
         IN  b \in Seq(Items) /\ b # << >> /\ k \in Nat /\ \A i \in 1 .. Len(b) : b[i] = buf[i + k]
<1>1. CASE Len(buf) > BufHighWater
  <2> DEFINE m == Len(buf) - BufCap + 1
  <2>1. m \in 1 .. Len(buf) /\ Len(buf) \in Nat /\ BufCap \in Nat \ {0}
    BY <1>1, Bounds
  <2>2. Compacted(buf) = SubSeq(buf, m, Len(buf))
    BY <1>1 DEF Compacted
  <2>3. SubSeq(buf, m, Len(buf)) \in Seq(Items) /\ Len(SubSeq(buf, m, Len(buf))) = BufCap
    BY <2>1
  <2>4. \A i \in 1 .. BufCap : SubSeq(buf, m, Len(buf))[i] = buf[m + i - 1]
    BY <2>1
  <2> DEFINE b == SubSeq(buf, m, Len(buf))
  <2> HIDE DEF b, m
  <2>5. Len(buf) - BufCap \in Nat /\ m = Len(buf) - BufCap + 1 
    BY <2>1 DEF m
  <2>6. \A i \in 1 .. BufCap : b[i] = buf[i + (Len(buf) - BufCap)]
    <3> SUFFICES ASSUME NEW i \in 1 .. BufCap PROVE b[i] = buf[i + (Len(buf) - BufCap)]
      OBVIOUS
    <3>1. m + i - 1 = i + (Len(buf) - BufCap)
      BY <2>1, <2>5
    <3> QED BY <2>4, <3>1 DEF b
  <2>7. b # << >> /\ Len(buf) - Len(b) = Len(buf) - BufCap
    BY <2>1, <2>3 DEF b
  <2> QED BY <2>2, <2>3, <2>5, <2>6, <2>7 DEF b
<1>2. CASE ~(Len(buf) > BufHighWater)
  BY <1>2 DEF Compacted
<1> QED BY <1>1, <1>2

\* bufferEventLocked keeps the buffer sorted.
LEMMA BufferEventOK ==
  ASSUME NEW buf \in Seq(Items), NEW e \in Epochs, NEW q \in Seqs,
         \A i, j \in DOMAIN buf : i < j => buf[i].seq < buf[j].seq,
         \A i \in DOMAIN buf : buf[i].seq # q
  PROVE  LET b == BufferEvent(buf, e, q)
         IN  /\ b \in Seq(Items) /\ b # << >>
             /\ \A i, j \in DOMAIN b : i < j => b[i].seq < b[j].seq
             /\ \A i \in DOMAIN b : b[i] = EventItem(e, q) \/ \E j \in DOMAIN buf : b[i] = buf[j]
<1> DEFINE above == {i \in DOMAIN buf : buf[i].seq > q}
           at == IF above = {} THEN Len(buf) + 1 ELSE CHOOSE i \in above : \A j \in above : i <= j
           x == EventItem(e, q)
           c == InsertAt(buf, at, x)
<1>1. x \in Items /\ x.seq = q
  BY DEF EventItem, Items
<1>2. /\ Len(buf) \in Nat /\ DOMAIN buf = 1 .. Len(buf) /\ q \in Nat
      /\ \A i \in DOMAIN buf : buf[i] \in Items /\ buf[i].seq \in Nat
  <2>1. \A y \in Items : y.seq \in Nat
    BY Bounds DEF Items
  <2> QED BY <2>1, Bounds
<1>3. at \in 1 .. (Len(buf) + 1) /\ (\A i \in 1 .. at - 1 : buf[i].seq < q) /\ \A i \in at .. Len(buf) : q < buf[i].seq
  <2>1. CASE above = {}
    BY <1>2, <2>1
  <2>2. CASE above # {}
    <3>1. above \in SUBSET Nat
      BY <1>2
    <3>2. \E i \in above : \A j \in above : i <= j
      BY <2>2, <3>1, LeastElement
    <3>3. at \in above /\ \A j \in above : at <= j
      BY <2>2, <3>2
    <3> HIDE DEF at
    <3>4. at \in 1 .. Len(buf) /\ q < buf[at].seq
      BY <1>2, <3>3
    <3>5. \A i \in 1 .. at - 1 : buf[i].seq < q
      BY <1>2, <3>3
    <3>6. \A i \in at .. Len(buf) : q < buf[i].seq
      <4> SUFFICES ASSUME NEW i \in at .. Len(buf), i # at PROVE q < buf[i].seq
        BY <3>4
      <4>1. i \in 1 .. Len(buf) /\ at < i
        BY <1>2, <3>4
      <4>2. buf[at].seq < buf[i].seq
        BY <1>2, <3>4, <4>1
      <4> QED BY <1>2, <3>4, <4>1, <4>2
    <3> QED BY <1>2, <3>4, <3>5, <3>6
  <2> QED BY <2>1, <2>2
<1> HIDE DEF above, at, x, c
<1>4. /\ c \in Seq(Items) /\ Len(c) = Len(buf) + 1 /\ c[at] = x
      /\ \A i \in 1 .. at - 1 : c[i] = buf[i]
      /\ \A i \in at + 1 .. Len(buf) + 1 : c[i] = buf[i - 1]
  <2>1. c = InsertAt(buf, at, x)
    BY DEF c
  <2>2. at \in 1 .. Len(buf) + 1 /\ x \in Items
    BY <1>1, <1>3
  <2>3. Inserted(c, buf, at, x)
    BY <2>1, <2>2, InsertAtOK
  <2> QED BY <2>3 DEF Inserted
<1>5. \A i, j \in 1 .. Len(c) : i < j => c[i].seq < c[j].seq
  <2> SUFFICES ASSUME NEW i \in 1 .. Len(c), NEW j \in 1 .. Len(c), i < j PROVE c[i].seq < c[j].seq
    OBVIOUS
  <2>1. CASE j \in 1 .. at - 1
    <3>1. i \in 1 .. at - 1 /\ i \in 1 .. Len(buf) /\ j \in 1 .. Len(buf)
      BY <1>2, <1>3, <1>4, <2>1
    <3> QED BY <1>2, <1>4, <2>1, <3>1
  <2>2. CASE j = at
    <3>1. i \in 1 .. at - 1
      BY <1>2, <1>3, <2>2
    <3> QED BY <1>1, <1>3, <1>4, <2>2, <3>1
  <2>3. CASE j \in at + 1 .. Len(buf) + 1
    <3>1. j - 1 \in at .. Len(buf) /\ j - 1 \in 1 .. Len(buf) /\ c[j] = buf[j - 1]
      BY <1>2, <1>3, <1>4, <2>3
    <3>2. CASE i \in 1 .. at - 1
      <4>1. i \in 1 .. Len(buf) /\ i < j - 1
        BY <1>2, <1>3, <2>3, <3>2
      <4> QED BY <1>2, <1>4, <3>1, <3>2, <4>1
    <3>3. CASE i = at
      BY <1>1, <1>3, <1>4, <3>1, <3>3
    <3>4. CASE i \in at + 1 .. Len(buf) + 1
      <4>1. i - 1 \in 1 .. Len(buf) /\ i - 1 < j - 1 /\ c[i] = buf[i - 1]
        BY <1>2, <1>3, <1>4, <3>4
      <4> QED BY <1>2, <3>1, <4>1
    <3> QED BY <1>2, <1>3, <1>4, <3>2, <3>3, <3>4
  <2> QED BY <1>2, <1>3, <1>4, <2>1, <2>2, <2>3
<1>6. \A i \in 1 .. Len(c) : c[i] = x \/ \E j \in DOMAIN buf : c[i] = buf[j]
  <2> SUFFICES ASSUME NEW i \in 1 .. Len(c), c[i] # x PROVE \E j \in DOMAIN buf : c[i] = buf[j]
    OBVIOUS
  <2>1. CASE i \in 1 .. at - 1
    BY <1>2, <1>3, <1>4, <2>1
  <2>2. CASE i \in at + 1 .. Len(buf) + 1
    BY <1>2, <1>3, <1>4, <2>2
  <2>3. i = at \/ i \in 1 .. at - 1 \/ i \in at + 1 .. Len(buf) + 1
    BY <1>2, <1>3, <1>4
  <2> QED BY <1>4, <2>1, <2>2, <2>3
<1>7. c # << >> /\ BufferEvent(buf, e, q) = Compacted(c)
  BY <1>2, <1>4, SMTT(60) DEF BufferEvent, c, at, above, x
<1> DEFINE b == Compacted(c)
           k == Len(c) - Len(b)
<1>8. b \in Seq(Items) /\ b # << >> /\ k \in Nat /\ \A i \in 1 .. Len(b) : b[i] = c[i + k]
  BY <1>4, <1>7, CompactedOK
<1> HIDE DEF b
<1>9. \A i \in 1 .. Len(b) : i + k \in 1 .. Len(c)
  BY <1>4, <1>8
<1>10. \A i, j \in 1 .. Len(b) : i < j => b[i].seq < b[j].seq
  <2> SUFFICES ASSUME NEW i \in 1 .. Len(b), NEW j \in 1 .. Len(b), i < j PROVE b[i].seq < b[j].seq
    OBVIOUS
  <2>1. i + k \in 1 .. Len(c) /\ j + k \in 1 .. Len(c) /\ i + k < j + k
    BY <1>8, <1>9
  <2>2. c[i + k].seq < c[j + k].seq
    BY <1>5, <2>1
  <2> QED BY <1>8, <2>2
<1>11. \A i \in 1 .. Len(b) : b[i] = x \/ \E j \in DOMAIN buf : b[i] = buf[j]
  BY <1>6, <1>8, <1>9
<1>12. DOMAIN b = 1 .. Len(b)
  BY <1>8
<1> QED BY <1>7, <1>8, <1>10, <1>11, <1>12 DEF b, x

\* An event above all others goes to the end, behind a suffix of the buffer.
LEMMA BufferEventAtEnd ==
  ASSUME NEW buf \in Seq(Items), NEW e \in Epochs, NEW q \in Seqs, \A i \in DOMAIN buf : buf[i].seq < q
  PROVE  LET b == BufferEvent(buf, e, q)
             k == Len(buf) + 1 - Len(b)
         IN  /\ b \in Seq(Items) /\ b # << >> /\ k \in Nat /\ b[Len(b)] = EventItem(e, q)
             /\ \A i \in 1 .. Len(b) - 1 : i + k \in DOMAIN buf /\ b[i] = buf[i + k]
<1> DEFINE above == {i \in DOMAIN buf : buf[i].seq > q}
           x == EventItem(e, q)
           c == InsertAt(buf, Len(buf) + 1, x)
<1>1. x \in Items
  BY DEF EventItem, Items
<1>2. /\ Len(buf) \in Nat /\ DOMAIN buf = 1 .. Len(buf) /\ q \in Nat
      /\ \A i \in DOMAIN buf : buf[i] \in Items /\ buf[i].seq \in Nat
  <2>1. \A y \in Items : y.seq \in Nat
    BY Bounds DEF Items
  <2> QED BY <2>1, Bounds
<1>3. above = {}
  BY <1>2
<1> HIDE DEF x
<1>4. c \in Seq(Items) /\ Len(c) = Len(buf) + 1 /\ c[Len(buf) + 1] = x /\ \A i \in 1 .. Len(buf) : c[i] = buf[i]
  <2>1. Len(buf) + 1 \in 1 .. Len(buf) + 1
    BY <1>2
  <2>2. Len(buf) + 1 - 1 = Len(buf)
    BY <1>2
  <2> HIDE DEF above
  <2> DEFINE n == Len(buf) + 1
  <2>3. c = InsertAt(buf, n, x)
    BY DEF n
  <2> HIDE DEF n, c
  <2>4. n \in 1 .. Len(buf) + 1
    BY <2>1 DEF n
  <2>5. Inserted(c, buf, n, x)
    BY <1>1, <2>3, <2>4, InsertAtOK
  <2>6. c \in Seq(Items) /\ Len(c) = Len(buf) + 1 /\ c[n] = x /\ \A i \in 1 .. n - 1 : c[i] = buf[i]
    BY <2>5 DEF Inserted
  <2> QED BY <2>2, <2>6 DEF n
<1>5. BufferEvent(buf, e, q) = Compacted(c)
  BY <1>3 DEF BufferEvent, x
<1> HIDE DEF c, above
<1>6. c # << >>
  BY <1>2, <1>4
<1> DEFINE b == Compacted(c)
           k == Len(c) - Len(b)
<1>7. b \in Seq(Items) /\ b # << >> /\ k \in Nat /\ \A i \in 1 .. Len(b) : b[i] = c[i + k]
  BY <1>4, <1>6, CompactedOK
<1> HIDE DEF b
<1>8. Len(b) \in 1 .. Len(c) /\ Len(b) + k = Len(c)
  BY <1>4, <1>7
<1>9. b[Len(b)] = x
  BY <1>2, <1>4, <1>7, <1>8
<1>10. \A i \in 1 .. Len(b) - 1 : i + k \in 1 .. Len(buf) /\ b[i] = buf[i + k]
  <2> SUFFICES ASSUME NEW i \in 1 .. Len(b) - 1 PROVE i + k \in 1 .. Len(buf) /\ b[i] = buf[i + k]
    OBVIOUS
  <2>1. i \in 1 .. Len(b) /\ i + k \in 1 .. Len(buf)
    BY <1>2, <1>4, <1>7, <1>8
  <2> QED BY <1>4, <1>7, <2>1
<1> QED BY <1>2, <1>4, <1>5, <1>7, <1>9, <1>10 DEF b, x

-----------------------------------------------------------------------------
(* The effect of each step of a loop. *)

\* The record of a session that begins or has ended.
LEMMA NewSessionOK ==
  ASSUME NEW p \in {"hello", "done"}, NEW e \in Epochs \cup {0}, NEW o
  PROVE  LET r == [NewSession EXCEPT !.pc = p, !.epoch = e, !.old = o]
             d == [NewSession EXCEPT !.pc = p]
         IN  /\ SessOK(r) /\ r.pc = p /\ r.epoch = e /\ r.todo = << >> /\ r.ready = << >> /\ r.ack = 0
             /\ SessOK(d) /\ d.pc = p /\ d.epoch = 0 /\ d.todo = << >> /\ d.ready = << >> /\ d.ack = 0
BY Bounds DEF NewSession, SessOK

\* A session is replaced.
LEMMA SessChange ==
  ASSUME SessInv, NEW s \in Sessions, NEW r, SessOK(r), sess' = [sess EXCEPT ![s] = r]
  PROVE  SessInv' /\ sess'[s] = r /\ \A t \in Sessions \ {s} : Same(t)
BY DEF SessInv, SessOK, Same

\* Only its program counter moves.
LEMMA PcChange ==
  ASSUME SessInv, NEW s \in Sessions, NEW p \in {"attach", "closing", "buffer", "enqueue", "idle"},
         sess' = [sess EXCEPT ![s].pc = p]
  PROVE  SessInv' /\ Moves(s, p, sess[s].todo, sess[s].ready, sess[s].ack)
<1> DEFINE r == [sess[s] EXCEPT !.pc = p]
<1>1. /\ SessOK(r) /\ r.pc = p /\ r.epoch = sess[s].epoch /\ r.todo = sess[s].todo
      /\ r.ready = sess[s].ready /\ r.ack = sess[s].ack
  BY DEF SessInv, SessOK
<1>2. sess' = [sess EXCEPT ![s] = r]
  OBVIOUS
<1> HIDE DEF r
<1> QED BY <1>1, <1>2, SessChange DEF Moves

\* A resume begins a session of the host's epoch.
LEMMA AttachResumeBegins ==
  ASSUME TypeInv, NEW s \in Sessions, AttachResume(s)
  PROVE  SessInv' /\ Begins(s, "hello", host.epoch)
<1>1. sess' = [sess EXCEPT ![s] = [NewSession EXCEPT !.pc = "hello", !.epoch = host.epoch, !.old = reg.session]]
  BY DEF AttachResume, InstallSession
<1>2. host.epoch \in Epochs \cup {0}
  BY DEF TypeInv, HostOK
<1> DEFINE r == [NewSession EXCEPT !.pc = "hello", !.epoch = host.epoch, !.old = reg.session]
<1>3. SessOK(r) /\ r.pc = "hello" /\ r.epoch = host.epoch /\ r.todo = << >> /\ r.ready = << >> /\ r.ack = 0
  BY <1>2, Bounds DEF NewSession, SessOK
<1> HIDE DEF r
<1>4. sess' = [sess EXCEPT ![s] = r]
  BY <1>1 DEF r
<1> QED BY <1>3, <1>4, SessChange DEF Begins, TypeInv

\* The first half of the attach of a new epoch takes the session to the lock.
LEMMA AttachNewEpochMoves ==
  ASSUME TypeInv, NEW s \in Sessions, AttachNewEpoch(s)
  PROVE  SessInv' /\ Moves(s, "attach", sess[s].todo, sess[s].ready, sess[s].ack)
<1>1. sess' = [sess EXCEPT ![s].pc = "attach"]
  BY DEF AttachNewEpoch
<1> QED BY <1>1, PcChange DEF TypeInv

\* Its second half begins a session of the published epoch.
LEMMA AttachFinishBegins ==
  ASSUME TypeInv, NEW s \in Sessions, AttachFinish(s)
  PROVE  SessInv' /\ Begins(s, "hello", reg.epoch)
<1>1. sess' = [sess EXCEPT ![s] = [NewSession EXCEPT !.pc = "hello", !.epoch = reg.epoch, !.old = reg.session]]
  BY DEF AttachFinish
<1>2. reg.epoch \in Epochs \cup {0}
  BY DEF TypeInv, RegOK
<1> DEFINE r == [NewSession EXCEPT !.pc = "hello", !.epoch = reg.epoch, !.old = reg.session]
<1>3. SessOK(r) /\ r.pc = "hello" /\ r.epoch = reg.epoch /\ r.todo = << >> /\ r.ready = << >> /\ r.ack = 0
  BY <1>2, Bounds DEF NewSession, SessOK
<1> HIDE DEF r
<1>4. sess' = [sess EXCEPT ![s] = r]
  BY <1>1 DEF r
<1> QED BY <1>3, <1>4, SessChange DEF Begins, TypeInv

\* Starting moves a session on and at most asks its predecessor to stop.
LEMMA StartMoves ==
  ASSUME TypeInv, ServeInv, NEW s \in Sessions, Start(s)
  PROVE  SessInv' /\ Moves(s, "idle", sess[s].todo, sess[s].ready, sess[s].ack)
<1> DEFINE n == proto[sess[s].epoch].acked
<1>1. n \in Seqs
  BY DEF Start, TypeInv, ProtoInv, ReceiverOK, ServeInv, Attached
<1> DEFINE stopped == [t \in Sessions |-> IF t = sess[s].old THEN [sess[t] EXCEPT !.stop = TRUE] ELSE sess[t]]
<1>2. sess' = [stopped EXCEPT ![s].pc = "idle", ![s].lastAckSent = n]
  BY DEF Start
<1> HIDE DEF n
<1>3. ASSUME NEW t \in Sessions
      PROVE  /\ SessOK(stopped[t]) /\ stopped[t].pc = sess[t].pc /\ stopped[t].epoch = sess[t].epoch
             /\ stopped[t].todo = sess[t].todo /\ stopped[t].ready = sess[t].ready /\ stopped[t].ack = sess[t].ack
  <2>1. stopped[t] = [sess[t] EXCEPT !.stop = TRUE] \/ stopped[t] = sess[t]
    OBVIOUS
  <2> HIDE DEF stopped
  <2> QED BY <2>1 DEF TypeInv, SessInv, SessOK
<1>7. DOMAIN stopped = Sessions
  OBVIOUS
<1> HIDE DEF stopped
<1>4. /\ SessOK(sess'[s]) /\ sess'[s].pc = "idle" /\ sess'[s].epoch = sess[s].epoch /\ sess'[s].todo = sess[s].todo
      /\ sess'[s].ready = sess[s].ready /\ sess'[s].ack = sess[s].ack
  BY <1>1, <1>2, <1>3, <1>7 DEF SessOK
<1>5. ASSUME NEW t \in Sessions \ {s} PROVE SessOK(sess'[t]) /\ Same(t)
  BY <1>2, <1>3, <1>7 DEF Same
<1>6. DOMAIN sess' = Sessions
  BY <1>2, <1>7
<1> QED BY <1>4, <1>5, <1>6 DEF SessInv, Moves

\* Closing only moves the program counter.
LEMMA CloseMoves ==
  ASSUME TypeInv, NEW s \in Sessions, Close(s)
  PROVE  SessInv' /\ Moves(s, "closing", sess[s].todo, sess[s].ready, sess[s].ack)
<1>1. sess' = [sess EXCEPT ![s].pc = "closing"]
  BY DEF Close
<1> QED BY <1>1, PcChange DEF TypeInv

\* Detaching ends the session.
LEMMA DetachBegins ==
  ASSUME TypeInv, NEW s \in Sessions, Detach(s)
  PROVE  SessInv' /\ Begins(s, "done", 0)
<1>1. sess' = [sess EXCEPT ![s] = [NewSession EXCEPT !.pc = "done"]]
  BY DEF Detach
<1> DEFINE r == [NewSession EXCEPT !.pc = "done"]
<1>3. SessOK(r) /\ r.pc = "done" /\ r.epoch = 0 /\ r.todo = << >> /\ r.ready = << >> /\ r.ack = 0
  BY NewSessionOK
<1> HIDE DEF r
<1>4. sess' = [sess EXCEPT ![s] = r]
  BY <1>1 DEF r
<1> QED BY <1>3, <1>4, SessChange DEF Begins, TypeInv

\* A frame becomes the contiguous run of its events.
LEMMA ReadMoves ==
  ASSUME TypeInv, NEW s \in Sessions, Read(s)
  PROVE  /\ inbox[s] # << >> /\ Head(inbox[s]) \in Runs /\ SessInv'
         /\ \E run \in Seq(Seqs) : /\ run # << >> /\ \A i, j \in DOMAIN run : j = i + 1 => run[j] = run[i] + 1
                                   /\ Moves(s, "accept", run, << >>, 0)
<1> DEFINE f == Head(inbox[s])
           n == f[2] - f[1] + 1
           run == [i \in 1 .. n |-> f[1] + i - 1]
           r == [sess[s] EXCEPT !.pc = "accept", !.ready = << >>, !.ack = 0, !.todo = run]
<1>1. inbox[s] # << >> /\ f \in Runs
  BY DEF Read, TypeInv, InboxOK
<1> HIDE DEF f
<1>2. /\ f[1] \in Nat /\ f[2] \in Nat /\ n \in Nat \ {0} /\ f[1] + n = f[2] + 1
      /\ \A i \in 1 .. n : f[1] + i - 1 \in Seqs
  <2>1. f[1] \in Seqs /\ f[2] \in Seqs /\ f[1] <= f[2] /\ MaxSeq \in Nat
    BY <1>1, Bounds DEF Runs
  <2> QED BY <2>1 DEF Seqs
<1>3. run \in Seq(Seqs) /\ Len(run) = n
  <2>1. run \in [1 .. n -> Seqs]
    BY <1>2
  <2> HIDE DEF run, n
  <2> QED BY <1>2, <2>1
<1>4. run # << >> /\ \A i, j \in 1 .. n : j = i + 1 => run[j] = run[i] + 1
  <2> SUFFICES ASSUME NEW i \in 1 .. n, NEW j \in 1 .. n, j = i + 1 PROVE run[j] = run[i] + 1
    BY <1>2, <1>3
  <2> HIDE DEF n
  <2>1. run[j] = f[1] + j - 1 /\ run[i] = f[1] + i - 1
    OBVIOUS
  <2> QED BY <1>2, <2>1
<1>5. sess' = [sess EXCEPT ![s] = r]
  BY DEF Read, f
<1> HIDE DEF run, n
<1>6. /\ SessOK(r) /\ r.pc = "accept" /\ r.epoch = sess[s].epoch /\ r.todo = run /\ r.ready = << >> /\ r.ack = 0
  BY <1>3, Bounds DEF TypeInv, SessInv, SessOK
<1> HIDE DEF r
<1>7. SessInv' /\ Moves(s, "accept", run, << >>, 0)
  BY <1>5, <1>6, SessChange DEF Moves, TypeInv
<1>8. DOMAIN run = 1 .. n
  BY <1>3
<1> QED BY <1>1, <1>3, <1>4, <1>7, <1>8 DEF f

\* A frame beyond the window ends the loop ...
LEMMA AcceptOverflows ==
  ASSUME TypeInv, NEW s \in Sessions, Accept(s), Overflows(proto[sess[s].epoch], Head(sess[s].todo))
  PROVE  SessInv' /\ proto' = proto /\ Moves(s, "closing", sess[s].todo, sess[s].ready, sess[s].ack)
<1>1. sess' = [sess EXCEPT ![s].pc = "closing"] /\ proto' = proto
  BY DEF Accept
<1> QED BY <1>1, PcChange DEF TypeInv

\* ... any other moves the watermark over what is handed on.
LEMMA AcceptMoves ==
  ASSUME TypeInv, ServeInv, LoopInv, NEW s \in Sessions, Accept(s),
         ~Overflows(proto[sess[s].epoch], Head(sess[s].todo))
  PROVE  LET e == sess[s].epoch
             p == proto[e]
             q == Head(sess[s].todo)
             a == AcceptReceiver(p, q, q)
             got == sess[s].ready \o AcceptReady(p, q, q)
             rest == Tail(sess[s].todo)
         IN  /\ SessInv' /\ ProtoInv' /\ e \in Epochs /\ q \in Seqs /\ ReceiverOK(p) /\ sess[s].todo # << >>
             /\ proto'[e] = a /\ \A d \in Epochs \ {e} : proto'[d] = proto[d]
             /\ got \in Seq(Seqs) /\ rest \in Seq(Seqs)
             /\ \E pc \in {"accept", "gate", "note"} :
                    /\ Moves(s, pc, rest, got, a.acked)
                    /\ pc = "accept" => rest # << >>
                    /\ pc = "gate" => got # << >>
                    /\ pc = "note" => got = << >>
<1> DEFINE e == sess[s].epoch
           p == proto[e]
           q == Head(sess[s].todo)
           a == AcceptReceiver(p, q, q)
           g == AcceptReady(p, q, q)
           got == sess[s].ready \o g
           rest == Tail(sess[s].todo)
           pc == CASE rest # << >> -> "accept"
                   [] rest = << >> /\ got # << >> -> "gate"
                   [] OTHER -> "note"
           r == [sess[s] EXCEPT !.todo = rest, !.ready = got, !.ack = a.acked, !.pc = pc]
<1>1. sess[s].pc = "accept" /\ SessOK(sess[s])
  BY DEF Accept, TypeInv, SessInv
<1>2. e \in Epochs /\ sess[s].todo # << >> /\ sess[s].todo \in Seq(Seqs) /\ sess[s].ready \in Seq(Seqs)
  BY <1>1, SMTT(60) DEF ServeInv, Attached, LoopInv, LoopOK, SessOK
<1>3. q \in Seqs /\ rest \in Seq(Seqs) /\ ReceiverOK(p)
  BY <1>2 DEF TypeInv, ProtoInv
<1>4. proto' = [proto EXCEPT ![e] = a] /\ sess' = [sess EXCEPT ![s] = r]
  BY DEF Accept
<1> HIDE DEF e, p, q, rest
<1>5. ReceiverOK(a) /\ g \in Seq(Seqs)
  BY <1>3, AcceptOK
<1> HIDE DEF a, g
<1>6. got \in Seq(Seqs)
  BY <1>2, <1>5
<1> HIDE DEF got
<1>7. /\ pc \in {"accept", "gate", "note"} /\ (pc = "accept" => rest # << >>) /\ (pc = "gate" => got # << >>)
      /\ pc = "note" => got = << >>
  OBVIOUS
<1> HIDE DEF pc
<1>8. a.acked \in Seqs
  BY <1>5 DEF ReceiverOK
<1>9. SessOK(r) /\ r.pc = pc /\ r.epoch = sess[s].epoch /\ r.todo = rest /\ r.ready = got /\ r.ack = a.acked
  BY <1>1, <1>3, <1>6, <1>7, <1>8 DEF SessOK
<1> HIDE DEF r
<1>10. SessInv' /\ Moves(s, pc, rest, got, a.acked)
  BY <1>4, <1>9, SessChange DEF Moves, TypeInv
<1>11. ProtoInv' /\ proto'[e] = a /\ \A d \in Epochs \ {e} : proto'[d] = proto[d]
  BY <1>2, <1>4, <1>5 DEF ProtoInv, TypeInv
<1> QED BY <1>2, <1>3, <1>6, <1>7, <1>10, <1>11 DEF e, p, q, rest, a, g, got

\* The gate lets the registered session pass and closes any other.
LEMMA GateMoves ==
  ASSUME TypeInv, NEW s \in Sessions, Gate(s)
  PROVE  SessInv' /\ Moves(s, IF reg.session = s THEN "buffer" ELSE "closing", sess[s].todo, sess[s].ready, sess[s].ack)
<1>1. sess' = [sess EXCEPT ![s].pc = IF reg.session = s THEN "buffer" ELSE "closing"]
  BY DEF Gate
<1>2. CASE reg.session = s
  BY <1>1, <1>2, PcChange DEF TypeInv
<1>3. CASE reg.session # s
  BY <1>1, <1>3, PcChange DEF TypeInv
<1> QED BY <1>2, <1>3

\* Buffering moves on, or closes when the epoch was retired.
LEMMA BufferMoves ==
  ASSUME TypeInv, NEW s \in Sessions, Buffer(s)
  PROVE  SessInv' /\ Moves(s, IF EpochCurrent(s) THEN "enqueue" ELSE "closing", sess[s].todo, sess[s].ready, sess[s].ack)
<1>2. CASE EpochCurrent(s)
  <2>1. sess' = [sess EXCEPT ![s].pc = "enqueue"]
    BY <1>2 DEF Buffer
  <2> QED BY <1>2, <2>1, PcChange DEF TypeInv
<1>3. CASE ~EpochCurrent(s)
  <2>1. sess' = [sess EXCEPT ![s].pc = "closing"]
    BY <1>3 DEF Buffer
  <2> QED BY <1>3, <2>1, PcChange DEF TypeInv
<1> QED BY <1>2, <1>3

\* Enqueueing takes the first event off what is carried.
LEMMA EnqueueMoves ==
  ASSUME TypeInv, LoopInv, NEW s \in Sessions, Enqueue(s)
  PROVE  /\ SessInv' /\ sess[s].ready # << >> /\ sess[s].ready \in Seq(Seqs)
         /\ Moves(s, IF Len(sess[s].ready) > 1 THEN "buffer" ELSE "note", sess[s].todo, Tail(sess[s].ready), sess[s].ack)
<1> DEFINE pc == IF Len(sess[s].ready) > 1 THEN "buffer" ELSE "note"
           r == [sess[s] EXCEPT !.ready = Tail(sess[s].ready), !.pc = pc]
<1>1. sess[s].ready # << >> /\ sess[s].ready \in Seq(Seqs)
  BY DEF Enqueue, LoopInv, LoopOK, TypeInv, SessInv, SessOK
<1>2. Tail(sess[s].ready) \in Seq(Seqs)
  BY <1>1
<1>3. sess' = [sess EXCEPT ![s] = r]
  BY DEF Enqueue
<1>4. pc \in {"buffer", "note"}
  OBVIOUS
<1> HIDE DEF pc
<1>5. /\ SessOK(r) /\ r.pc = pc /\ r.epoch = sess[s].epoch /\ r.todo = sess[s].todo
      /\ r.ready = Tail(sess[s].ready) /\ r.ack = sess[s].ack
  BY <1>2, <1>4 DEF TypeInv, SessInv, SessOK
<1> HIDE DEF r
<1> QED BY <1>1, <1>3, <1>5, SessChange DEF Moves, TypeInv, pc

\* Noting the watermark moves on, or closes when asked to stop.
LEMMA NoteMoves ==
  ASSUME TypeInv, NEW s \in Sessions, Note(s)
  PROVE  /\ SessInv'
         /\ Moves(s, IF sess[s].stop THEN "closing" ELSE "idle", sess[s].todo, sess[s].ready, sess[s].ack)
<1> DEFINE pc == IF sess[s].stop THEN "closing" ELSE "idle"
<1>1. CASE sess[s].ack > sess[s].lastAckSent
  <2> DEFINE r == [sess[s] EXCEPT !.pc = pc, !.lastAckSent = sess[s].ack]
  <2>1. sess' = [sess EXCEPT ![s] = r]
    BY <1>1 DEF Note
  <2>2. pc \in {"closing", "idle"}
    OBVIOUS
  <2> HIDE DEF pc
  <2>3. /\ SessOK(r) /\ r.pc = pc /\ r.epoch = sess[s].epoch /\ r.todo = sess[s].todo
        /\ r.ready = sess[s].ready /\ r.ack = sess[s].ack
    BY <2>2 DEF TypeInv, SessInv, SessOK
  <2> HIDE DEF r
  <2> QED BY <2>1, <2>3, SessChange DEF Moves, TypeInv, pc
<1>2. CASE ~(sess[s].ack > sess[s].lastAckSent)
  <2>1. sess' = [sess EXCEPT ![s].pc = pc] /\ pc \in {"closing", "idle"}
    BY <1>2 DEF Note
  <2> HIDE DEF pc
  <2>2. SessInv' /\ Moves(s, pc, sess[s].todo, sess[s].ready, sess[s].ack)
    BY <2>1, PcChange DEF TypeInv
  <2> QED BY <2>2 DEF pc
<1> QED BY <1>1, <1>2

-----------------------------------------------------------------------------
(* Types. *)

\* The event a loop is about to hand to the fan-out.
LEMMA EnqueueItem ==
  ASSUME TypeInv, ServeInv, LoopInv, NEW s \in Sessions, sess[s].pc \in {"buffer", "enqueue"}
  PROVE  /\ sess[s].ready # << >> /\ sess[s].ready \in Seq(Seqs) /\ Head(sess[s].ready) \in Seqs
         /\ Head(sess[s].ready) = sess[s].ready[1] /\ 1 \in DOMAIN sess[s].ready /\ sess[s].epoch \in Epochs
         /\ EventItem(sess[s].epoch, Head(sess[s].ready)) \in Items
<1>1. sess[s].ready # << >> /\ sess[s].ready \in Seq(Seqs) /\ sess[s].epoch \in Epochs
  BY DEF LoopInv, LoopOK, TypeInv, SessInv, SessOK, ServeInv, Attached
<1>2. Head(sess[s].ready) \in Seqs /\ Head(sess[s].ready) = sess[s].ready[1] /\ 1 \in DOMAIN sess[s].ready
  BY <1>1
<1> QED BY <1>1, <1>2 DEF EventItem, Items

\* Inserting an event keeps the buffer sorted and of one epoch.
LEMMA BufferStepOK ==
  ASSUME TypeInv, ServeInv, LoopInv, BufInv, NEW s \in Sessions, Buffer(s), EpochCurrent(s)
  PROVE  LET e == sess[s].epoch
             q == sess[s].ready[1]
         IN  /\ e \in Epochs /\ e = reg.epoch /\ lock = None /\ q \in Seqs /\ 1 \in DOMAIN sess[s].ready
             /\ sess[s].ready # << >> /\ sess[s].pc = "buffer"
             /\ evBuf' = BufferEvent(evBuf, e, q) /\ ingested' = ingested \cup {<< e, q >>}
             /\ evBuf' \in Seq(Items) /\ evBuf' # << >>
             /\ \A i, j \in DOMAIN evBuf' : i < j => evBuf'[i].seq < evBuf'[j].seq
             /\ \A i \in DOMAIN evBuf' : evBuf'[i] = EventItem(e, q) \/ \E j \in DOMAIN evBuf : evBuf'[i] = evBuf[j]
<1> DEFINE e == sess[s].epoch
           q == sess[s].ready[1]
<1>1. sess[s].pc = "buffer" /\ evBuf' = BufferEvent(evBuf, e, Head(sess[s].ready)) /\ e = reg.epoch
      /\ ingested' = ingested \cup {<< e, Head(sess[s].ready) >>}
  BY DEF Buffer, EpochCurrent
<1>2. sess[s].ready # << >> /\ q \in Seqs /\ e \in Epochs /\ Head(sess[s].ready) = q /\ 1 \in DOMAIN sess[s].ready
  BY <1>1, EnqueueItem
<1>3. lock = None
  <2>1. Attached(s) /\ reg.epoch \in Nat
    BY <1>1, Bounds DEF Attached, TypeInv, RegOK
  <2> QED BY <1>1, <2>1 DEF ServeInv
<1>4. \A j \in DOMAIN evBuf : evBuf[j].seq # q
  <2>1. Carrying(s) /\ 1 \in Unbuffered(s)
    BY <1>1, <1>2 DEF Carrying, Unbuffered
  <2> QED BY <1>1, <2>1 DEF BufInv, Fresh
<1>5. evBuf \in Seq(Items) /\ \A i, j \in DOMAIN evBuf : i < j => evBuf[i].seq < evBuf[j].seq
  BY DEF TypeInv, BufInv, GapPullSorted
<1> HIDE DEF e, q
<1>6. LET b == BufferEvent(evBuf, e, q)
      IN  /\ b \in Seq(Items) /\ b # << >>
          /\ \A i, j \in DOMAIN b : i < j => b[i].seq < b[j].seq
          /\ \A i \in DOMAIN b : b[i] = EventItem(e, q) \/ \E j \in DOMAIN evBuf : b[i] = evBuf[j]
  BY <1>2, <1>4, <1>5, BufferEventOK
<1> QED BY <1>1, <1>2, <1>3, <1>6 DEF e, q

\* Every step keeps the types.
LEMMA TypeStep ==
  ASSUME TypeInv, ServeInv, LinkInv, LoopInv, BufInv, [Next]_vars
  PROVE  TypeInv'
<1>1. ASSUME HostPublish PROVE TypeInv'
  <2>1. UNCHANGED << reg, proto, sess, inbox, ackOut, evBuf, queue, drain, started, seen, lock, restarts >>
    BY <1>1 DEF HostPublish, hubVars
  <2>2. HostOK'
    <3>1. host.produced + 1 \in Seqs
      BY <1>1, Bounds, SMTT(60) DEF HostPublish, hubVars, TypeInv, HostOK, Seqs
    <3> QED BY <1>1, <3>1 DEF HostPublish, hubVars, TypeInv, HostOK
  <2> QED BY <2>1, <2>2 DEF TypeInv, RegOK, ProtoInv, SessInv, InboxOK, AckOutOK, QueueOK, SeenOK, RestOK
<1>2. ASSUME HostSend PROVE TypeInv'
  <2>1. UNCHANGED << reg, proto, sess, ackOut, evBuf, queue, drain, started, seen, lock, restarts >>
    BY <1>2 DEF HostSend, hubVars
  <2>2. HostOK'
    BY <1>2 DEF HostSend, hubVars, TypeInv, HostOK
  <2>3. InboxOK'
    <3>1. host.link \in Sessions /\ << host.sent + 1, host.produced >> \in Runs
      <4>1. host.sent \in Nat /\ host.produced \in Nat /\ host.produced <= MaxSeq /\ host.sent < host.produced /\ MaxSeq \in Nat
        BY <1>2, Bounds DEF HostSend, hubVars, TypeInv, HostOK, Seqs
      <4>2. host.sent + 1 \in Seqs /\ host.produced \in Seqs /\ host.sent + 1 <= host.produced
        BY <4>1 DEF Seqs
      <4> QED BY <1>2, <4>2 DEF HostSend, hubVars, TypeInv, HostOK, Runs
    <3> QED BY <1>2, <3>1 DEF HostSend, hubVars, TypeInv, InboxOK
  <2> QED BY <2>1, <2>2, <2>3 DEF TypeInv, RegOK, ProtoInv, SessInv, AckOutOK, QueueOK, SeenOK, RestOK
<1>3. ASSUME HostGetsAck PROVE TypeInv'
  <2>1. UNCHANGED << reg, proto, sess, inbox, ackOut, evBuf, queue, drain, started, seen, lock, restarts >>
    BY <1>3 DEF HostGetsAck, hubVars
  <2>2. HostOK'
    BY <1>3, Bounds DEF HostGetsAck, hubVars, TypeInv, HostOK, AckOutOK
  <2> QED BY <2>1, <2>2 DEF TypeInv, RegOK, ProtoInv, SessInv, InboxOK, AckOutOK, QueueOK, SeenOK, RestOK
<1>4. ASSUME HostDisconnect PROVE TypeInv'
  <2>1. UNCHANGED << reg, proto, sess, inbox, ackOut, evBuf, queue, drain, started, seen, lock, restarts >>
    BY <1>4 DEF HostDisconnect, hubVars
  <2>2. HostOK'
    BY <1>4 DEF HostDisconnect, hubVars, TypeInv, HostOK
  <2> QED BY <2>1, <2>2 DEF TypeInv, RegOK, ProtoInv, SessInv, InboxOK, AckOutOK, QueueOK, SeenOK, RestOK
<1>5. ASSUME HostRestart PROVE TypeInv'
  <2>1. UNCHANGED << reg, proto, sess, inbox, ackOut, evBuf, queue, drain, started, seen, lock, restarts >>
    BY <1>5 DEF HostRestart, hubVars
  <2>2. HostOK'
    <3>1. PICK b \in {0, host.produced} :
                 host' = [epoch |-> host.epoch + 1, base |-> b, produced |-> b, acked |-> b, link |-> None, sent |-> b]
      BY <1>5 DEF HostRestart, hubVars
    <3>2. b \in Seqs /\ host.epoch + 1 \in Epochs
      BY <1>5, Bounds DEF HostRestart, hubVars, TypeInv, HostOK, Epochs
    <3> QED BY <3>1, <3>2 DEF HostOK
  <2> QED BY <2>1, <2>2 DEF TypeInv, RegOK, ProtoInv, SessInv, InboxOK, AckOutOK, QueueOK, SeenOK, RestOK
<1>6. ASSUME DrainTake PROVE TypeInv'
  <2>1. UNCHANGED << host, reg, proto, sess, inbox, ackOut, evBuf, seen, lock, restarts >>
    BY <1>6 DEF DrainTake
  <2>2. QueueOK'
    BY <1>6 DEF DrainTake, TypeInv, QueueOK
  <2> QED BY <2>1, <2>2 DEF TypeInv, HostOK, RegOK, ProtoInv, SessInv, InboxOK, AckOutOK, SeenOK, RestOK
<1>7. ASSUME DrainDeliver PROVE TypeInv'
  <2>1. UNCHANGED << host, reg, proto, sess, inbox, ackOut, evBuf, lock, restarts >>
    BY <1>7 DEF DrainDeliver
  <2>2. QueueOK'
    BY <1>7 DEF DrainDeliver, TypeInv, QueueOK
  <2>3. SeenOK'
    BY <1>7 DEF DrainDeliver, TypeInv, QueueOK, SeenOK, See
  <2> QED BY <2>1, <2>2, <2>3 DEF TypeInv, HostOK, RegOK, ProtoInv, SessInv, InboxOK, AckOutOK, RestOK
<1>8. ASSUME HubRestart PROVE TypeInv'
  <2>1. UNCHANGED << proto, ackOut >>
    BY <1>8 DEF HubRestart
  <2>2. HostOK'
    BY <1>8 DEF HubRestart, TypeInv, HostOK
  <2>3. RegOK'
    BY <1>8, Bounds DEF HubRestart, NewRegistry, RegOK
  <2>4. SessInv'
    <3> DEFINE r == [NewSession EXCEPT !.pc = "done"]
    <3>1. SessOK(r)
      BY Bounds DEF NewSession, SessOK
    <3> HIDE DEF r
    <3>2. sess' = [t \in Sessions |-> IF sess[t].pc = "new" THEN sess[t] ELSE r]
      BY <1>8 DEF HubRestart, r
    <3> QED BY <3>1, <3>2 DEF TypeInv, SessInv
  <2>5. InboxOK'
    BY <1>8 DEF HubRestart, InboxOK
  <2>6. evBuf' \in Seq(Items)
    BY <1>8 DEF HubRestart
  <2>7. QueueOK'
    <3>1. queue' = << >> /\ drain' = NoItem /\ started' = FALSE
      BY <1>8 DEF HubRestart
    <3>2. << >> \in Seq(Items)
      OBVIOUS
    <3> QED BY <3>1, <3>2 DEF QueueOK
  <2>8. SeenOK'
    BY <1>8 DEF HubRestart, SeenOK, NothingSeen
  <2>9. RestOK'
    BY <1>8 DEF HubRestart, TypeInv, RestOK
  <2> QED BY <2>1, <2>2, <2>3, <2>4, <2>5, <2>6, <2>7, <2>8, <2>9 DEF TypeInv, ProtoInv, AckOutOK
<1>9. ASSUME NEW timer \in timers, GraceClear(timer) PROVE TypeInv'
  <2>1. UNCHANGED << host, reg, proto, sess, inbox, ackOut, queue, drain, started, seen, lock, restarts >>
    BY <1>9 DEF GraceClear
  <2>2. evBuf' \in Seq(Items)
    BY <1>9 DEF GraceClear, TypeInv
  <2> QED BY <2>1, <2>2 DEF TypeInv, HostOK, RegOK, ProtoInv, SessInv, InboxOK, AckOutOK, QueueOK, SeenOK, RestOK
<1>10. ASSUME NEW s \in Sessions, AttachResume(s) PROVE TypeInv'
  <2>1. UNCHANGED << proto, inbox, evBuf, queue, drain, started, seen, lock, restarts >>
    BY <1>10 DEF AttachResume, InstallSession, MayAttach
  <2>2. HostOK'
    <3>1. proto[host.epoch].acked \in Seqs
      BY <1>10 DEF AttachResume, InstallSession, MayAttach, TypeInv, ProtoInv, ReceiverOK, HostOK, RegOK, ServeInv, Attached
    <3> QED BY <1>10, <3>1 DEF AttachResume, InstallSession, MayAttach, TypeInv, HostOK
  <2>3. RegOK'
    BY <1>10 DEF AttachResume, InstallSession, MayAttach, TypeInv, RegOK
  <2>4. SessInv'
    BY <1>10, AttachResumeBegins
  <2>5. AckOutOK'
    <3>1. proto[host.epoch].acked \in Seqs
      BY <1>10 DEF AttachResume, InstallSession, MayAttach, TypeInv, ProtoInv, ReceiverOK, HostOK, RegOK, ServeInv, Attached
    <3> QED BY <1>10, <3>1 DEF AttachResume, InstallSession, MayAttach, TypeInv, AckOutOK
  <2> QED BY <2>1, <2>2, <2>3, <2>4, <2>5 DEF TypeInv, ProtoInv, InboxOK, QueueOK, SeenOK, RestOK
<1>11. ASSUME NEW s \in Sessions, AttachNewEpoch(s) PROVE TypeInv'
  <2>1. UNCHANGED << inbox, ackOut, evBuf, queue, drain, started, seen >>
    BY <1>11 DEF AttachNewEpoch, MayAttach
  <2>2. HostOK'
    BY <1>11 DEF AttachNewEpoch, MayAttach, TypeInv, HostOK
  <2>3. RegOK'
    BY <1>11 DEF AttachNewEpoch, MayAttach, TypeInv, RegOK, HostOK
  <2>4. ProtoInv'
    <3> DEFINE r == NewReceiver(host.acked, Window)
    <3>1. ReceiverOK(r)
      BY DEF NewReceiver, ReceiverOK, TypeInv, HostOK
    <3> HIDE DEF r
    <3>2. proto' = [proto EXCEPT ![host.epoch] = r]
      BY <1>11 DEF AttachNewEpoch, MayAttach, r
    <3> QED BY <3>1, <3>2 DEF TypeInv, ProtoInv
  <2>5. SessInv'
    BY <1>11, AttachNewEpochMoves
  <2>6. RestOK'
    BY <1>11 DEF AttachNewEpoch, MayAttach, TypeInv, RestOK
  <2> QED BY <2>1, <2>2, <2>3, <2>4, <2>5, <2>6 DEF TypeInv, InboxOK, AckOutOK, QueueOK, SeenOK
<1>12. ASSUME NEW s \in Sessions, AttachFinish(s) PROVE TypeInv'
  <2>1. UNCHANGED << proto, inbox >>
    BY <1>12 DEF AttachFinish
  <2>2. HostOK'
    <3>0. reg.epoch \in Epochs
      BY <1>12, Bounds DEF AttachFinish, TypeInv, RegOK, ServeInv
    <3>1. proto[reg.epoch].acked \in Seqs
      BY <3>0 DEF TypeInv, ProtoInv, ReceiverOK
    <3> QED BY <1>12, <3>1 DEF AttachFinish, TypeInv, HostOK
  <2>3. RegOK'
    BY <1>12 DEF AttachFinish, TypeInv, RegOK
  <2>4. SessInv'
    BY <1>12, AttachFinishBegins
  <2>5. AckOutOK'
    <3>0. reg.epoch \in Epochs
      BY <1>12, Bounds DEF AttachFinish, TypeInv, RegOK, ServeInv
    <3>1. proto[reg.epoch].acked \in Seqs
      BY <3>0 DEF TypeInv, ProtoInv, ReceiverOK
    <3> QED BY <1>12, <3>1 DEF AttachFinish, TypeInv, AckOutOK
  <2>6. evBuf' \in Seq(Items)
    BY <1>12 DEF AttachFinish
  <2>7. QueueOK'
    <3>1. ResetItem(reg.epoch, reg.base) \in Items
      BY <1>12, Bounds DEF AttachFinish, TypeInv, RegOK, ServeInv, ResetItem, Items
    <3> DEFINE x == ResetItem(reg.epoch, reg.base)
    <3> HIDE DEF x
    <3>2. AnnounceEpochReset(reg.epoch, reg.base) /\ x \in Items /\ UNCHANGED drain
      BY <1>12, <3>1 DEF AttachFinish, x
    <3>3. started' \in BOOLEAN /\ (queue' = queue \/ queue' = Append(queue, x))
      BY <3>2 DEF AnnounceEpochReset, EnqueueFanout, x, TypeInv, QueueOK
    <3>4. queue' \in Seq(Items)
      BY <3>2, <3>3 DEF TypeInv, QueueOK
    <3> QED BY <3>2, <3>3, <3>4 DEF TypeInv, QueueOK
  <2>8. SeenOK'
    <3>1. ResetItem(reg.epoch, reg.base) \in Items
      BY <1>12, Bounds DEF AttachFinish, TypeInv, RegOK, ServeInv, ResetItem, Items
    <3> QED BY <1>12, <3>1 DEF AttachFinish, AnnounceEpochReset, See, TypeInv, SeenOK
  <2>9. RestOK'
    BY <1>12 DEF AttachFinish, TypeInv, RestOK
  <2> QED BY <2>1, <2>2, <2>3, <2>4, <2>5, <2>6, <2>7, <2>8, <2>9 DEF TypeInv, ProtoInv, InboxOK
<1>13. ASSUME NEW s \in Sessions, LoseFrame(s) PROVE TypeInv'
  <2>1. UNCHANGED << host, reg, proto, sess, ackOut, evBuf, queue, drain, started, seen, lock, restarts >>
    BY <1>13 DEF LoseFrame
  <2>2. InboxOK'
    <3>1. Front(inbox[s]) \in Seq(Runs)
      BY <1>13 DEF LoseFrame, TypeInv, InboxOK, Front
    <3> QED BY <1>13, <3>1 DEF LoseFrame, TypeInv, InboxOK
  <2> QED BY <2>1, <2>2 DEF TypeInv, HostOK, RegOK, ProtoInv, SessInv, AckOutOK, QueueOK, SeenOK, RestOK
<1>14. ASSUME NEW s \in Sessions, Start(s) PROVE TypeInv'
  <2>1. UNCHANGED << host, reg, proto, inbox, ackOut, evBuf, queue, drain, started, seen, lock, restarts >>
    BY <1>14 DEF Start
  <2>2. SessInv'
    BY <1>14, StartMoves
  <2> QED BY <2>1, <2>2 DEF TypeInv, HostOK, RegOK, ProtoInv, InboxOK, AckOutOK, QueueOK, SeenOK, RestOK
<1>15. ASSUME NEW s \in Sessions, Close(s) PROVE TypeInv'
  <2>1. UNCHANGED << host, reg, proto, inbox, ackOut, evBuf, queue, drain, started, seen, lock, restarts >>
    BY <1>15 DEF Close
  <2>2. SessInv'
    BY <1>15, CloseMoves
  <2> QED BY <2>1, <2>2 DEF TypeInv, HostOK, RegOK, ProtoInv, InboxOK, AckOutOK, QueueOK, SeenOK, RestOK
<1>16. ASSUME NEW s \in Sessions, Detach(s) PROVE TypeInv'
  <2>1. UNCHANGED << proto, ackOut, evBuf, queue, drain, started, seen, lock, restarts >>
    BY <1>16 DEF Detach
  <2>2. HostOK'
    BY <1>16 DEF Detach, TypeInv, HostOK
  <2>3. RegOK'
    <3>1. CASE OwnsRegistry(s)
      <4>1. reg' = [reg EXCEPT !.session = None, !.evBufEpoch = @ + 1]
        BY <1>16, <3>1 DEF Detach
      <4> QED BY <4>1 DEF TypeInv, RegOK
    <3>2. CASE ~OwnsRegistry(s)
      BY <1>16, <3>2 DEF Detach, TypeInv, RegOK
    <3> QED BY <3>1, <3>2
  <2>4. SessInv'
    BY <1>16, DetachBegins
  <2>5. InboxOK'
    BY <1>16 DEF Detach, TypeInv, InboxOK
  <2> QED BY <2>1, <2>2, <2>3, <2>4, <2>5 DEF TypeInv, ProtoInv, AckOutOK, QueueOK, SeenOK, RestOK
<1>17. ASSUME NEW s \in Sessions, Read(s) PROVE TypeInv'
  <2>1. UNCHANGED << host, reg, proto, ackOut, evBuf, queue, drain, started, seen, lock, restarts >>
    BY <1>17 DEF Read
  <2>2. SessInv'
    BY <1>17, ReadMoves
  <2>3. InboxOK'
    <3>1. Tail(inbox[s]) \in Seq(Runs)
      BY <1>17 DEF Read, TypeInv, InboxOK
    <3> QED BY <1>17, <3>1 DEF Read, TypeInv, InboxOK
  <2> QED BY <2>1, <2>2, <2>3 DEF TypeInv, HostOK, RegOK, ProtoInv, AckOutOK, QueueOK, SeenOK, RestOK
<1>18. ASSUME NEW s \in Sessions, Accept(s) PROVE TypeInv'
  <2>1. UNCHANGED << host, reg, inbox, ackOut, evBuf, queue, drain, started, seen, lock, restarts >>
    BY <1>18 DEF Accept
  <2>2. CASE Overflows(proto[sess[s].epoch], Head(sess[s].todo))
    <3>1. SessInv' /\ proto' = proto
      BY <1>18, <2>2, AcceptOverflows
    <3> QED BY <2>1, <3>1 DEF TypeInv, HostOK, RegOK, ProtoInv, InboxOK, AckOutOK, QueueOK, SeenOK, RestOK
  <2>3. CASE ~Overflows(proto[sess[s].epoch], Head(sess[s].todo))
    <3>1. SessInv' /\ ProtoInv'
      BY <1>18, <2>3, AcceptMoves
    <3> QED BY <2>1, <3>1 DEF TypeInv, HostOK, RegOK, InboxOK, AckOutOK, QueueOK, SeenOK, RestOK
  <2> QED BY <2>2, <2>3
<1>19. ASSUME NEW s \in Sessions, Gate(s) PROVE TypeInv'
  <2>1. UNCHANGED << host, reg, proto, inbox, ackOut, evBuf, queue, drain, started, seen, lock, restarts >>
    BY <1>19 DEF Gate
  <2>2. SessInv'
    BY <1>19, GateMoves
  <2> QED BY <2>1, <2>2 DEF TypeInv, HostOK, RegOK, ProtoInv, InboxOK, AckOutOK, QueueOK, SeenOK, RestOK
<1>20. ASSUME NEW s \in Sessions, Buffer(s) PROVE TypeInv'
  <2>1. UNCHANGED << host, reg, proto, inbox, ackOut, queue, drain, started, seen, lock, restarts >>
    BY <1>20 DEF Buffer
  <2>2. SessInv'
    BY <1>20, BufferMoves
  <2>3. evBuf' \in Seq(Items)
    <3>1. CASE EpochCurrent(s)
      BY <1>20, <3>1, BufferStepOK
    <3>2. CASE ~EpochCurrent(s)
      BY <1>20, <3>2 DEF Buffer, TypeInv
    <3> QED BY <3>1, <3>2
  <2> QED BY <2>1, <2>2, <2>3 DEF TypeInv, HostOK, RegOK, ProtoInv, InboxOK, AckOutOK, QueueOK, SeenOK, RestOK
<1>21. ASSUME NEW s \in Sessions, Enqueue(s) PROVE TypeInv'
  <2>1. UNCHANGED << host, reg, proto, inbox, ackOut, evBuf, seen, lock, restarts >>
    BY <1>21 DEF Enqueue, EnqueueFanout
  <2>2. SessInv'
    BY <1>21, EnqueueMoves
  <2>3. QueueOK'
    <3>1. EventItem(sess[s].epoch, Head(sess[s].ready)) \in Items
      <4>1. sess[s].pc = "enqueue"
        BY <1>21 DEF Enqueue, EnqueueFanout
      <4> QED BY <4>1, EnqueueItem
    <3> DEFINE x == EventItem(sess[s].epoch, Head(sess[s].ready))
    <3>2. started' = TRUE /\ UNCHANGED drain /\ (queue' = queue \/ queue' = Append(queue, x))
      BY <1>21 DEF Enqueue, EnqueueFanout
    <3> HIDE DEF x
    <3>3. queue' \in Seq(Items)
      BY <3>1, <3>2 DEF TypeInv, QueueOK, x
    <3> QED BY <3>2, <3>3 DEF TypeInv, QueueOK
  <2> QED BY <2>1, <2>2, <2>3 DEF TypeInv, HostOK, RegOK, ProtoInv, InboxOK, AckOutOK, SeenOK, RestOK
<1>22. ASSUME NEW s \in Sessions, Note(s) PROVE TypeInv'
  <2>1. UNCHANGED << host, proto, inbox, evBuf, queue, drain, started, seen, lock, restarts >>
    BY <1>22 DEF Note
  <2>2. SessInv'
    BY <1>22, NoteMoves
  <2>3. RegOK'
    BY <1>22 DEF Note, NoteUpAck, TypeInv, RegOK, SessInv, SessOK
  <2>4. AckOutOK'
    <3>1. proto[sess[s].epoch].acked \in Seqs
      BY <1>22 DEF Note, TypeInv, ProtoInv, ReceiverOK, HostOK, RegOK, ServeInv, Attached
    <3> QED BY <1>22, <3>1 DEF Note, TypeInv, AckOutOK
  <2> QED BY <2>1, <2>2, <2>3, <2>4 DEF TypeInv, HostOK, ProtoInv, InboxOK, QueueOK, SeenOK, RestOK
<1>23. ASSUME NEW s \in Sessions, SendDown(s) PROVE TypeInv'
  <2>1. UNCHANGED << host, reg, proto, sess, inbox, evBuf, queue, drain, started, seen, lock, restarts >>
    BY <1>23 DEF SendDown
  <2>2. AckOutOK'
    <3>1. proto[sess[s].epoch].acked \in Seqs
      BY <1>23 DEF SendDown, TypeInv, ProtoInv, ReceiverOK, HostOK, RegOK, ServeInv, Attached
    <3> QED BY <1>23, <3>1 DEF SendDown, TypeInv, AckOutOK
  <2> QED BY <2>1, <2>2 DEF TypeInv, HostOK, RegOK, ProtoInv, SessInv, InboxOK, QueueOK, SeenOK, RestOK
<1>24. CASE UNCHANGED vars
  BY <1>24 DEF vars, hubVars, TypeInv, HostOK, RegOK, ProtoInv, SessInv, InboxOK, AckOutOK, QueueOK, SeenOK, RestOK
<1> QED
  BY <1>1, <1>2, <1>3, <1>4, <1>5, <1>6, <1>7, <1>8, <1>9, <1>10, <1>11, <1>12, <1>13,
     <1>14, <1>15, <1>16, <1>17, <1>18, <1>19, <1>20, <1>21, <1>22, <1>23, <1>24 DEF
     Next, SessionStep
-----------------------------------------------------------------------------
(* Who serves the host. *)

\* Session t stays in its epoch and in its phase: unused, attaching, serving or over.
Stays(t) == /\ sess'[t].epoch = sess[t].epoch
            /\ (sess'[t].pc = "new" <=> sess[t].pc = "new") /\ (sess'[t].pc = "attach" <=> sess[t].pc = "attach")
            /\ (Attached(t)' <=> Attached(t))

\* A session that stays the same stays in its phase.
LEMMA SameStays ==
  ASSUME NEW t \in Sessions, Same(t)
  PROVE  Stays(t)
BY DEF Same, Stays, Attached

\* So does a loop that moves on.
LEMMA MovesStay ==
  ASSUME NEW s \in Sessions, NEW pc \in {"hello", "idle", "accept", "gate", "buffer", "enqueue", "note", "closing"},
         NEW todo, NEW ready, NEW ack, Moves(s, pc, todo, ready, ack), Attached(s)
  PROVE  \A t \in Sessions : Stays(t)
<1>1. Stays(s)
  BY DEF Moves, Stays, Attached
<1>2. \A t \in Sessions \ {s} : Stays(t)
  BY SameStays DEF Moves
<1> QED BY <1>1, <1>2

\* Epochs and sessions are numbers.
LEMMA ServeIsNat ==
  ASSUME TypeInv
  PROVE  /\ reg.epoch \in Nat /\ host.epoch \in Nat /\ host.epoch # 0 /\ reg.session \in Nat /\ lock \in Nat
         /\ \A s \in Sessions : s \in Nat /\ s # 0 /\ sess[s].epoch \in Nat
         /\ \A e \in Epochs : e \in Nat /\ e # 0
<1>1. \A e \in Epochs : e \in Nat /\ e # 0
  BY Bounds
<1>2. \A s \in Sessions : s \in Nat /\ s # 0
  BY Bounds
<1>3. None = 0 /\ None \in Nat
  BY Bounds
<1>4. \A s \in Sessions : sess[s].epoch \in Nat
  BY <1>1 DEF TypeInv, SessInv, SessOK
<1> QED BY <1>1, <1>2, <1>3, <1>4 DEF TypeInv, HostOK, RegOK, RestOK

\* Nothing about who serves changes while the sessions stay in their phases.
LEMMA ServeKept ==
  ASSUME TypeInv, ServeInv, \A t \in Sessions : Stays(t), reg'.session = reg.session, reg'.epoch = reg.epoch,
         UNCHANGED << lock, overlapped >>, host'.epoch \in {host.epoch, host.epoch + 1}
  PROVE  ServeInv'
<1>1. reg.epoch \in Nat /\ host.epoch \in Nat /\ reg'.epoch <= host'.epoch
  BY ServeIsNat DEF ServeInv
<1>2. \A t \in Sessions : sess'[t].pc \in {"new", "attach"} <=> sess[t].pc \in {"new", "attach"}
  BY DEF Stays
<1>3. OnlineWhileServed'
  BY <1>2 DEF OnlineWhileServed, ServeInv, Stays
<1>4. /\ \A s, t \in Sessions : t < s /\ sess'[s].pc # "new" => sess'[t].pc # "new"
      /\ \A s \in Sessions : sess'[s].pc = "attach" => lock' = s
  BY DEF ServeInv, Stays
<1>5. lock' # None => /\ reg'.epoch # 0 /\ sess'[lock'].pc = "attach"
                      /\ \A t \in Sessions : t > lock' => sess'[t].pc = "new"
  BY DEF ServeInv, Stays, TypeInv, RestOK
<1>6. \A s \in Sessions :
          Attached(s)' => /\ sess'[s].epoch \in Epochs /\ sess'[s].epoch <= reg'.epoch
                          /\ (lock' # None => sess'[s].epoch < reg'.epoch)
  BY DEF ServeInv, Stays
<1>7. reg'.session # None => Attached(reg.session)' /\ (lock' = None => sess'[reg'.session].epoch = reg'.epoch)
  BY DEF ServeInv, Stays, TypeInv, RegOK
<1>8. reg'.epoch \notin overlapped' => \A s \in Sessions : Attached(s)' /\ sess'[s].epoch = reg'.epoch => reg'.session = s
  BY DEF ServeInv, Stays
<1> QED BY <1>1, <1>3, <1>4, <1>5, <1>6, <1>7, <1>8 DEF ServeInv

\* Every step keeps the registry true to who serves the host.
LEMMA ServeStep ==
  ASSUME TypeInv, ServeInv, LinkInv, LoopInv, [Next]_vars
  PROVE  ServeInv'
<1>1. ASSUME HostPublish PROVE ServeInv'
  <2>1. /\ UNCHANGED << sess, lock, overlapped >> /\ reg'.session = reg.session /\ reg'.epoch = reg.epoch
        /\ host'.epoch = host.epoch
    BY <1>1 DEF HostPublish, hubVars, TypeInv, RegOK, HostOK
  <2>2. \A t \in Sessions : Stays(t)
    BY <2>1 DEF Stays, Attached
  <2> QED BY <2>1, <2>2, ServeKept, ServeIsNat
<1>2. ASSUME HostSend PROVE ServeInv'
  <2>1. /\ UNCHANGED << sess, lock, overlapped >> /\ reg'.session = reg.session /\ reg'.epoch = reg.epoch
        /\ host'.epoch = host.epoch
    BY <1>2 DEF HostSend, hubVars, TypeInv, RegOK, HostOK
  <2>2. \A t \in Sessions : Stays(t)
    BY <2>1 DEF Stays, Attached
  <2> QED BY <2>1, <2>2, ServeKept, ServeIsNat
<1>3. ASSUME HostGetsAck PROVE ServeInv'
  <2>1. /\ UNCHANGED << sess, lock, overlapped >> /\ reg'.session = reg.session /\ reg'.epoch = reg.epoch
        /\ host'.epoch = host.epoch
    BY <1>3 DEF HostGetsAck, hubVars, TypeInv, RegOK, HostOK
  <2>2. \A t \in Sessions : Stays(t)
    BY <2>1 DEF Stays, Attached
  <2> QED BY <2>1, <2>2, ServeKept, ServeIsNat
<1>4. ASSUME HostDisconnect PROVE ServeInv'
  <2>1. /\ UNCHANGED << sess, lock, overlapped >> /\ reg'.session = reg.session /\ reg'.epoch = reg.epoch
        /\ host'.epoch = host.epoch
    BY <1>4 DEF HostDisconnect, hubVars, TypeInv, RegOK, HostOK
  <2>2. \A t \in Sessions : Stays(t)
    BY <2>1 DEF Stays, Attached
  <2> QED BY <2>1, <2>2, ServeKept, ServeIsNat
<1>5. ASSUME HostRestart PROVE ServeInv'
  <2>1. /\ UNCHANGED << sess, lock, overlapped >> /\ reg'.session = reg.session /\ reg'.epoch = reg.epoch
        /\ host'.epoch = host.epoch + 1
    BY <1>5 DEF HostRestart, hubVars, hubVars
  <2>2. \A t \in Sessions : Stays(t)
    BY <2>1 DEF Stays, Attached
  <2> QED BY <2>1, <2>2, ServeKept, ServeIsNat
<1>6. ASSUME DrainTake PROVE ServeInv'
  <2>1. /\ UNCHANGED << sess, lock, overlapped >> /\ reg'.session = reg.session /\ reg'.epoch = reg.epoch
        /\ host'.epoch = host.epoch
    BY <1>6 DEF DrainTake, TypeInv, RegOK, HostOK
  <2>2. \A t \in Sessions : Stays(t)
    BY <2>1 DEF Stays, Attached
  <2> QED BY <2>1, <2>2, ServeKept, ServeIsNat
<1>7. ASSUME DrainDeliver PROVE ServeInv'
  <2>1. /\ UNCHANGED << sess, lock, overlapped >> /\ reg'.session = reg.session /\ reg'.epoch = reg.epoch
        /\ host'.epoch = host.epoch
    BY <1>7 DEF DrainDeliver, TypeInv, RegOK, HostOK
  <2>2. \A t \in Sessions : Stays(t)
    BY <2>1 DEF Stays, Attached
  <2> QED BY <2>1, <2>2, ServeKept, ServeIsNat
<1>8. ASSUME HubRestart PROVE ServeInv'
  <2>1. reg'.session = 0 /\ reg'.epoch = 0 /\ lock' = 0 /\ host'.epoch = host.epoch /\ host.epoch \in Nat
    BY <1>8, Bounds DEF HubRestart, NewRegistry, TypeInv, HostOK
  <2>2. \A t \in Sessions : sess'[t].pc = IF sess[t].pc = "new" THEN "new" ELSE "done"
    <3>1. ASSUME NEW t \in Sessions PROVE [NewSession EXCEPT !.pc = "done"].pc = "done"
      BY DEF NewSession
    <3> QED BY <1>8, <3>1 DEF HubRestart
  <2>3. \A t \in Sessions : ~Attached(t)' /\ sess'[t].pc # "attach" /\ (sess'[t].pc = "new" <=> sess[t].pc = "new")
    BY <2>2 DEF Attached
  <2> QED BY <2>1, <2>3, Bounds DEF ServeInv, OnlineWhileServed
<1>9. ASSUME NEW timer \in timers, GraceClear(timer) PROVE ServeInv'
  <2>1. /\ UNCHANGED << sess, lock, overlapped >> /\ reg'.session = reg.session /\ reg'.epoch = reg.epoch
        /\ host'.epoch = host.epoch
    BY <1>9 DEF GraceClear, TypeInv, RegOK, HostOK
  <2>2. \A t \in Sessions : Stays(t)
    BY <2>1 DEF Stays, Attached
  <2> QED BY <2>1, <2>2, ServeKept, ServeIsNat
<1>10. ASSUME NEW s \in Sessions, AttachResume(s) PROVE ServeInv'
  <2>1. /\ lock = None /\ sess[s].pc = "new" /\ reg.epoch = host.epoch /\ UNCHANGED lock /\ host'.epoch = host.epoch
        /\ \A t \in Sessions : t < s => sess[t].pc # "new"
        /\ overlapped' = overlapped \cup {sess[t].epoch : t \in {u \in Sessions : Attached(u) /\ sess[u].epoch = host.epoch}}
    BY <1>10 DEF AttachResume, InstallSession, MayAttach, TypeInv, HostOK
  <2>2. sess'[s].pc = "hello" /\ sess'[s].epoch = reg.epoch /\ \A t \in Sessions \ {s} : Stays(t)
    BY <1>10, <2>1, AttachResumeBegins, SameStays DEF Begins
  <2>3. reg'.epoch = reg.epoch /\ reg'.session = s /\ reg.epoch \in Epochs
    BY <1>10, <2>1 DEF AttachResume, InstallSession, MayAttach, TypeInv, RegOK, HostOK
  <2>4. Attached(s)' /\ ~Attached(s)
    BY <2>1, <2>2 DEF Attached
  <2>5. \A t \in Sessions : t > s => sess[t].pc = "new" /\ sess'[t].pc = "new"
    BY <2>1, <2>2, Bounds DEF ServeInv, Stays
  <2>6. OnlineWhileServed'
    <3> SUFFICES ASSUME NEW u \in Sessions, Attached(u)', \A t \in Sessions : t > u => sess'[t].pc \in {"new", "attach"}
                 PROVE  u = s
      BY <2>3 DEF OnlineWhileServed
    <3>1. ~(s > u) /\ ~(u > s)
      BY <2>2, <2>5 DEF Attached
    <3>2. s \in Nat /\ u \in Nat
      BY Bounds
    <3> QED BY <3>1, <3>2
  <2>7. reg'.epoch \notin overlapped' => \A t \in Sessions : Attached(t)' /\ sess'[t].epoch = reg'.epoch => reg'.session = t
    <3>1. \A t \in Sessions : Attached(t) /\ sess[t].epoch = reg.epoch => reg.epoch \in overlapped'
      BY <2>1
    <3> QED BY <2>2, <2>3, <3>1 DEF Stays
  <2>8. \A t, u \in Sessions : u < t /\ sess'[t].pc # "new" => sess'[u].pc # "new"
    BY <2>1, <2>2, <2>5 DEF ServeInv, Stays
  <2>9. \A t \in Sessions : sess'[t].pc # "attach"
    BY <2>1, <2>2, Bounds DEF ServeInv, Stays
  <2>10. \A t \in Sessions : Attached(t)' => sess'[t].epoch \in Epochs /\ sess'[t].epoch <= reg'.epoch
    BY <2>2, <2>3, ServeIsNat DEF ServeInv, Stays
  <2> QED BY <2>1, <2>2, <2>3, <2>4, <2>6, <2>7, <2>8, <2>9, <2>10 DEF ServeInv
<1>11. ASSUME NEW s \in Sessions, AttachNewEpoch(s) PROVE ServeInv'
  <2>1. /\ lock = None /\ sess[s].pc = "new" /\ reg.epoch # host.epoch /\ lock' = s /\ host'.epoch = host.epoch
        /\ \A t \in Sessions : t < s => sess[t].pc # "new"
        /\ UNCHANGED overlapped
    BY <1>11 DEF AttachNewEpoch, MayAttach, TypeInv, HostOK
  <2>2. sess'[s].pc = "attach" /\ \A t \in Sessions \ {s} : Stays(t)
    BY <1>11, AttachNewEpochMoves, SameStays DEF Moves
  <2>3. reg'.epoch = host.epoch /\ reg'.session = reg.session /\ host.epoch \in Epochs
    BY <1>11 DEF AttachNewEpoch, MayAttach, TypeInv, RegOK, HostOK
  <2>4. ~Attached(s)' /\ ~Attached(s) /\ s # None /\ s \in Nat
    BY <2>1, <2>2, Bounds DEF Attached
  <2>5. \A t \in Sessions : t > s => sess[t].pc = "new" /\ sess'[t].pc = "new"
    BY <2>1, <2>2, Bounds DEF ServeInv, Stays
  <2>6. OnlineWhileServed'
    <3> SUFFICES ASSUME NEW u \in Sessions, Attached(u)', \A t \in Sessions : t > u => sess'[t].pc \in {"new", "attach"}
                 PROVE  reg.session = u
      BY <2>3 DEF OnlineWhileServed
    <3>1. Attached(u) /\ \A t \in Sessions : t > u => sess[t].pc \in {"new", "attach"}
      BY <2>1, <2>2, <2>4 DEF Stays
    <3> QED BY <3>1 DEF ServeInv, OnlineWhileServed
  <2>7. reg.epoch < host.epoch /\ reg.epoch \in Nat /\ host.epoch \in Nat /\ host.epoch # 0
    BY <2>1, <2>3, ServeIsNat DEF ServeInv
  <2>8. \A t \in Sessions : Attached(t)' => sess'[t].epoch \in Epochs /\ sess'[t].epoch < reg'.epoch
    BY <2>2, <2>3, <2>4, <2>7, ServeIsNat DEF ServeInv, Stays
  <2>9. \A t, u \in Sessions : u < t /\ sess'[t].pc # "new" => sess'[u].pc # "new"
    BY <2>1, <2>2, <2>5 DEF ServeInv, Stays
  <2>10. \A t \in Sessions : sess'[t].pc = "attach" => t = s
    BY <2>1, <2>2, Bounds DEF ServeInv, Stays
  <2>11. reg.session # None => Attached(reg.session)'
    BY <2>1, <2>2, <2>3 DEF ServeInv, Stays, TypeInv, RegOK, Attached
  <2> QED BY <2>1, <2>2, <2>3, <2>4, <2>5, <2>6, <2>7, <2>8, <2>9, <2>10, <2>11, ServeIsNat DEF ServeInv, Attached
<1>12. ASSUME NEW s \in Sessions, AttachFinish(s) PROVE ServeInv'
  <2>1. /\ lock = s /\ lock' = None /\ host'.epoch = host.epoch /\ UNCHANGED overlapped /\ s # None
    BY <1>12, Bounds DEF AttachFinish, TypeInv, HostOK
  <2>2. sess'[s].pc = "hello" /\ sess'[s].epoch = reg.epoch /\ \A t \in Sessions \ {s} : Stays(t)
    BY <1>12, AttachFinishBegins, SameStays DEF Begins
  <2>3. reg'.epoch = reg.epoch /\ reg'.session = s /\ reg.epoch \in Epochs
    BY <1>12, <2>1, Bounds DEF AttachFinish, TypeInv, RegOK, ServeInv
  <2>4. Attached(s)' /\ sess[s].pc = "attach"
    BY <2>1, <2>2 DEF Attached, ServeInv
  <2>5. \A t \in Sessions : t > s => sess[t].pc = "new" /\ sess'[t].pc = "new"
    BY <2>1, <2>2, Bounds DEF ServeInv, Stays
  <2>6. OnlineWhileServed'
    <3> SUFFICES ASSUME NEW u \in Sessions, Attached(u)', \A t \in Sessions : t > u => sess'[t].pc \in {"new", "attach"}
                 PROVE  u = s
      BY <2>3 DEF OnlineWhileServed
    <3>1. ~(s > u) /\ ~(u > s)
      BY <2>2, <2>5 DEF Attached
    <3>2. s \in Nat /\ u \in Nat
      BY Bounds
    <3> QED BY <3>1, <3>2
  <2>7. \A t \in Sessions : t # s /\ Attached(t)' => sess'[t].epoch \in Epochs /\ sess'[t].epoch < reg.epoch
    BY <2>1, <2>2 DEF ServeInv, Stays
  <2>8. \A t, u \in Sessions : u < t /\ sess'[t].pc # "new" => sess'[u].pc # "new"
    BY <2>1, <2>2, <2>4, <2>5 DEF ServeInv, Stays
  <2>9. \A t \in Sessions : sess'[t].pc # "attach"
    BY <2>1, <2>2, Bounds DEF ServeInv, Stays
  <2>10. \A t \in Sessions : Attached(t)' => sess'[t].epoch \in Epochs /\ sess'[t].epoch <= reg.epoch /\ (sess'[t].epoch = reg.epoch => t = s)
    BY <2>2, <2>3, <2>7, ServeIsNat
  <2> QED BY <2>1, <2>2, <2>3, <2>4, <2>6, <2>8, <2>9, <2>10 DEF ServeInv
<1>13. ASSUME NEW s \in Sessions, LoseFrame(s) PROVE ServeInv'
  <2>1. /\ UNCHANGED << sess, lock, overlapped >> /\ reg'.session = reg.session /\ reg'.epoch = reg.epoch
        /\ host'.epoch = host.epoch
    BY <1>13 DEF LoseFrame, TypeInv, RegOK, HostOK
  <2>2. \A t \in Sessions : Stays(t)
    BY <2>1 DEF Stays, Attached
  <2> QED BY <2>1, <2>2, ServeKept, ServeIsNat
<1>14. ASSUME NEW s \in Sessions, Start(s) PROVE ServeInv'
  <2>1. \A t \in Sessions : Stays(t)
    BY <1>14, StartMoves, MovesStay DEF Start, Attached
  <2>2. /\ reg'.session = reg.session /\ reg'.epoch = reg.epoch /\ UNCHANGED << lock, overlapped >>
        /\ host'.epoch = host.epoch
    BY <1>14 DEF Start
  <2> QED BY <2>1, <2>2, ServeKept, ServeIsNat
<1>15. ASSUME NEW s \in Sessions, Close(s) PROVE ServeInv'
  <2>1. \A t \in Sessions : Stays(t)
    BY <1>15, CloseMoves, MovesStay DEF Close, Attached
  <2>2. /\ reg'.session = reg.session /\ reg'.epoch = reg.epoch /\ UNCHANGED << lock, overlapped >>
        /\ host'.epoch = host.epoch
    BY <1>15 DEF Close
  <2> QED BY <2>1, <2>2, ServeKept, ServeIsNat
<1>16. ASSUME NEW s \in Sessions, Detach(s) PROVE ServeInv'
  <2>1. sess[s].pc = "closing" /\ lock = None /\ UNCHANGED << lock, overlapped >> /\ host'.epoch = host.epoch
    BY <1>16 DEF Detach, TypeInv, HostOK
  <2>2. sess'[s].pc = "done" /\ \A t \in Sessions \ {s} : Stays(t)
    BY <1>16, DetachBegins, SameStays DEF Begins
  <2>3. reg'.epoch = reg.epoch /\ reg'.session = IF reg.session = s THEN None ELSE reg.session
    BY <1>16 DEF Detach, OwnsRegistry, TypeInv, RegOK
  <2>4. Attached(s) /\ ~Attached(s)' /\ s # None
    BY <2>1, <2>2, Bounds DEF Attached
  <2>5. \A t \in Sessions : Attached(t)' => t # s /\ Attached(t) /\ sess'[t].epoch = sess[t].epoch
    BY <2>2, <2>4 DEF Stays
  <2>6. OnlineWhileServed'
    <3> SUFFICES ASSUME NEW u \in Sessions, Attached(u)', \A t \in Sessions : t > u => sess'[t].pc \in {"new", "attach"}
                 PROVE  reg'.session = u
      BY DEF OnlineWhileServed
    <3>1. u # s /\ Attached(u) /\ ~(s > u)
      BY <2>2, <2>5
    <3>2. \A t \in Sessions : t > u => sess[t].pc \in {"new", "attach"}
      BY <2>2, <3>1 DEF Stays
    <3>3. reg.session = u
      BY <3>1, <3>2 DEF ServeInv, OnlineWhileServed
    <3> QED BY <2>3, <3>1, <3>3
  <2>7. reg'.session # None => Attached(reg.session)' /\ sess'[reg'.session].epoch = reg'.epoch
    BY <2>1, <2>2, <2>3 DEF ServeInv, Stays, TypeInv, RegOK
  <2>8. reg'.epoch \notin overlapped' => \A t \in Sessions : Attached(t)' /\ sess'[t].epoch = reg'.epoch => reg'.session = t
    BY <2>1, <2>3, <2>5 DEF ServeInv
  <2>9. \A t, u \in Sessions : u < t /\ sess'[t].pc # "new" => sess'[u].pc # "new"
    BY <2>1, <2>2 DEF ServeInv, Stays
  <2>10. \A t \in Sessions : sess'[t].pc # "attach"
    BY <2>1, <2>2, Bounds DEF ServeInv, Stays
  <2> QED BY <2>1, <2>3, <2>5, <2>6, <2>7, <2>8, <2>9, <2>10 DEF ServeInv
<1>17. ASSUME NEW s \in Sessions, Read(s) PROVE ServeInv'
  <2>0. PICK run \in Seq(Seqs) : Moves(s, "accept", run, << >>, 0)
    BY <1>17, ReadMoves
  <2>1. \A t \in Sessions : Stays(t)
    BY <1>17, <2>0, MovesStay DEF Read, Attached
  <2>2. /\ reg'.session = reg.session /\ reg'.epoch = reg.epoch /\ UNCHANGED << lock, overlapped >>
        /\ host'.epoch = host.epoch
    BY <1>17 DEF Read
  <2> QED BY <2>1, <2>2, ServeKept, ServeIsNat
<1>18. ASSUME NEW s \in Sessions, Accept(s) PROVE ServeInv'
  <2>0. \E pc \in {"accept", "gate", "note", "closing"} : \E todo, ready, ack : Moves(s, pc, todo, ready, ack)
    <3>1. CASE Overflows(proto[sess[s].epoch], Head(sess[s].todo))
      BY <1>18, <3>1, AcceptOverflows
    <3>2. CASE ~Overflows(proto[sess[s].epoch], Head(sess[s].todo))
      BY <1>18, <3>2, AcceptMoves
    <3> QED BY <3>1, <3>2
  <2>4. PICK pc \in {"accept", "gate", "note", "closing"} : \E todo, ready, ack : Moves(s, pc, todo, ready, ack)
    BY <2>0
  <2>1. \A t \in Sessions : Stays(t)
    BY <1>18, <2>4, MovesStay DEF Accept, Attached
  <2>2. /\ reg'.session = reg.session /\ reg'.epoch = reg.epoch /\ UNCHANGED << lock, overlapped >>
        /\ host'.epoch = host.epoch
    BY <1>18 DEF Accept
  <2> QED BY <2>1, <2>2, ServeKept, ServeIsNat
<1>19. ASSUME NEW s \in Sessions, Gate(s) PROVE ServeInv'
  <2>0. PICK pc \in {"buffer", "closing"} : Moves(s, pc, sess[s].todo, sess[s].ready, sess[s].ack)
    BY <1>19, GateMoves
  <2>1. \A t \in Sessions : Stays(t)
    BY <1>19, <2>0, MovesStay DEF Gate, Attached
  <2>2. /\ reg'.session = reg.session /\ reg'.epoch = reg.epoch /\ UNCHANGED << lock, overlapped >>
        /\ host'.epoch = host.epoch
    BY <1>19 DEF Gate
  <2> QED BY <2>1, <2>2, ServeKept, ServeIsNat
<1>20. ASSUME NEW s \in Sessions, Buffer(s) PROVE ServeInv'
  <2>0. PICK pc \in {"enqueue", "closing"} : Moves(s, pc, sess[s].todo, sess[s].ready, sess[s].ack)
    BY <1>20, BufferMoves
  <2>1. \A t \in Sessions : Stays(t)
    BY <1>20, <2>0, MovesStay DEF Buffer, Attached
  <2>2. /\ reg'.session = reg.session /\ reg'.epoch = reg.epoch /\ UNCHANGED << lock, overlapped >>
        /\ host'.epoch = host.epoch
    BY <1>20 DEF Buffer
  <2> QED BY <2>1, <2>2, ServeKept, ServeIsNat
<1>21. ASSUME NEW s \in Sessions, Enqueue(s) PROVE ServeInv'
  <2>0. PICK pc \in {"buffer", "note"} : Moves(s, pc, sess[s].todo, Tail(sess[s].ready), sess[s].ack)
    BY <1>21, EnqueueMoves
  <2>1. \A t \in Sessions : Stays(t)
    BY <1>21, <2>0, MovesStay DEF Enqueue, EnqueueFanout, Attached
  <2>2. /\ reg'.session = reg.session /\ reg'.epoch = reg.epoch /\ UNCHANGED << lock, overlapped >>
        /\ host'.epoch = host.epoch
    BY <1>21 DEF Enqueue, EnqueueFanout
  <2> QED BY <2>1, <2>2, ServeKept, ServeIsNat
<1>22. ASSUME NEW s \in Sessions, Note(s) PROVE ServeInv'
  <2>0. PICK pc \in {"closing", "idle"} : Moves(s, pc, sess[s].todo, sess[s].ready, sess[s].ack)
    BY <1>22, NoteMoves
  <2>1. \A t \in Sessions : Stays(t)
    BY <1>22, <2>0, MovesStay DEF Note, Attached
  <2>2. UNCHANGED << host, lock, overlapped >> /\ (reg' = [reg EXCEPT !.upAcked = NoteUpAck(s, sess[s].ack)] \/ reg' = reg)
    BY <1>22 DEF Note
  <2>3. reg'.session = reg.session /\ reg'.epoch = reg.epoch
    BY <2>2 DEF TypeInv, RegOK
  <2> QED BY <2>1, <2>2, <2>3, ServeKept, ServeIsNat
<1>23. ASSUME NEW s \in Sessions, SendDown(s) PROVE ServeInv'
  <2>1. /\ UNCHANGED << sess, lock, overlapped >> /\ reg'.session = reg.session /\ reg'.epoch = reg.epoch
        /\ host'.epoch = host.epoch
    BY <1>23 DEF SendDown, TypeInv, RegOK, HostOK
  <2>2. \A t \in Sessions : Stays(t)
    BY <2>1 DEF Stays, Attached
  <2> QED BY <2>1, <2>2, ServeKept, ServeIsNat
<1>24. CASE UNCHANGED vars
  BY <1>24 DEF vars, hubVars, ServeInv, OnlineWhileServed, Attached
<1> QED
  BY <1>1, <1>2, <1>3, <1>4, <1>5, <1>6, <1>7, <1>8, <1>9, <1>10, <1>11, <1>12, <1>13,
     <1>14, <1>15, <1>16, <1>17, <1>18, <1>19, <1>20, <1>21, <1>22, <1>23, <1>24 DEF
     Next, SessionStep
-----------------------------------------------------------------------------
(* What the host is told. *)

\* Watermarks are numbers.
LEMMA AckedIsNat ==
  ASSUME TypeInv
  PROVE  /\ \A e \in Epochs : proto[e].acked \in Nat /\ proto[e].acked <= proto[e].acked
         /\ \A s \in Sessions : ackOut[s] \in Nat /\ sess[s].ack \in Nat
         /\ host.acked \in Nat /\ reg.base \in Nat /\ reg.upAcked \in Nat /\ reg.evBufEpoch \in Nat
<1>1. \A q \in Seqs : q \in Nat
  BY Bounds
<1>2. \A e \in Epochs : proto[e].acked \in Nat
  BY <1>1 DEF TypeInv, ProtoInv, ReceiverOK
<1>3. \A s \in Sessions : ackOut[s] \in Nat /\ sess[s].ack \in Nat
  BY <1>1 DEF TypeInv, AckOutOK, SessInv, SessOK
<1>4. host.acked \in Nat /\ reg.base \in Nat /\ reg.upAcked \in Nat /\ reg.evBufEpoch \in Nat
  BY <1>1 DEF TypeInv, HostOK, RegOK
<1> QED BY <1>2, <1>3, <1>4

\* Rising watermarks and acks copied from them keep the link invariant.
LEMMA LinkKept ==
  ASSUME TypeInv, ServeInv, LinkInv, TypeInv', \A t \in Sessions : Stays(t), host'.link \in {host.link, None},
         host'.epoch = host.epoch, host'.acked = host.acked, reg'.epoch = reg.epoch, reg'.base = reg.base,
         reg'.evBufEpoch = reg.evBufEpoch, UNCHANGED lock, timers' \subseteq timers,
         \A e \in Epochs : proto[e].acked <= proto'[e].acked,
         \A t \in Sessions : Attached(t) => /\ ackOut'[t] \in {ackOut[t], proto'[sess[t].epoch].acked}
                                           /\ sess'[t].ack \in {sess[t].ack, 0, proto'[sess[t].epoch].acked}
  PROVE  LinkInv'
<1>1. host'.link # None => /\ sess'[host'.link].pc # "new" /\ host'.link = host.link
                           /\ (sess'[host'.link].pc \notin {"new", "attach", "done"} => sess'[host'.link].epoch = host'.epoch)
                           /\ (lock' = host'.link => reg'.epoch = host'.epoch)
  BY DEF LinkInv, Stays, Attached, TypeInv, HostOK
<1>2. \A e \in Epochs : proto[e].acked \in Nat /\ proto'[e].acked \in Nat /\ proto[e].acked <= proto'[e].acked
  <2>1. \A e \in Epochs : proto[e].acked \in Nat
    BY AckedIsNat
  <2>2. \A e \in Epochs : proto'[e].acked \in Nat
    BY Bounds DEF TypeInv, ProtoInv, ReceiverOK
  <2> QED BY <2>1, <2>2
<1>3. ASSUME NEW t \in Sessions, Attached(t)'
      PROVE  /\ ackOut'[t] <= proto'[sess'[t].epoch].acked /\ sess'[t].ack <= proto'[sess'[t].epoch].acked
  <2>1. Attached(t) /\ sess'[t].epoch = sess[t].epoch /\ sess[t].epoch \in Epochs
    BY <1>3 DEF Stays, ServeInv
  <2> DEFINE n == proto[sess[t].epoch].acked
             m == proto'[sess[t].epoch].acked
  <2>2. ackOut[t] <= n /\ sess[t].ack <= n /\ n <= m /\ n \in Nat /\ m \in Nat /\ ackOut[t] \in Nat /\ sess[t].ack \in Nat
    BY <1>2, <2>1, AckedIsNat DEF LinkInv
  <2>3. ackOut'[t] \in {ackOut[t], m} /\ sess'[t].ack \in {sess[t].ack, 0, m}
    BY <2>1
  <2> HIDE DEF n, m
  <2>4. ackOut'[t] <= m /\ sess'[t].ack <= m
    BY <2>2, <2>3
  <2> QED BY <2>1, <2>4 DEF m
<1>4. reg'.epoch = host'.epoch => host'.acked <= proto'[host'.epoch].acked
  BY <1>2, AckedIsNat DEF LinkInv, TypeInv, HostOK
<1>5. reg'.epoch # 0 => reg'.base <= proto'[reg'.epoch].acked
  <2>1. reg.epoch # 0 => reg.epoch \in Epochs
    BY DEF TypeInv, RegOK
  <2> QED BY <1>2, <2>1, AckedIsNat DEF LinkInv
<1>6. timers' \subseteq 0 .. reg'.evBufEpoch
  BY DEF LinkInv
<1> QED BY <1>1, <1>3, <1>4, <1>5, <1>6 DEF LinkInv, Attached

\* Every step keeps acks below the watermark they speak of.
LEMMA LinkStep ==
  ASSUME TypeInv, TypeInv', ServeInv, LinkInv, LoopInv, [Next]_vars
  PROVE  LinkInv'
<1>1. ASSUME HostPublish PROVE LinkInv'
  <2>1. \A t \in Sessions : Stays(t)
    BY <1>1 DEF HostPublish, hubVars, Stays, Attached, hubVars
  <2>2. /\ host'.link \in {host.link, None} /\ host'.epoch = host.epoch /\ host'.acked = host.acked
        /\ reg'.epoch = reg.epoch /\ reg'.base = reg.base /\ reg'.evBufEpoch = reg.evBufEpoch
        /\ UNCHANGED lock /\ timers' \subseteq timers
    BY <1>1 DEF HostPublish, hubVars, TypeInv, HostOK, RegOK, hubVars
  <2>3. \A e \in Epochs : proto[e].acked <= proto'[e].acked
    BY <1>1, AckedIsNat DEF HostPublish, hubVars, hubVars
  <2>4. \A t \in Sessions : Attached(t) => /\ ackOut'[t] \in {ackOut[t], proto'[sess[t].epoch].acked}
                                          /\ sess'[t].ack \in {sess[t].ack, 0, proto'[sess[t].epoch].acked}
    BY <1>1 DEF HostPublish, hubVars, TypeInv, AckOutOK, hubVars
  <2> QED BY <2>1, <2>2, <2>3, <2>4, LinkKept
<1>2. ASSUME HostSend PROVE LinkInv'
  <2>1. \A t \in Sessions : Stays(t)
    BY <1>2 DEF HostSend, hubVars, Stays, Attached
  <2>2. /\ host'.link \in {host.link, None} /\ host'.epoch = host.epoch /\ host'.acked = host.acked
        /\ reg'.epoch = reg.epoch /\ reg'.base = reg.base /\ reg'.evBufEpoch = reg.evBufEpoch
        /\ UNCHANGED lock /\ timers' \subseteq timers
    BY <1>2 DEF HostSend, hubVars, TypeInv, HostOK, RegOK
  <2>3. \A e \in Epochs : proto[e].acked <= proto'[e].acked
    BY <1>2, AckedIsNat DEF HostSend, hubVars
  <2>4. \A t \in Sessions : Attached(t) => /\ ackOut'[t] \in {ackOut[t], proto'[sess[t].epoch].acked}
                                          /\ sess'[t].ack \in {sess[t].ack, 0, proto'[sess[t].epoch].acked}
    BY <1>2 DEF HostSend, hubVars, TypeInv, AckOutOK
  <2> QED BY <2>1, <2>2, <2>3, <2>4, LinkKept
<1>3. ASSUME HostGetsAck PROVE LinkInv'
  <2> DEFINE l == host.link
  <2>1. /\ l \in Sessions /\ Attached(l) /\ host'.link = l /\ host'.epoch = host.epoch /\ host'.acked = ackOut[l]
        /\ UNCHANGED << reg, lock, proto, sess, ackOut, timers >>
    BY <1>3 DEF HostGetsAck, hubVars, hubVars, TypeInv, HostOK
  <2>2. sess[l].pc # "new" /\ sess[l].epoch = host.epoch /\ (lock = l => reg.epoch = host.epoch)
    BY <2>1, ServeIsNat DEF LinkInv, None
  <2>3. ackOut[l] <= proto[host.epoch].acked
    BY <2>1, <2>2 DEF LinkInv
  <2> QED BY <2>1, <2>2, <2>3 DEF LinkInv, Attached
<1>4. ASSUME HostDisconnect PROVE LinkInv'
  <2>1. \A t \in Sessions : Stays(t)
    BY <1>4 DEF HostDisconnect, hubVars, Stays, Attached, hubVars
  <2>2. /\ host'.link \in {host.link, None} /\ host'.epoch = host.epoch /\ host'.acked = host.acked
        /\ reg'.epoch = reg.epoch /\ reg'.base = reg.base /\ reg'.evBufEpoch = reg.evBufEpoch
        /\ UNCHANGED lock /\ timers' \subseteq timers
    BY <1>4 DEF HostDisconnect, hubVars, TypeInv, HostOK, RegOK, hubVars
  <2>3. \A e \in Epochs : proto[e].acked <= proto'[e].acked
    BY <1>4, AckedIsNat DEF HostDisconnect, hubVars, hubVars
  <2>4. \A t \in Sessions : Attached(t) => /\ ackOut'[t] \in {ackOut[t], proto'[sess[t].epoch].acked}
                                          /\ sess'[t].ack \in {sess[t].ack, 0, proto'[sess[t].epoch].acked}
    BY <1>4 DEF HostDisconnect, hubVars, TypeInv, AckOutOK, hubVars
  <2> QED BY <2>1, <2>2, <2>3, <2>4, LinkKept
<1>5. ASSUME HostRestart PROVE LinkInv'
  <2>1. /\ host'.link = None /\ host'.epoch = host.epoch + 1
        /\ UNCHANGED << reg, lock, proto, sess, ackOut, timers >>
    BY <1>5 DEF HostRestart, hubVars, hubVars
  <2>2. reg'.epoch # host'.epoch
    BY <2>1, ServeIsNat DEF ServeInv
  <2> QED BY <2>1, <2>2 DEF LinkInv, Attached
<1>6. ASSUME DrainTake PROVE LinkInv'
  <2>1. \A t \in Sessions : Stays(t)
    BY <1>6 DEF DrainTake, Stays, Attached
  <2>2. /\ host'.link \in {host.link, None} /\ host'.epoch = host.epoch /\ host'.acked = host.acked
        /\ reg'.epoch = reg.epoch /\ reg'.base = reg.base /\ reg'.evBufEpoch = reg.evBufEpoch
        /\ UNCHANGED lock /\ timers' \subseteq timers
    BY <1>6 DEF DrainTake, TypeInv, HostOK, RegOK
  <2>3. \A e \in Epochs : proto[e].acked <= proto'[e].acked
    BY <1>6, AckedIsNat DEF DrainTake
  <2>4. \A t \in Sessions : Attached(t) => /\ ackOut'[t] \in {ackOut[t], proto'[sess[t].epoch].acked}
                                          /\ sess'[t].ack \in {sess[t].ack, 0, proto'[sess[t].epoch].acked}
    BY <1>6 DEF DrainTake, TypeInv, AckOutOK
  <2> QED BY <2>1, <2>2, <2>3, <2>4, LinkKept
<1>7. ASSUME DrainDeliver PROVE LinkInv'
  <2>1. \A t \in Sessions : Stays(t)
    BY <1>7 DEF DrainDeliver, Stays, Attached
  <2>2. /\ host'.link \in {host.link, None} /\ host'.epoch = host.epoch /\ host'.acked = host.acked
        /\ reg'.epoch = reg.epoch /\ reg'.base = reg.base /\ reg'.evBufEpoch = reg.evBufEpoch
        /\ UNCHANGED lock /\ timers' \subseteq timers
    BY <1>7 DEF DrainDeliver, TypeInv, HostOK, RegOK
  <2>3. \A e \in Epochs : proto[e].acked <= proto'[e].acked
    BY <1>7, AckedIsNat DEF DrainDeliver
  <2>4. \A t \in Sessions : Attached(t) => /\ ackOut'[t] \in {ackOut[t], proto'[sess[t].epoch].acked}
                                          /\ sess'[t].ack \in {sess[t].ack, 0, proto'[sess[t].epoch].acked}
    BY <1>7 DEF DrainDeliver, TypeInv, AckOutOK
  <2> QED BY <2>1, <2>2, <2>3, <2>4, LinkKept
<1>8. ASSUME HubRestart PROVE LinkInv'
  <2>1. /\ host'.link = None /\ host'.epoch = host.epoch /\ reg'.epoch = 0 /\ timers' = {}
    BY <1>8 DEF HubRestart, NewRegistry, TypeInv, HostOK
  <2>2. \A t \in Sessions : sess'[t].pc \in {"new", "done"}
    <3>1. [NewSession EXCEPT !.pc = "done"].pc = "done"
      BY DEF NewSession
    <3> QED BY <1>8, <3>1 DEF HubRestart
  <2> QED BY <2>1, <2>2, ServeIsNat DEF LinkInv, Attached
<1>9. ASSUME NEW timer \in timers, GraceClear(timer) PROVE LinkInv'
  <2>1. \A t \in Sessions : Stays(t)
    BY <1>9 DEF GraceClear, Stays, Attached
  <2>2. /\ host'.link \in {host.link, None} /\ host'.epoch = host.epoch /\ host'.acked = host.acked
        /\ reg'.epoch = reg.epoch /\ reg'.base = reg.base /\ reg'.evBufEpoch = reg.evBufEpoch
        /\ UNCHANGED lock /\ timers' \subseteq timers
    BY <1>9 DEF GraceClear, TypeInv, HostOK, RegOK
  <2>3. \A e \in Epochs : proto[e].acked <= proto'[e].acked
    BY <1>9, AckedIsNat DEF GraceClear
  <2>4. \A t \in Sessions : Attached(t) => /\ ackOut'[t] \in {ackOut[t], proto'[sess[t].epoch].acked}
                                          /\ sess'[t].ack \in {sess[t].ack, 0, proto'[sess[t].epoch].acked}
    BY <1>9 DEF GraceClear, TypeInv, AckOutOK
  <2> QED BY <2>1, <2>2, <2>3, <2>4, LinkKept
<1>10. ASSUME NEW s \in Sessions, AttachResume(s) PROVE LinkInv'
  <2>1. /\ lock' = None /\ sess[s].pc = "new" /\ reg.epoch = host.epoch
        /\ host'.link = s /\ host'.epoch = host.epoch /\ host'.acked = host.acked
        /\ reg'.epoch = reg.epoch /\ reg'.base = reg.base /\ reg'.evBufEpoch = reg.evBufEpoch + 1
        /\ UNCHANGED << proto, timers >> /\ ackOut'[s] = proto[host.epoch].acked
        /\ (\A t \in Sessions \ {s} : ackOut'[t] = ackOut[t])
    BY <1>10 DEF AttachResume, InstallSession, MayAttach, TypeInv, HostOK, RegOK, AckOutOK
  <2>2. sess'[s].pc = "hello" /\ sess'[s].epoch = host.epoch /\ sess'[s].ack = 0 /\ \A t \in Sessions \ {s} : Same(t)
    BY <1>10, AttachResumeBegins DEF Begins
  <2>3. s # None /\ \A t \in Sessions \ {s} : Stays(t)
    BY <2>2, SameStays, Bounds
  <2>4. \A t \in Sessions : Attached(t)' => /\ ackOut'[t] <= proto'[sess'[t].epoch].acked
                                           /\ sess'[t].ack <= proto'[sess'[t].epoch].acked
    <3>1. proto[host.epoch].acked \in Nat
      BY AckedIsNat DEF TypeInv, HostOK
    <3> QED BY <2>1, <2>2, <2>3, <3>1 DEF LinkInv, Stays, Same
  <2>5. timers' \subseteq 0 .. reg'.evBufEpoch
    BY <2>1, AckedIsNat DEF LinkInv
  <2>6. reg'.epoch # 0 => reg'.base <= proto'[reg'.epoch].acked
    BY <2>1 DEF LinkInv
  <2> QED BY <2>1, <2>2, <2>3, <2>4, <2>5, <2>6 DEF LinkInv
<1>11. ASSUME NEW s \in Sessions, AttachNewEpoch(s) PROVE LinkInv'
  <2>1. /\ lock = None /\ lock' = s /\ sess[s].pc = "new" /\ reg.epoch # host.epoch
        /\ host'.link = s /\ host'.epoch = host.epoch /\ host'.acked = host.acked
        /\ reg'.epoch = host.epoch /\ reg'.base = host.acked /\ reg'.evBufEpoch = reg.evBufEpoch
        /\ UNCHANGED << ackOut, timers >> /\ host.epoch \in Epochs
    BY <1>11 DEF AttachNewEpoch, MayAttach, TypeInv, HostOK, RegOK
  <2>2. sess'[s].pc = "attach" /\ \A t \in Sessions \ {s} : Same(t)
    BY <1>11, AttachNewEpochMoves DEF Moves
  <2>3. s # None /\ ~Attached(s)' /\ \A t \in Sessions \ {s} : Stays(t)
    BY <2>2, SameStays, Bounds DEF Attached
  <2>4. proto'[host.epoch].acked = host.acked /\ \A e \in Epochs \ {host.epoch} : proto'[e] = proto[e]
    BY <1>11, <2>1 DEF AttachNewEpoch, MayAttach, TypeInv, ProtoInv, NewReceiver
  <2>5. \A t \in Sessions : Attached(t) => sess[t].epoch \in Epochs /\ sess[t].epoch # host.epoch
    <3>1. reg.epoch < host.epoch
      BY <2>1, ServeIsNat DEF ServeInv
    <3> QED BY <3>1, ServeIsNat DEF ServeInv
  <2>6. \A t \in Sessions : Attached(t)' => /\ ackOut'[t] <= proto'[sess'[t].epoch].acked
                                           /\ sess'[t].ack <= proto'[sess'[t].epoch].acked
    BY <2>1, <2>2, <2>3, <2>4, <2>5 DEF LinkInv, Stays, Same
  <2>7. host.acked <= host.acked
    BY AckedIsNat
  <2> QED BY <2>1, <2>2, <2>3, <2>4, <2>6, <2>7 DEF LinkInv
<1>12. ASSUME NEW s \in Sessions, AttachFinish(s) PROVE LinkInv'
  <2>1. /\ lock = s /\ lock' = None /\ reg.epoch \in Epochs /\ s # None
        /\ host'.link = host.link /\ host'.epoch = host.epoch /\ host'.acked = host.acked
        /\ reg'.epoch = reg.epoch /\ reg'.base = reg.base /\ reg'.evBufEpoch = reg.evBufEpoch + 1
        /\ UNCHANGED << proto, timers >> /\ ackOut'[s] = proto[reg.epoch].acked
        /\ (\A t \in Sessions \ {s} : ackOut'[t] = ackOut[t])
    BY <1>12, Bounds DEF AttachFinish, TypeInv, HostOK, RegOK, AckOutOK, ServeInv
  <2>2. sess'[s].pc = "hello" /\ sess'[s].epoch = reg.epoch /\ sess'[s].ack = 0 /\ \A t \in Sessions \ {s} : Same(t)
    BY <1>12, AttachFinishBegins DEF Begins
  <2>3. \A t \in Sessions \ {s} : Stays(t)
    BY <2>2, SameStays
  <2>4. \A t \in Sessions : Attached(t)' => /\ ackOut'[t] <= proto'[sess'[t].epoch].acked
                                           /\ sess'[t].ack <= proto'[sess'[t].epoch].acked
    <3>1. proto[reg.epoch].acked \in Nat
      BY <2>1, AckedIsNat
    <3> QED BY <2>1, <2>2, <2>3, <3>1 DEF LinkInv, Stays, Same
  <2>5. timers' \subseteq 0 .. reg'.evBufEpoch
    BY <2>1, AckedIsNat DEF LinkInv
  <2>6. host.link # None => /\ sess'[host.link].pc # "new"
                            /\ (Attached(host.link)' => sess'[host.link].epoch = host.epoch)
    <3>1. CASE host.link = s
      BY <2>1, <2>2, <3>1 DEF LinkInv
    <3>2. CASE host.link \in Sessions \ {s}
      BY <2>1, <2>3, <3>2 DEF LinkInv, Stays
    <3> QED BY <3>1, <3>2 DEF TypeInv, HostOK
  <2> QED BY <2>1, <2>4, <2>5, <2>6 DEF LinkInv
<1>13. ASSUME NEW s \in Sessions, LoseFrame(s) PROVE LinkInv'
  <2>1. \A t \in Sessions : Stays(t)
    BY <1>13 DEF LoseFrame, Stays, Attached
  <2>2. /\ host'.link \in {host.link, None} /\ host'.epoch = host.epoch /\ host'.acked = host.acked
        /\ reg'.epoch = reg.epoch /\ reg'.base = reg.base /\ reg'.evBufEpoch = reg.evBufEpoch
        /\ UNCHANGED lock /\ timers' \subseteq timers
    BY <1>13 DEF LoseFrame, TypeInv, HostOK, RegOK
  <2>3. \A e \in Epochs : proto[e].acked <= proto'[e].acked
    BY <1>13, AckedIsNat DEF LoseFrame
  <2>4. \A t \in Sessions : Attached(t) => /\ ackOut'[t] \in {ackOut[t], proto'[sess[t].epoch].acked}
                                          /\ sess'[t].ack \in {sess[t].ack, 0, proto'[sess[t].epoch].acked}
    BY <1>13 DEF LoseFrame, TypeInv, AckOutOK
  <2> QED BY <2>1, <2>2, <2>3, <2>4, LinkKept
<1>14. ASSUME NEW s \in Sessions, Start(s) PROVE LinkInv'
  <2>1. \A t \in Sessions : Stays(t)
    BY <1>14, StartMoves, MovesStay DEF Start, Attached
  <2>2. /\ host'.link \in {host.link, None} /\ host'.epoch = host.epoch /\ host'.acked = host.acked
        /\ reg'.epoch = reg.epoch /\ reg'.base = reg.base /\ reg'.evBufEpoch = reg.evBufEpoch
        /\ UNCHANGED lock /\ timers' \subseteq timers
    BY <1>14 DEF Start, TypeInv, HostOK, RegOK
  <2>3. \A e \in Epochs : proto[e].acked <= proto'[e].acked
    BY <1>14, AckedIsNat DEF Start
  <2>4. \A t \in Sessions : Attached(t) => /\ ackOut'[t] \in {ackOut[t], proto'[sess[t].epoch].acked}
                                          /\ sess'[t].ack \in {sess[t].ack, 0, proto'[sess[t].epoch].acked}
    <3>1. \A t \in Sessions : sess'[t].ack \in {sess[t].ack, 0}
      BY <1>14, StartMoves DEF Moves, Same
    <3> QED BY <1>14, <3>1 DEF Start, TypeInv, AckOutOK
  <2> QED BY <2>1, <2>2, <2>3, <2>4, LinkKept
<1>15. ASSUME NEW s \in Sessions, Close(s) PROVE LinkInv'
  <2>1. \A t \in Sessions : Stays(t)
    BY <1>15, CloseMoves, MovesStay DEF Close, Attached
  <2>2. /\ host'.link \in {host.link, None} /\ host'.epoch = host.epoch /\ host'.acked = host.acked
        /\ reg'.epoch = reg.epoch /\ reg'.base = reg.base /\ reg'.evBufEpoch = reg.evBufEpoch
        /\ UNCHANGED lock /\ timers' \subseteq timers
    BY <1>15 DEF Close, TypeInv, HostOK, RegOK
  <2>3. \A e \in Epochs : proto[e].acked <= proto'[e].acked
    BY <1>15, AckedIsNat DEF Close
  <2>4. \A t \in Sessions : Attached(t) => /\ ackOut'[t] \in {ackOut[t], proto'[sess[t].epoch].acked}
                                          /\ sess'[t].ack \in {sess[t].ack, 0, proto'[sess[t].epoch].acked}
    <3>1. \A t \in Sessions : sess'[t].ack \in {sess[t].ack, 0}
      BY <1>15, CloseMoves DEF Moves, Same
    <3> QED BY <1>15, <3>1 DEF Close, TypeInv, AckOutOK
  <2> QED BY <2>1, <2>2, <2>3, <2>4, LinkKept
<1>16. ASSUME NEW s \in Sessions, Detach(s) PROVE LinkInv'
  <2>1. /\ lock = None /\ lock' = None /\ host'.link = (IF host.link = s THEN None ELSE host.link) /\ s # None
        /\ host'.epoch = host.epoch /\ host'.acked = host.acked /\ UNCHANGED << proto, ackOut >>
    BY <1>16, Bounds DEF Detach, TypeInv, HostOK
  <2>2. sess'[s].pc = "done" /\ \A t \in Sessions \ {s} : Same(t)
    BY <1>16, DetachBegins DEF Begins
  <2>3. ~Attached(s)' /\ \A t \in Sessions \ {s} : Stays(t)
    BY <2>2, SameStays DEF Attached
  <2>4. /\ reg'.epoch = reg.epoch /\ reg'.base = reg.base
        /\ \/ reg'.evBufEpoch = reg.evBufEpoch + 1 /\ timers' = timers \cup {reg.evBufEpoch + 1}
           \/ UNCHANGED << reg, timers >>
    BY <1>16 DEF Detach, TypeInv, RegOK
  <2>5. timers' \subseteq 0 .. reg'.evBufEpoch
    <3>1. timers \subseteq 0 .. reg.evBufEpoch /\ reg.evBufEpoch \in Nat
      BY AckedIsNat DEF LinkInv
    <3>2. CASE reg'.evBufEpoch = reg.evBufEpoch + 1 /\ timers' = timers \cup {reg.evBufEpoch + 1}
      <4> DEFINE n == reg.evBufEpoch
      <4> HIDE DEF n
      <4>1. \A k \in timers : k \in 0 .. n + 1
        BY <3>1 DEF n
      <4>2. n + 1 \in 0 .. n + 1
        BY <3>1 DEF n
      <4>3. timers' = timers \cup {n + 1} /\ reg'.evBufEpoch = n + 1
        BY <3>2 DEF n
      <4> QED BY <4>1, <4>2, <4>3
    <3>3. CASE UNCHANGED << reg, timers >>
      BY <3>1, <3>3
    <3> QED BY <2>4, <3>2, <3>3
  <2>6. \A t \in Sessions : Attached(t)' => /\ ackOut'[t] <= proto'[sess'[t].epoch].acked
                                           /\ sess'[t].ack <= proto'[sess'[t].epoch].acked
    BY <2>1, <2>2, <2>3 DEF LinkInv, Stays, Same
  <2>7. host'.link # None => /\ sess'[host.link].pc # "new" /\ host'.link = host.link
                             /\ (Attached(host.link)' => sess'[host.link].epoch = host.epoch)
    BY <2>1, <2>3 DEF LinkInv, Stays, TypeInv, HostOK
  <2> QED BY <2>1, <2>4, <2>5, <2>6, <2>7 DEF LinkInv, Attached
<1>17. ASSUME NEW s \in Sessions, Read(s) PROVE LinkInv'
  <2>0. PICK run \in Seq(Seqs) : Moves(s, "accept", run, << >>, 0)
    BY <1>17, ReadMoves
  <2>1. \A t \in Sessions : Stays(t)
    BY <1>17, <2>0, MovesStay DEF Read, Attached
  <2>2. /\ host'.link \in {host.link, None} /\ host'.epoch = host.epoch /\ host'.acked = host.acked
        /\ reg'.epoch = reg.epoch /\ reg'.base = reg.base /\ reg'.evBufEpoch = reg.evBufEpoch
        /\ UNCHANGED lock /\ timers' \subseteq timers
    BY <1>17 DEF Read, TypeInv, HostOK, RegOK
  <2>3. \A e \in Epochs : proto[e].acked <= proto'[e].acked
    BY <1>17, AckedIsNat DEF Read
  <2>4. \A t \in Sessions : Attached(t) => /\ ackOut'[t] \in {ackOut[t], proto'[sess[t].epoch].acked}
                                          /\ sess'[t].ack \in {sess[t].ack, 0, proto'[sess[t].epoch].acked}
    <3>1. \A t \in Sessions : sess'[t].ack \in {sess[t].ack, 0}
      BY <1>17, <2>0 DEF Moves, Same
    <3> QED BY <1>17, <3>1 DEF Read, TypeInv, AckOutOK
  <2> QED BY <2>1, <2>2, <2>3, <2>4, LinkKept
<1>18. ASSUME NEW s \in Sessions, Accept(s) PROVE LinkInv'
  <2>2. /\ host'.link \in {host.link, None} /\ host'.epoch = host.epoch /\ host'.acked = host.acked
        /\ reg'.epoch = reg.epoch /\ reg'.base = reg.base /\ reg'.evBufEpoch = reg.evBufEpoch
        /\ UNCHANGED << lock, ackOut >> /\ timers' \subseteq timers /\ Attached(s)
    BY <1>18 DEF Accept, TypeInv, HostOK, RegOK, Attached
  <2>5. CASE Overflows(proto[sess[s].epoch], Head(sess[s].todo))
    <3>0. proto' = proto /\ Moves(s, "closing", sess[s].todo, sess[s].ready, sess[s].ack)
      BY <1>18, <2>5, AcceptOverflows
    <3>1. \A t \in Sessions : Stays(t)
      BY <2>2, <3>0, MovesStay
    <3>2. \A t \in Sessions : sess'[t].ack = sess[t].ack
      BY <3>0 DEF Moves, Same
    <3>3. \A e \in Epochs : proto[e].acked <= proto'[e].acked
      BY <3>0, AckedIsNat
    <3> QED BY <2>2, <3>1, <3>2, <3>3, LinkKept
  <2>6. CASE ~Overflows(proto[sess[s].epoch], Head(sess[s].todo))
    <3> DEFINE e == sess[s].epoch
               a == AcceptReceiver(proto[e], Head(sess[s].todo), Head(sess[s].todo))
               rest == Tail(sess[s].todo)
               got == sess[s].ready \o AcceptReady(proto[e], Head(sess[s].todo), Head(sess[s].todo))
    <3>0. /\ proto'[e] = a /\ (\A d \in Epochs \ {e} : proto'[d] = proto[d]) /\ e \in Epochs
          /\ ReceiverOK(proto[e]) /\ Head(sess[s].todo) \in Seqs
          /\ \E pc \in {"accept", "gate", "note"} : Moves(s, pc, rest, got, a.acked)
      BY <1>18, <2>6, AcceptMoves
    <3> HIDE DEF rest, got
    <3>4. PICK pc \in {"accept", "gate", "note"} : Moves(s, pc, rest, got, a.acked)
      BY <3>0
    <3>5. proto[e].acked <= a.acked
      BY <3>0, AcceptOK
    <3> HIDE DEF a, e
    <3>1. \A t \in Sessions : Stays(t)
      BY <2>2, <3>4, MovesStay
    <3>2. sess'[s].ack = proto'[e].acked /\ \A t \in Sessions \ {s} : sess'[t].ack = sess[t].ack
      BY <3>0, <3>4 DEF Moves, Same
    <3>3. \A d \in Epochs : proto[d].acked <= proto'[d].acked
      BY <3>0, <3>5, AckedIsNat
    <3>6. \A t \in Sessions : Attached(t) => /\ ackOut'[t] \in {ackOut[t], proto'[sess[t].epoch].acked}
                                            /\ sess'[t].ack \in {sess[t].ack, 0, proto'[sess[t].epoch].acked}
      BY <2>2, <3>2 DEF e
    <3> QED BY <2>2, <3>1, <3>3, <3>6, LinkKept
  <2> QED BY <2>5, <2>6
<1>19. ASSUME NEW s \in Sessions, Gate(s) PROVE LinkInv'
  <2>0. PICK pc \in {"buffer", "closing"} : Moves(s, pc, sess[s].todo, sess[s].ready, sess[s].ack)
    BY <1>19, GateMoves
  <2>1. \A t \in Sessions : Stays(t)
    BY <1>19, <2>0, MovesStay DEF Gate, Attached
  <2>2. /\ host'.link \in {host.link, None} /\ host'.epoch = host.epoch /\ host'.acked = host.acked
        /\ reg'.epoch = reg.epoch /\ reg'.base = reg.base /\ reg'.evBufEpoch = reg.evBufEpoch
        /\ UNCHANGED lock /\ timers' \subseteq timers
    BY <1>19 DEF Gate, TypeInv, HostOK, RegOK
  <2>3. \A e \in Epochs : proto[e].acked <= proto'[e].acked
    BY <1>19, AckedIsNat DEF Gate
  <2>4. \A t \in Sessions : Attached(t) => /\ ackOut'[t] \in {ackOut[t], proto'[sess[t].epoch].acked}
                                          /\ sess'[t].ack \in {sess[t].ack, 0, proto'[sess[t].epoch].acked}
    <3>1. \A t \in Sessions : sess'[t].ack \in {sess[t].ack, 0}
      BY <1>19, <2>0 DEF Moves, Same
    <3> QED BY <1>19, <3>1 DEF Gate, TypeInv, AckOutOK
  <2> QED BY <2>1, <2>2, <2>3, <2>4, LinkKept
<1>20. ASSUME NEW s \in Sessions, Buffer(s) PROVE LinkInv'
  <2>0. PICK pc \in {"enqueue", "closing"} : Moves(s, pc, sess[s].todo, sess[s].ready, sess[s].ack)
    BY <1>20, BufferMoves
  <2>1. \A t \in Sessions : Stays(t)
    BY <1>20, <2>0, MovesStay DEF Buffer, Attached
  <2>2. /\ host'.link \in {host.link, None} /\ host'.epoch = host.epoch /\ host'.acked = host.acked
        /\ reg'.epoch = reg.epoch /\ reg'.base = reg.base /\ reg'.evBufEpoch = reg.evBufEpoch
        /\ UNCHANGED lock /\ timers' \subseteq timers
    BY <1>20 DEF Buffer, TypeInv, HostOK, RegOK
  <2>3. \A e \in Epochs : proto[e].acked <= proto'[e].acked
    BY <1>20, AckedIsNat DEF Buffer
  <2>4. \A t \in Sessions : Attached(t) => /\ ackOut'[t] \in {ackOut[t], proto'[sess[t].epoch].acked}
                                          /\ sess'[t].ack \in {sess[t].ack, 0, proto'[sess[t].epoch].acked}
    <3>1. \A t \in Sessions : sess'[t].ack \in {sess[t].ack, 0}
      BY <1>20, <2>0 DEF Moves, Same
    <3> QED BY <1>20, <3>1 DEF Buffer, TypeInv, AckOutOK
  <2> QED BY <2>1, <2>2, <2>3, <2>4, LinkKept
<1>21. ASSUME NEW s \in Sessions, Enqueue(s) PROVE LinkInv'
  <2>0. PICK pc \in {"buffer", "note"} : Moves(s, pc, sess[s].todo, Tail(sess[s].ready), sess[s].ack)
    BY <1>21, EnqueueMoves
  <2>1. \A t \in Sessions : Stays(t)
    BY <1>21, <2>0, MovesStay DEF Enqueue, EnqueueFanout, Attached
  <2>2. /\ host'.link \in {host.link, None} /\ host'.epoch = host.epoch /\ host'.acked = host.acked
        /\ reg'.epoch = reg.epoch /\ reg'.base = reg.base /\ reg'.evBufEpoch = reg.evBufEpoch
        /\ UNCHANGED lock /\ timers' \subseteq timers
    BY <1>21 DEF Enqueue, EnqueueFanout, TypeInv, HostOK, RegOK
  <2>3. \A e \in Epochs : proto[e].acked <= proto'[e].acked
    BY <1>21, AckedIsNat DEF Enqueue, EnqueueFanout
  <2>4. \A t \in Sessions : Attached(t) => /\ ackOut'[t] \in {ackOut[t], proto'[sess[t].epoch].acked}
                                          /\ sess'[t].ack \in {sess[t].ack, 0, proto'[sess[t].epoch].acked}
    <3>1. \A t \in Sessions : sess'[t].ack \in {sess[t].ack, 0}
      BY <1>21, <2>0 DEF Moves, Same
    <3> QED BY <1>21, <3>1 DEF Enqueue, EnqueueFanout, TypeInv, AckOutOK
  <2> QED BY <2>1, <2>2, <2>3, <2>4, LinkKept
<1>22. ASSUME NEW s \in Sessions, Note(s) PROVE LinkInv'
  <2>0. PICK pc \in {"closing", "idle"} : Moves(s, pc, sess[s].todo, sess[s].ready, sess[s].ack)
    BY <1>22, NoteMoves
  <2>1. \A t \in Sessions : Stays(t)
    BY <1>22, <2>0, MovesStay DEF Note, Attached
  <2>2. /\ host'.link \in {host.link, None} /\ host'.epoch = host.epoch /\ host'.acked = host.acked
        /\ reg'.epoch = reg.epoch /\ reg'.base = reg.base /\ reg'.evBufEpoch = reg.evBufEpoch
        /\ UNCHANGED lock /\ timers' \subseteq timers
    BY <1>22 DEF Note, TypeInv, HostOK, RegOK
  <2>3. \A e \in Epochs : proto[e].acked <= proto'[e].acked
    BY <1>22, AckedIsNat DEF Note
  <2>4. \A t \in Sessions : Attached(t) => /\ ackOut'[t] \in {ackOut[t], proto'[sess[t].epoch].acked}
                                          /\ sess'[t].ack \in {sess[t].ack, 0, proto'[sess[t].epoch].acked}
    <3>1. \A t \in Sessions : sess'[t].ack \in {sess[t].ack, 0}
      BY <1>22, <2>0 DEF Moves, Same
    <3> QED BY <1>22, <3>1 DEF Note, TypeInv, AckOutOK
  <2> QED BY <2>1, <2>2, <2>3, <2>4, LinkKept
<1>23. ASSUME NEW s \in Sessions, SendDown(s) PROVE LinkInv'
  <2>1. \A t \in Sessions : Stays(t)
    BY <1>23 DEF SendDown, Stays, Attached
  <2>2. /\ host'.link \in {host.link, None} /\ host'.epoch = host.epoch /\ host'.acked = host.acked
        /\ reg'.epoch = reg.epoch /\ reg'.base = reg.base /\ reg'.evBufEpoch = reg.evBufEpoch
        /\ UNCHANGED lock /\ timers' \subseteq timers
    BY <1>23 DEF SendDown, TypeInv, HostOK, RegOK
  <2>3. \A e \in Epochs : proto[e].acked <= proto'[e].acked
    BY <1>23, AckedIsNat DEF SendDown
  <2>4. \A t \in Sessions : Attached(t) => /\ ackOut'[t] \in {ackOut[t], proto'[sess[t].epoch].acked}
                                          /\ sess'[t].ack \in {sess[t].ack, 0, proto'[sess[t].epoch].acked}
    BY <1>23 DEF SendDown, TypeInv, AckOutOK
  <2> QED BY <2>1, <2>2, <2>3, <2>4, LinkKept
<1>24. CASE UNCHANGED vars
  BY <1>24 DEF vars, hubVars, LinkInv, Attached
<1> QED
  BY <1>1, <1>2, <1>3, <1>4, <1>5, <1>6, <1>7, <1>8, <1>9, <1>10, <1>11, <1>12, <1>13,
     <1>14, <1>15, <1>16, <1>17, <1>18, <1>19, <1>20, <1>21, <1>22, <1>23, <1>24 DEF
     Next, SessionStep
-----------------------------------------------------------------------------
(* What a loop carries. *)

\* A loop that carries nothing owes nothing.
LEMMA NotCarryingOK ==
  ASSUME NEW t \in Sessions, sess'[t].pc \notin {"accept", "gate", "buffer", "enqueue"}
  PROVE  LoopOK(t)'
BY DEF LoopOK, Carrying

\* A rising watermark leaves the loops that did not move in order.
LEMMA LoopKept ==
  ASSUME TypeInv, TypeInv', ServeInv, LoopInv, NEW s \in Sessions, \A t \in Sessions \ {s} : Same(t), LoopOK(s)',
         \A t \in Sessions : Carrying(t) => proto'[sess[t].epoch].acked >= proto[sess[t].epoch].acked
  PROVE  LoopInv'
<1>1. ASSUME NEW t \in Sessions \ {s} PROVE LoopOK(t)'
  <2>1. CASE Carrying(t)
    <3> DEFINE n == proto[sess[t].epoch].acked
               m == proto'[sess[t].epoch].acked
    <3>1. sess[t].epoch \in Epochs
      BY <2>1 DEF ServeInv, Carrying, Attached
    <3>2. n \in Nat /\ m \in Nat /\ n <= m
      <4>1. n \in Nat
        BY <3>1, AckedIsNat
      <4>2. m \in Nat
        BY <3>1, Bounds DEF TypeInv, ProtoInv, ReceiverOK
      <4>3. m >= n
        BY <2>1
      <4> HIDE DEF n, m
      <4> QED BY <4>1, <4>2, <4>3
    <3>3. LoopOK(t) /\ Same(t) /\ sess[t].ready \in Seq(Seqs) /\ sess[t].todo \in Seq(Seqs)
      BY <1>1 DEF LoopInv, TypeInv, SessInv, SessOK
    <3>4. (\A i \in DOMAIN sess[t].ready : sess[t].ready[i] \in Nat) /\ (sess[t].todo # << >> => Head(sess[t].todo) \in Nat)
      <4>1. \A q \in Seqs : q \in Nat
        BY Bounds
      <4> QED BY <3>3, <4>1
    <3>5. \A i \in DOMAIN sess[t].ready : sess[t].ready[i] <= m
      <4>1. \A i \in DOMAIN sess[t].ready : sess[t].ready[i] <= n
        BY <2>1, <3>3 DEF LoopOK
      <4> HIDE DEF n, m
      <4> QED BY <3>2, <3>4, <4>1
    <3>6. sess[t].pc = "accept" /\ sess[t].ready # << >> => Head(sess[t].todo) <= m + 1
      <4>1. sess[t].pc = "accept" /\ sess[t].ready # << >> => Head(sess[t].todo) <= n + 1 /\ sess[t].todo # << >>
        BY <3>3 DEF LoopOK
      <4> HIDE DEF n, m
      <4> QED BY <3>2, <3>4, <4>1
    <3> HIDE DEF n
    <3> QED BY <2>1, <3>3, <3>5, <3>6 DEF LoopOK, Same, Carrying
  <2>2. CASE ~Carrying(t)
    <3>1. sess'[t].pc \notin {"accept", "gate", "buffer", "enqueue"}
      BY <1>1, <2>2 DEF Carrying, Same
    <3> QED BY <3>1, NotCarryingOK
  <2> QED BY <2>1, <2>2
<1> QED BY <1>1 DEF LoopInv

\* So does an unchanged one.
LEMMA LoopRest ==
  ASSUME TypeInv, LoopInv, UNCHANGED proto
  PROVE  /\ (\A t \in Sessions : Same(t)) => LoopInv'
         /\ \A s \in Sessions : (\A t \in Sessions \ {s} : Same(t)) /\ LoopOK(s)' => LoopInv'
<1>1. ASSUME NEW t \in Sessions, Same(t) PROVE LoopOK(t)'
  BY <1>1 DEF LoopInv, LoopOK, Same, Carrying
<1> QED BY <1>1 DEF LoopInv

\* Accepting appends to what a loop carries and never leaves a gap in front of its rest.
LEMMA AcceptLoopOK ==
  ASSUME TypeInv, ServeInv, LoopInv, NEW s \in Sessions, Accept(s),
         ~Overflows(proto[sess[s].epoch], Head(sess[s].todo))
  PROVE  LoopOK(s)' /\ (\A t \in Sessions \ {s} : Same(t)) /\ \A d \in Epochs : proto'[d].acked >= proto[d].acked
<1> DEFINE e == sess[s].epoch
           p == proto[e]
           q == Head(sess[s].todo)
           todo == sess[s].todo
           a == AcceptReceiver(p, q, q)
           g == AcceptReady(p, q, q)
           r == sess[s].ready
           got == r \o g
           rest == Tail(sess[s].todo)
<1>1. /\ e \in Epochs /\ q \in Seqs /\ ReceiverOK(p) /\ todo # << >>
      /\ proto'[e] = a /\ \A d \in Epochs \ {e} : proto'[d] = proto[d]
      /\ got \in Seq(Seqs) /\ rest \in Seq(Seqs)
      /\ \E pc \in {"accept", "gate", "note"} :
             /\ Moves(s, pc, rest, got, a.acked)
             /\ pc = "accept" => rest # << >>
             /\ pc = "gate" => got # << >>
             /\ pc = "note" => got = << >>
  BY AcceptMoves, SMTT(60)
<1>2. sess[s].pc = "accept" /\ LoopOK(s) /\ r \in Seq(Seqs) /\ todo \in Seq(Seqs)
  BY DEF Accept, LoopInv, TypeInv, SessInv, SessOK
<1>3. /\ (\A i, j \in DOMAIN r : i < j => r[i] < r[j]) /\ (\A i \in DOMAIN r : r[i] <= p.acked)
      /\ (\A i, j \in DOMAIN todo : j = i + 1 => todo[j] = todo[i] + 1) /\ (r # << >> => q <= p.acked + 1)
  BY <1>2 DEF LoopOK, Carrying
<1> HIDE DEF e, p, todo, r, rest
<1>4. /\ ReceiverOK(a) /\ p.acked <= a.acked /\ g \in Seq(Seqs) /\ Len(g) = a.acked - p.acked
      /\ \A i \in 1 .. Len(g) : g[i] = p.acked + i
      /\ q <= p.acked + 1 => q <= a.acked
      /\ g # << >> => q = p.acked + 1
  BY <1>1, AcceptOK
<1>5. p.acked \in Nat /\ a.acked \in Nat /\ q \in Nat /\ \A i \in DOMAIN r : r[i] \in Nat
  <2>1. \A n \in Seqs : n \in Nat
    BY Bounds
  <2> QED BY <1>1, <1>2, <1>4, <2>1, SMTT(60) DEF ReceiverOK
<1> HIDE DEF a, g, q
<1>6. /\ Len(got) = Len(r) + Len(g) /\ \A i \in 1 .. Len(r) : got[i] = r[i]
      /\ \A i \in 1 .. Len(g) : got[Len(r) + i] = g[i]
  <2>1. r \in Seq(Seqs) /\ g \in Seq(Seqs)
    BY <1>2, <1>4
  <2> QED BY <2>1, ConcatOK
<1> HIDE DEF got
<1>7. Len(r) \in Nat /\ Len(g) \in Nat /\ DOMAIN got = 1 .. (Len(r) + Len(g)) /\ DOMAIN r = 1 .. Len(r)
  BY <1>1, <1>2, <1>4, <1>6
<1>8. \A i \in DOMAIN got : i \in 1 .. Len(r) \/ (i - Len(r) \in 1 .. Len(g) /\ got[i] = p.acked + (i - Len(r)))
  <2> SUFFICES ASSUME NEW i \in DOMAIN got, i \notin 1 .. Len(r)
               PROVE  i - Len(r) \in 1 .. Len(g) /\ got[i] = p.acked + (i - Len(r))
    OBVIOUS
  <2>1. i - Len(r) \in 1 .. Len(g) /\ Len(r) + (i - Len(r)) = i
    BY <1>7
  <2> QED BY <1>4, <1>6, <2>1
<1>9. \A i, j \in DOMAIN got : i < j => got[i] < got[j]
  <2> SUFFICES ASSUME NEW i \in DOMAIN got, NEW j \in DOMAIN got, i < j PROVE got[i] < got[j]
    OBVIOUS
  <2>1. CASE j \in 1 .. Len(r)
    <3>1. i \in 1 .. Len(r)
      BY <1>7, <2>1
    <3> QED BY <1>3, <1>6, <1>7, <2>1, <3>1
  <2>2. CASE j \notin 1 .. Len(r) /\ i \in 1 .. Len(r)
    <3>1. got[j] = p.acked + (j - Len(r)) /\ j - Len(r) \in 1 .. Len(g) /\ got[i] = r[i] /\ r[i] <= p.acked /\ r[i] \in Nat
      BY <1>3, <1>5, <1>6, <1>7, <1>8, <2>2
    <3> QED BY <1>5, <1>7, <3>1
  <2>3. CASE j \notin 1 .. Len(r) /\ i \notin 1 .. Len(r)
    <3>1. got[j] = p.acked + (j - Len(r)) /\ got[i] = p.acked + (i - Len(r))
      BY <1>8, <2>3
    <3> QED BY <1>5, <1>7, <3>1
  <2> QED BY <2>1, <2>2, <2>3
<1>10. \A i \in DOMAIN got : got[i] <= a.acked
  <2> SUFFICES ASSUME NEW i \in DOMAIN got PROVE got[i] <= a.acked
    OBVIOUS
  <2>1. CASE i \in 1 .. Len(r)
    <3>1. got[i] = r[i] /\ r[i] <= p.acked /\ r[i] \in Nat
      BY <1>3, <1>5, <1>6, <1>7, <2>1
    <3> QED BY <1>4, <1>5, <3>1
  <2>2. CASE i \notin 1 .. Len(r)
    <3>1. got[i] = p.acked + (i - Len(r)) /\ i - Len(r) \in 1 .. Len(g)
      BY <1>8, <2>2
    <3> QED BY <1>4, <1>5, <1>7, <3>1
  <2> QED BY <2>1, <2>2
<1>11. /\ Len(rest) = Len(todo) - 1 /\ Len(todo) \in Nat
       /\ \A i \in 1 .. Len(todo) - 1 : i + 1 \in DOMAIN todo /\ rest[i] = todo[i + 1]
  BY <1>1, <1>2 DEF rest, todo
<1>12. \A i, j \in DOMAIN rest : j = i + 1 => rest[j] = rest[i] + 1
  <2> SUFFICES ASSUME NEW i \in DOMAIN rest, NEW j \in DOMAIN rest, j = i + 1 PROVE rest[j] = rest[i] + 1
    OBVIOUS
  <2>1. i \in 1 .. Len(todo) - 1 /\ j \in 1 .. Len(todo) - 1
    BY <1>1, <1>11
  <2>2. i + 1 \in DOMAIN todo /\ j + 1 \in DOMAIN todo /\ j + 1 = (i + 1) + 1 /\ rest[i] = todo[i + 1] /\ rest[j] = todo[j + 1]
    BY <1>11, <2>1
  <2> QED BY <1>3, <2>2
<1>13. rest # << >> /\ got # << >> => Head(rest) <= a.acked + 1
  <2> SUFFICES ASSUME rest # << >>, got # << >> PROVE Head(rest) <= a.acked + 1
    OBVIOUS
  <2>1. Head(rest) = rest[1] /\ 1 \in 1 .. Len(todo) - 1 /\ 1 \in DOMAIN todo /\ 2 \in DOMAIN todo
    BY <1>1, <1>2, <1>11
  <2>2. rest[1] = todo[1 + 1] /\ todo[2] = todo[1] + 1
    BY <1>3, <1>11, <2>1
  <2>3. todo[1] = q
    BY <1>1, <1>2 DEF q, todo
  <2>4. r # << >> \/ g # << >>
    BY <1>2, <1>4, <1>6 DEF got
  <2>5. q <= p.acked + 1
    BY <1>3, <1>4, <1>5, <2>4
  <2> QED BY <1>4, <1>5, <2>1, <2>2, <2>3, <2>5
<1>14. PICK pc \in {"accept", "gate", "note"} :
           /\ Moves(s, pc, rest, got, a.acked)
           /\ pc = "accept" => rest # << >>
           /\ pc = "gate" => got # << >>
           /\ pc = "note" => got = << >>
  BY <1>1
<1>15. sess'[s].pc = pc /\ sess'[s].todo = rest /\ sess'[s].ready = got /\ sess'[s].epoch = e /\ proto'[e].acked = a.acked
  BY <1>1, <1>14 DEF Moves, e
<1>16. LoopOK(s)'
  BY <1>9, <1>10, <1>12, <1>13, <1>14, <1>15 DEF LoopOK, Carrying
<1>17. \A d \in Epochs : proto'[d].acked >= proto[d].acked
  <2>1. \A d \in Epochs \ {e} : proto'[d].acked >= proto[d].acked
    BY <1>1, AckedIsNat
  <2>2. proto'[e].acked >= proto[e].acked
    BY <1>4, <1>5, <1>15 DEF p
  <2> QED BY <2>1, <2>2
<1> QED BY <1>14, <1>16, <1>17 DEF Moves

\* Every step keeps what the loops carry in order.
LEMMA LoopStep ==
  ASSUME TypeInv, TypeInv', ServeInv, LoopInv, [Next]_vars
  PROVE  LoopInv'
<1>1. ASSUME HostPublish PROVE LoopInv'
  <2>1. \A t \in Sessions : Same(t)
    BY <1>1 DEF HostPublish, hubVars, hubVars, Same
  <2>2. UNCHANGED proto
    BY <1>1 DEF HostPublish, hubVars, hubVars
  <2> QED BY <2>1, <2>2, LoopRest
<1>2. ASSUME HostSend PROVE LoopInv'
  <2>1. \A t \in Sessions : Same(t)
    BY <1>2 DEF HostSend, hubVars, Same
  <2>2. UNCHANGED proto
    BY <1>2 DEF HostSend, hubVars
  <2> QED BY <2>1, <2>2, LoopRest
<1>3. ASSUME HostGetsAck PROVE LoopInv'
  <2>1. \A t \in Sessions : Same(t)
    BY <1>3 DEF HostGetsAck, hubVars, hubVars, Same
  <2>2. UNCHANGED proto
    BY <1>3 DEF HostGetsAck, hubVars, hubVars
  <2> QED BY <2>1, <2>2, LoopRest
<1>4. ASSUME HostDisconnect PROVE LoopInv'
  <2>1. \A t \in Sessions : Same(t)
    BY <1>4 DEF HostDisconnect, hubVars, hubVars, Same
  <2>2. UNCHANGED proto
    BY <1>4 DEF HostDisconnect, hubVars, hubVars
  <2> QED BY <2>1, <2>2, LoopRest
<1>5. ASSUME HostRestart PROVE LoopInv'
  <2>1. \A t \in Sessions : Same(t)
    BY <1>5 DEF HostRestart, hubVars, hubVars, Same
  <2>2. UNCHANGED proto
    BY <1>5 DEF HostRestart, hubVars, hubVars
  <2> QED BY <2>1, <2>2, LoopRest
<1>6. ASSUME DrainTake PROVE LoopInv'
  <2>1. \A t \in Sessions : Same(t)
    BY <1>6 DEF DrainTake, Same
  <2>2. UNCHANGED proto
    BY <1>6 DEF DrainTake
  <2> QED BY <2>1, <2>2, LoopRest
<1>7. ASSUME DrainDeliver PROVE LoopInv'
  <2>1. \A t \in Sessions : Same(t)
    BY <1>7 DEF DrainDeliver, Same
  <2>2. UNCHANGED proto
    BY <1>7 DEF DrainDeliver
  <2> QED BY <2>1, <2>2, LoopRest
<1>8. ASSUME HubRestart PROVE LoopInv'
  <2>1. [NewSession EXCEPT !.pc = "done"].pc = "done"
    BY DEF NewSession
  <2>2. \A t \in Sessions : sess'[t].pc \in {"new", "done"}
    BY <1>8, <2>1 DEF HubRestart
  <2>3. \A t \in Sessions : LoopOK(t)'
    BY <2>2, NotCarryingOK
  <2> QED BY <2>3 DEF LoopInv
<1>9. ASSUME NEW timer \in timers, GraceClear(timer) PROVE LoopInv'
  <2>1. \A t \in Sessions : Same(t)
    BY <1>9 DEF GraceClear, Same
  <2>2. UNCHANGED proto
    BY <1>9 DEF GraceClear
  <2> QED BY <2>1, <2>2, LoopRest
<1>10. ASSUME NEW s \in Sessions, AttachResume(s) PROVE LoopInv'
  <2>1. (\A t \in Sessions \ {s} : Same(t)) /\ sess'[s].pc \notin {"accept", "gate", "buffer", "enqueue"}
    BY <1>10, AttachResumeBegins DEF Moves, Begins
  <2>2. LoopOK(s)'
    BY <2>1, NotCarryingOK
  <2>3. UNCHANGED proto
    BY <1>10 DEF AttachResume, InstallSession, MayAttach
  <2> QED BY <2>1, <2>2, <2>3, LoopRest
<1>11. ASSUME NEW s \in Sessions, AttachNewEpoch(s) PROVE LoopInv'
  <2>1. (\A t \in Sessions \ {s} : Same(t)) /\ sess'[s].pc = "attach"
    BY <1>11, AttachNewEpochMoves DEF Moves
  <2>2. LoopOK(s)'
    BY <2>1, NotCarryingOK
  <2>3. \A t \in Sessions : Carrying(t) => sess[t].epoch \in Epochs /\ sess[t].epoch # host.epoch
    <3>1. reg.epoch < host.epoch
      BY <1>11, ServeIsNat DEF AttachNewEpoch, MayAttach, ServeInv
    <3> QED BY <3>1, ServeIsNat DEF ServeInv, Carrying, Attached
  <2>4. \A e \in Epochs \ {host.epoch} : proto'[e] = proto[e]
    BY <1>11 DEF AttachNewEpoch, MayAttach, TypeInv, ProtoInv
  <2>5. \A t \in Sessions : Carrying(t) => proto'[sess[t].epoch].acked >= proto[sess[t].epoch].acked
    BY <2>3, <2>4, AckedIsNat
  <2> QED BY <2>1, <2>2, <2>5, LoopKept
<1>12. ASSUME NEW s \in Sessions, AttachFinish(s) PROVE LoopInv'
  <2>1. (\A t \in Sessions \ {s} : Same(t)) /\ sess'[s].pc \notin {"accept", "gate", "buffer", "enqueue"}
    BY <1>12, AttachFinishBegins DEF Moves, Begins
  <2>2. LoopOK(s)'
    BY <2>1, NotCarryingOK
  <2>3. UNCHANGED proto
    BY <1>12 DEF AttachFinish
  <2> QED BY <2>1, <2>2, <2>3, LoopRest
<1>13. ASSUME NEW s \in Sessions, LoseFrame(s) PROVE LoopInv'
  <2>1. \A t \in Sessions : Same(t)
    BY <1>13 DEF LoseFrame, Same
  <2>2. UNCHANGED proto
    BY <1>13 DEF LoseFrame
  <2> QED BY <2>1, <2>2, LoopRest
<1>14. ASSUME NEW s \in Sessions, Start(s) PROVE LoopInv'
  <2>1. (\A t \in Sessions \ {s} : Same(t)) /\ sess'[s].pc \notin {"accept", "gate", "buffer", "enqueue"}
    BY <1>14, StartMoves DEF Moves, Begins
  <2>2. LoopOK(s)'
    BY <2>1, NotCarryingOK
  <2>3. UNCHANGED proto
    BY <1>14 DEF Start
  <2> QED BY <2>1, <2>2, <2>3, LoopRest
<1>15. ASSUME NEW s \in Sessions, Close(s) PROVE LoopInv'
  <2>1. (\A t \in Sessions \ {s} : Same(t)) /\ sess'[s].pc \notin {"accept", "gate", "buffer", "enqueue"}
    BY <1>15, CloseMoves DEF Moves, Begins
  <2>2. LoopOK(s)'
    BY <2>1, NotCarryingOK
  <2>3. UNCHANGED proto
    BY <1>15 DEF Close
  <2> QED BY <2>1, <2>2, <2>3, LoopRest
<1>16. ASSUME NEW s \in Sessions, Detach(s) PROVE LoopInv'
  <2>1. (\A t \in Sessions \ {s} : Same(t)) /\ sess'[s].pc \notin {"accept", "gate", "buffer", "enqueue"}
    BY <1>16, DetachBegins DEF Moves, Begins
  <2>2. LoopOK(s)'
    BY <2>1, NotCarryingOK
  <2>3. UNCHANGED proto
    BY <1>16 DEF Detach
  <2> QED BY <2>1, <2>2, <2>3, LoopRest
<1>17. ASSUME NEW s \in Sessions, Read(s) PROVE LoopInv'
  <2>0. PICK run \in Seq(Seqs) : /\ run # << >> /\ \A i, j \in DOMAIN run : j = i + 1 => run[j] = run[i] + 1
                                 /\ Moves(s, "accept", run, << >>, 0)
    BY <1>17, ReadMoves
  <2>1. \A t \in Sessions \ {s} : Same(t)
    BY <1>17, <2>0 DEF Moves
  <2>3. UNCHANGED proto
    BY <1>17 DEF Read
  <2>2. LoopOK(s)'
    BY <2>0 DEF LoopOK, Carrying, Moves
  <2> QED BY <2>1, <2>2, <2>3, LoopRest
<1>18. ASSUME NEW s \in Sessions, Accept(s) PROVE LoopInv'
  <2>5. CASE Overflows(proto[sess[s].epoch], Head(sess[s].todo))
    <3>0. proto' = proto /\ Moves(s, "closing", sess[s].todo, sess[s].ready, sess[s].ack)
      BY <1>18, <2>5, AcceptOverflows
    <3>1. (\A t \in Sessions \ {s} : Same(t)) /\ sess'[s].pc = "closing"
      BY <3>0 DEF Moves
    <3>2. LoopOK(s)'
      BY <3>1, NotCarryingOK
    <3> QED BY <3>0, <3>1, <3>2, LoopRest
  <2>6. CASE ~Overflows(proto[sess[s].epoch], Head(sess[s].todo))
    <3>0. /\ LoopOK(s)' /\ (\A t \in Sessions \ {s} : Same(t))
          /\ \A d \in Epochs : proto'[d].acked >= proto[d].acked
      BY <1>18, <2>6, AcceptLoopOK
    <3>1. \A t \in Sessions : Carrying(t) => proto'[sess[t].epoch].acked >= proto[sess[t].epoch].acked
      BY <3>0 DEF ServeInv, Carrying, Attached
    <3> QED BY <3>0, <3>1, LoopKept
  <2> QED BY <2>5, <2>6
<1>19. ASSUME NEW s \in Sessions, Gate(s) PROVE LoopInv'
  <2>0. PICK pc \in {"buffer", "closing"} : Moves(s, pc, sess[s].todo, sess[s].ready, sess[s].ack)
    BY <1>19, GateMoves
  <2>1. \A t \in Sessions \ {s} : Same(t)
    BY <1>19, <2>0 DEF Moves
  <2>3. UNCHANGED proto
    BY <1>19 DEF Gate
  <2>2. LoopOK(s)'
    <3>1. sess[s].pc = "gate" /\ LoopOK(s)
      BY <1>19 DEF Gate, LoopInv
    <3> QED BY <2>0, <2>3, <3>1 DEF LoopOK, Carrying, Moves
  <2> QED BY <2>1, <2>2, <2>3, LoopRest
<1>20. ASSUME NEW s \in Sessions, Buffer(s) PROVE LoopInv'
  <2>0. PICK pc \in {"enqueue", "closing"} : Moves(s, pc, sess[s].todo, sess[s].ready, sess[s].ack)
    BY <1>20, BufferMoves
  <2>1. \A t \in Sessions \ {s} : Same(t)
    BY <1>20, <2>0 DEF Moves
  <2>3. UNCHANGED proto
    BY <1>20 DEF Buffer
  <2>2. LoopOK(s)'
    <3>1. sess[s].pc = "buffer" /\ LoopOK(s)
      BY <1>20 DEF Buffer, LoopInv
    <3> QED BY <2>0, <2>3, <3>1 DEF LoopOK, Carrying, Moves
  <2> QED BY <2>1, <2>2, <2>3, LoopRest
<1>21. ASSUME NEW s \in Sessions, Enqueue(s) PROVE LoopInv'
  <2> DEFINE r == sess[s].ready
  <2>0. /\ r # << >> /\ r \in Seq(Seqs)
        /\ Moves(s, IF Len(r) > 1 THEN "buffer" ELSE "note", sess[s].todo, Tail(r), sess[s].ack)
    BY <1>21, EnqueueMoves
  <2>1. \A t \in Sessions \ {s} : Same(t)
    BY <2>0 DEF Moves
  <2>2. sess[s].pc = "enqueue" /\ LoopOK(s) /\ UNCHANGED proto
    BY <1>21 DEF Enqueue, EnqueueFanout, LoopInv
  <2>3. sess'[s].ready = Tail(r) /\ sess'[s].epoch = sess[s].epoch /\ sess'[s].pc = IF Len(r) > 1 THEN "buffer" ELSE "note"
    BY <2>0 DEF Moves
  <2>4. /\ Len(Tail(r)) = Len(r) - 1 /\ Tail(r) \in Seq(Seqs) /\ Len(r) \in Nat
        /\ \A i \in 1 .. Len(r) - 1 : i + 1 \in DOMAIN r /\ Tail(r)[i] = r[i + 1]
    BY <2>0
  <2>5. \A i, j \in 1 .. Len(r) - 1 : i < j => Tail(r)[i] < Tail(r)[j]
    <3>1. \A i, j \in DOMAIN r : i < j => r[i] < r[j]
      BY <2>2 DEF LoopOK, Carrying
    <3>2. ASSUME NEW i \in 1 .. Len(r) - 1, NEW j \in 1 .. Len(r) - 1, i < j PROVE Tail(r)[i] < Tail(r)[j]
      <4>1. i + 1 \in DOMAIN r /\ j + 1 \in DOMAIN r /\ i + 1 < j + 1
        BY <2>4, <3>2
      <4> QED BY <2>4, <3>1, <4>1
    <3> QED BY <3>2
  <2>6. \A i \in 1 .. Len(r) - 1 : Tail(r)[i] <= proto[sess[s].epoch].acked
    <3>1. \A i \in DOMAIN r : r[i] <= proto[sess[s].epoch].acked
      BY <2>2 DEF LoopOK, Carrying
    <3> QED BY <2>4, <3>1
  <2>7. DOMAIN Tail(r) = 1 .. Len(r) - 1 /\ (Len(r) > 1 => Tail(r) # << >>)
    <3> DEFINE tl == Tail(r)
               n == Len(r)
    <3> HIDE DEF tl, n
    <3>1. Len(tl) = n - 1 /\ tl \in Seq(Seqs) /\ n \in Nat
      BY <2>4 DEF tl, n
    <3>2. DOMAIN tl = 1 .. n - 1 /\ (n > 1 => tl # << >>)
      BY <3>1
    <3> QED BY <3>2 DEF tl, n
  <2> HIDE DEF r
  <2>8. LoopOK(s)'
    BY <2>2, <2>3, <2>5, <2>6, <2>7 DEF LoopOK, Carrying
  <2> QED BY <2>1, <2>2, <2>8, LoopRest
<1>22. ASSUME NEW s \in Sessions, Note(s) PROVE LoopInv'
  <2>0. PICK pc \in {"closing", "idle"} : Moves(s, pc, sess[s].todo, sess[s].ready, sess[s].ack)
    BY <1>22, NoteMoves
  <2>1. (\A t \in Sessions \ {s} : Same(t)) /\ sess'[s].pc \notin {"accept", "gate", "buffer", "enqueue"}
    BY <1>22, <2>0 DEF Moves, Begins
  <2>2. LoopOK(s)'
    BY <2>1, NotCarryingOK
  <2>3. UNCHANGED proto
    BY <1>22 DEF Note
  <2> QED BY <2>1, <2>2, <2>3, LoopRest
<1>23. ASSUME NEW s \in Sessions, SendDown(s) PROVE LoopInv'
  <2>1. \A t \in Sessions : Same(t)
    BY <1>23 DEF SendDown, Same
  <2>2. UNCHANGED proto
    BY <1>23 DEF SendDown
  <2> QED BY <2>1, <2>2, LoopRest
<1>24. CASE UNCHANGED vars
  BY <1>24 DEF vars, hubVars, LoopInv, LoopOK, Carrying
<1> QED
  BY <1>1, <1>2, <1>3, <1>4, <1>5, <1>6, <1>7, <1>8, <1>9, <1>10, <1>11, <1>12, <1>13,
     <1>14, <1>15, <1>16, <1>17, <1>18, <1>19, <1>20, <1>21, <1>22, <1>23, <1>24 DEF
     Next, SessionStep
-----------------------------------------------------------------------------
(* The gap-pull buffer. *)

\* Loop t carries, and has still to buffer, no more than it did.
Sheds(t) ==
    Carrying(t)' =>
        \/ sess'[t].ready = << >>
        \/ /\ Carrying(t) /\ sess'[t].epoch = sess[t].epoch
           /\ \A i \in DOMAIN sess'[t].ready : \E j \in DOMAIN sess[t].ready : sess'[t].ready[i] = sess[t].ready[j]
           /\ \A i \in Unbuffered(t)' : \E j \in Unbuffered(t) : sess'[t].ready[i] = sess[t].ready[j]

\* A loop that stays the same sheds nothing.
LEMMA SameSheds ==
  ASSUME NEW t \in Sessions, Same(t)
  PROVE  Sheds(t)
BY DEF Same, Sheds, Carrying, Unbuffered

\* Loops that carry no more stay apart.
LEMMA ShedApart ==
  ASSUME BufInv, \A t \in Sessions : Sheds(t)
  PROVE  \A t, u \in Sessions : Apart(t, u)'
<1> SUFFICES ASSUME NEW t \in Sessions, NEW u \in Sessions, t # u, Carrying(t)', Carrying(u)', sess'[t].epoch = sess'[u].epoch,
                    NEW i \in DOMAIN sess'[t].ready, NEW j \in DOMAIN sess'[u].ready
             PROVE  sess'[t].ready[i] # sess'[u].ready[j]
  BY DEF Apart
<1>1. sess'[t].ready # << >> /\ sess'[u].ready # << >>
  OBVIOUS
<1>2. Carrying(t) /\ Carrying(u) /\ sess[t].epoch = sess[u].epoch
  BY <1>1 DEF Sheds
<1>3. PICK k \in DOMAIN sess[t].ready : sess'[t].ready[i] = sess[t].ready[k]
  BY <1>1 DEF Sheds
<1>4. PICK m \in DOMAIN sess[u].ready : sess'[u].ready[j] = sess[u].ready[m]
  BY <1>1 DEF Sheds
<1> QED BY <1>2, <1>3, <1>4 DEF BufInv, Apart

\* An emptied buffer is in order.
LEMMA BufCleared ==
  ASSUME BufInv, \A t \in Sessions : Sheds(t), evBuf' = << >>
  PROVE  BufInv'
<1>1. \A t, u \in Sessions : Apart(t, u)'
  BY ShedApart
<1>2. DOMAIN evBuf' = {}
  OBVIOUS
<1> QED BY <1>1, <1>2 DEF BufInv, GapPullSorted, Fresh

\* The watermark of the buffered epoch may rise.
LEMMA BufBelow ==
  ASSUME TypeInv, TypeInv', BufInv, \A e \in Epochs : proto[e].acked <= proto'[e].acked
  PROVE  lock = None => \A i \in DOMAIN evBuf : evBuf[i].seq \in Nat /\ evBuf[i].seq <= proto[reg.epoch].acked
                                                 /\ proto[reg.epoch].acked \in Nat /\ proto'[reg.epoch].acked \in Nat
                                                 /\ evBuf[i].seq <= proto'[reg.epoch].acked
<1> SUFFICES ASSUME lock = None, NEW i \in DOMAIN evBuf
             PROVE  evBuf[i].seq \in Nat /\ evBuf[i].seq <= proto[reg.epoch].acked
                    /\ proto[reg.epoch].acked \in Nat /\ proto'[reg.epoch].acked \in Nat
                    /\ evBuf[i].seq <= proto'[reg.epoch].acked
  OBVIOUS
<1>1. evBuf[i] \in Items
  BY DEF TypeInv
<1>2. evBuf[i].epoch \in Epochs /\ evBuf[i].seq \in Nat
  BY <1>1, Bounds DEF Items
<1>3. reg.epoch \in Epochs /\ evBuf[i].seq <= proto[reg.epoch].acked
  BY <1>2 DEF BufInv, GapPullSorted
<1>4. proto'[reg.epoch].acked \in Nat /\ proto[reg.epoch].acked \in Nat
  BY <1>3, Bounds DEF TypeInv, ProtoInv, ReceiverOK
<1> QED BY <1>2, <1>3, <1>4

\* Nothing happens to the buffer while the loops carry no more.
LEMMA BufKept ==
  ASSUME TypeInv, TypeInv', BufInv, \A t \in Sessions : Sheds(t), reg'.epoch = reg.epoch, UNCHANGED lock,
         evBuf' \in {evBuf, << >>}, \A e \in Epochs : proto[e].acked <= proto'[e].acked
  PROVE  BufInv'
<1>1. CASE evBuf' = << >>
  BY <1>1, BufCleared
<1>2. CASE evBuf' = evBuf
  <2>1. \A t, u \in Sessions : Apart(t, u)'
    BY ShedApart
  <2>2. ASSUME NEW t \in Sessions PROVE Fresh(t)'
    <3> SUFFICES ASSUME Carrying(t)', sess'[t].epoch = reg'.epoch, NEW i \in Unbuffered(t)', NEW j \in DOMAIN evBuf
                 PROVE  evBuf[j].seq # sess'[t].ready[i]
      BY <1>2 DEF Fresh
    <3>1. sess'[t].ready # << >>
      BY DEF Unbuffered
    <3>2. Carrying(t) /\ sess[t].epoch = reg.epoch
      BY <3>1 DEF Sheds
    <3>3. PICK k \in Unbuffered(t) : sess'[t].ready[i] = sess[t].ready[k]
      BY <3>1 DEF Sheds
    <3> QED BY <3>2, <3>3 DEF BufInv, Fresh
  <2>3. lock' = None => \A i \in DOMAIN evBuf : evBuf[i].seq <= proto'[reg.epoch].acked
    BY BufBelow
  <2> QED BY <1>2, <2>1, <2>2, <2>3 DEF BufInv, GapPullSorted
<1> QED BY <1>1, <1>2

\* Accepted events are above everything carried or buffered.
LEMMA AcceptBufOK ==
  ASSUME TypeInv, TypeInv', ServeInv, LoopInv, BufInv, NEW s \in Sessions, Accept(s),
         ~Overflows(proto[sess[s].epoch], Head(sess[s].todo))
  PROVE  BufInv'
<1> DEFINE e == sess[s].epoch
           p == proto[e]
           q == Head(sess[s].todo)
           a == AcceptReceiver(p, q, q)
           g == AcceptReady(p, q, q)
           r == sess[s].ready
           got == r \o g
           rest == Tail(sess[s].todo)
<1>1. /\ e \in Epochs /\ q \in Seqs /\ ReceiverOK(p)
      /\ proto'[e] = a /\ (\A d \in Epochs \ {e} : proto'[d] = proto[d])
      /\ got \in Seq(Seqs)
      /\ \E pc \in {"accept", "gate", "note"} : Moves(s, pc, rest, got, a.acked)
  BY AcceptMoves, SMTT(60)
<1>2. /\ sess[s].pc = "accept" /\ r \in Seq(Seqs) /\ UNCHANGED << reg, lock, evBuf >>
      /\ \A d \in Epochs : proto'[d].acked >= proto[d].acked
  BY AcceptLoopOK, ZenonT(60) DEF Accept, TypeInv, SessInv, SessOK
<1>3. PICK pc \in {"accept", "gate", "note"} : Moves(s, pc, rest, got, a.acked)
  BY <1>1
<1>4. sess'[s].pc = pc /\ sess'[s].ready = got /\ sess'[s].epoch = e /\ \A t \in Sessions \ {s} : Same(t)
  BY <1>3 DEF Moves
<1> HIDE DEF p, r, q, rest
<1>5. /\ g \in Seq(Seqs) /\ Len(g) = a.acked - p.acked /\ \A i \in 1 .. Len(g) : g[i] = p.acked + i
  BY <1>1, AcceptOK
<1> HIDE DEF a, g
<1>6. /\ Len(got) = Len(r) + Len(g) /\ \A i \in 1 .. Len(r) : got[i] = r[i]
      /\ \A i \in 1 .. Len(g) : got[Len(r) + i] = g[i]
  <2>1. r \in Seq(Seqs) /\ g \in Seq(Seqs)
    BY <1>2, <1>5
  <2> QED BY <2>1, ConcatOK
<1> HIDE DEF got
<1>7. p.acked \in Nat
  <2>1. p.acked \in Seqs
    BY <1>1 DEF ReceiverOK
  <2> QED BY <2>1, Bounds
<1>8. \A i \in DOMAIN got : (i \in DOMAIN r /\ got[i] = r[i]) \/ (got[i] \in Nat /\ got[i] > p.acked)
  <2> SUFFICES ASSUME NEW i \in DOMAIN got, i \notin DOMAIN r \/ got[i] # r[i] PROVE got[i] \in Nat /\ got[i] > p.acked
    OBVIOUS
  <2>1. Len(r) \in Nat /\ Len(g) \in Nat /\ DOMAIN got = 1 .. (Len(r) + Len(g)) /\ DOMAIN r = 1 .. Len(r)
    BY <1>1, <1>2, <1>5, <1>6
  <2>2. i - Len(r) \in 1 .. Len(g) /\ Len(r) + (i - Len(r)) = i
    BY <1>6, <2>1
  <2>3. got[i] = p.acked + (i - Len(r))
    BY <1>5, <1>6, <2>2
  <2> QED BY <1>7, <2>2, <2>3
<1>9. ASSUME NEW t \in Sessions, t # s, Carrying(t), sess[t].epoch = e, NEW i \in DOMAIN got, NEW j \in DOMAIN sess[t].ready
      PROVE  got[i] # sess[t].ready[j]
  <2>1. sess[t].ready[j] <= p.acked /\ sess[t].ready[j] \in Nat
    <3>1. sess[t].ready \in Seq(Seqs)
      BY DEF TypeInv, SessInv, SessOK
    <3>2. sess[t].ready[j] \in Nat
      <4>1. sess[t].ready[j] \in Seqs
        BY <1>9, <3>1
      <4> QED BY <4>1, Bounds
    <3>3. sess[t].ready[j] <= p.acked
      BY <1>9 DEF LoopInv, LoopOK, p
    <3> QED BY <3>2, <3>3
  <2>2. CASE i \in DOMAIN r /\ got[i] = r[i]
    <3>1. Apart(s, t) /\ Carrying(s)
      BY <1>2 DEF BufInv, Carrying
    <3> QED BY <1>9, <2>2, <3>1 DEF Apart, r, e
  <2>3. CASE got[i] \in Nat /\ got[i] > p.acked
    BY <1>7, <2>1, <2>3
  <2> QED BY <1>8, <1>9, <2>2, <2>3
<1>10. \A t, u \in Sessions : Apart(t, u)'
  <2>1. ASSUME NEW t \in Sessions \ {s}, NEW u \in Sessions \ {s} PROVE Apart(t, u)'
    BY <1>4 DEF Same, Apart, BufInv, Carrying
  <2>2. ASSUME NEW t \in Sessions \ {s} PROVE Apart(s, t)' /\ Apart(t, s)'
    <3>1. sess'[t].ready = sess[t].ready /\ sess'[t].epoch = sess[t].epoch /\ (Carrying(t)' <=> Carrying(t))
      BY <1>4 DEF Same, Carrying
    <3> QED BY <1>4, <1>9, <3>1 DEF Apart
  <2>3. Apart(s, s)'
    BY DEF Apart
  <2> QED BY <2>1, <2>2, <2>3
<1>11. ASSUME NEW t \in Sessions PROVE Fresh(t)'
  <2>1. CASE t # s
    BY <1>2, <1>4, <2>1 DEF Same, Fresh, BufInv, Carrying, Unbuffered
  <2>2. CASE t = s
    <3> SUFFICES ASSUME e = reg.epoch, NEW i \in DOMAIN got, NEW j \in DOMAIN evBuf
                 PROVE  evBuf[j].seq # got[i]
      BY <1>2, <1>4, <2>2 DEF Fresh, Unbuffered
    <3>1. lock = None
      BY <1>2, ServeIsNat DEF ServeInv, Attached
    <3>2. evBuf[j].seq \in Nat /\ evBuf[j].seq <= p.acked
      BY <1>2, <3>1, BufBelow, AckedIsNat DEF p
    <3>3. i \in DOMAIN r /\ got[i] = r[i] => evBuf[j].seq # got[i]
      BY <1>2 DEF BufInv, Fresh, Carrying, Unbuffered, r
    <3>4. got[i] \in Nat /\ got[i] > p.acked => evBuf[j].seq # got[i]
      BY <1>7, <3>2
    <3> QED BY <1>8, <3>3, <3>4
  <2> QED BY <2>1, <2>2
<1>12. lock' = None => \A i \in DOMAIN evBuf : evBuf[i].seq <= proto'[reg.epoch].acked
  <2>1. \A d \in Epochs : proto[d].acked <= proto'[d].acked
    <3>1. ASSUME NEW d \in Epochs PROVE proto[d].acked \in Nat /\ proto'[d].acked \in Nat /\ proto'[d].acked >= proto[d].acked
      BY <1>2, Bounds DEF TypeInv, ProtoInv, ReceiverOK
    <3> QED BY <3>1
  <2> QED BY <1>2, <2>1, BufBelow
<1> QED BY <1>2, <1>10, <1>11, <1>12 DEF BufInv, GapPullSorted

\* A buffered event leaves no copy to be buffered again.
LEMMA BufferBufOK ==
  ASSUME TypeInv, TypeInv', ServeInv, LoopInv, BufInv, NEW s \in Sessions, Buffer(s), EpochCurrent(s)
  PROVE  BufInv'
<1> DEFINE e == sess[s].epoch
           r == sess[s].ready
           q == r[1]
<1>1. /\ e \in Epochs /\ e = reg.epoch /\ lock = None /\ q \in Seqs /\ 1 \in DOMAIN r
      /\ r # << >> /\ sess[s].pc = "buffer"
      /\ \A i, j \in DOMAIN evBuf' : i < j => evBuf'[i].seq < evBuf'[j].seq
      /\ \A i \in DOMAIN evBuf' : evBuf'[i] = EventItem(e, q) \/ \E j \in DOMAIN evBuf : evBuf'[i] = evBuf[j]
  BY BufferStepOK
<1>2. /\ Moves(s, "enqueue", sess[s].todo, r, sess[s].ack) /\ UNCHANGED << reg, lock, proto >>
  BY BufferMoves DEF Buffer
<1>3. sess'[s].pc = "enqueue" /\ sess'[s].ready = r /\ sess'[s].epoch = e /\ \A t \in Sessions \ {s} : Same(t)
  BY <1>2 DEF Moves
<1>4. \A t \in Sessions : Sheds(t)
  BY <1>1, <1>3, SameSheds DEF Sheds, Carrying, Unbuffered
<1>5. \A t, u \in Sessions : Apart(t, u)'
  BY <1>4, ShedApart
<1>6. r \in Seq(Seqs) /\ \A i \in DOMAIN r \ {1} : r[i] # q
  <2>1. r \in Seq(Seqs) /\ \A i, j \in DOMAIN r : i < j => r[i] < r[j]
    BY <1>1 DEF TypeInv, SessInv, SessOK, LoopInv, LoopOK, Carrying
  <2>2. \A i \in DOMAIN r \ {1} : 1 < i /\ r[i] \in Nat /\ q \in Nat
    <3>1. \A n \in Seqs : n \in Nat
      BY Bounds
    <3>2. DOMAIN r = 1 .. Len(r) /\ \A i \in DOMAIN r : r[i] \in Seqs
      BY <2>1
    <3> HIDE DEF r
    <3> QED BY <1>1, <3>1, <3>2
  <2> QED BY <1>1, <2>1, <2>2
<1>7. \A i \in DOMAIN evBuf' : /\ evBuf'[i].epoch = reg.epoch
                               /\ evBuf'[i].seq = q \/ \E j \in DOMAIN evBuf : evBuf'[i].seq = evBuf[j].seq
  <2>1. \A j \in DOMAIN evBuf : evBuf[j].epoch = reg.epoch
    BY <1>1 DEF BufInv, GapPullSorted
  <2>2. EventItem(e, q).epoch = e /\ EventItem(e, q).seq = q
    BY DEF EventItem
  <2> HIDE DEF e, q, r
  <2> QED BY <1>1, <2>1, <2>2
<1>8. \A i \in DOMAIN evBuf' : evBuf'[i].seq <= proto[reg.epoch].acked
  <2>1. \A j \in DOMAIN evBuf : evBuf[j].seq <= proto[reg.epoch].acked
    BY <1>1 DEF BufInv
  <2>2. q <= proto[reg.epoch].acked
    BY <1>1 DEF LoopInv, LoopOK, Carrying
  <2> HIDE DEF e, q, r
  <2> QED BY <1>7, <2>1, <2>2
<1>9. ASSUME NEW t \in Sessions PROVE Fresh(t)'
  <2> SUFFICES ASSUME Carrying(t)', sess'[t].epoch = reg.epoch, NEW i \in Unbuffered(t)', NEW k \in DOMAIN evBuf'
               PROVE  evBuf'[k].seq # sess'[t].ready[i]
    BY <1>2 DEF Fresh
  <2>1. CASE t = s
    <3>1. i \in DOMAIN r \ {1} /\ sess'[t].ready[i] = r[i] /\ i \in Unbuffered(s)
      BY <1>1, <1>3, <2>1 DEF Unbuffered
    <3>2. \A j \in DOMAIN evBuf : evBuf[j].seq # r[i]
      BY <1>1, <3>1 DEF BufInv, Fresh, Carrying
    <3>3. r[i] # q
      BY <1>6, <3>1
    <3> QED BY <1>7, <3>1, <3>2, <3>3
  <2>2. CASE t # s
    <3>1. /\ i \in Unbuffered(t) /\ i \in DOMAIN sess[t].ready /\ sess'[t].ready[i] = sess[t].ready[i]
          /\ Carrying(t) /\ sess[t].epoch = reg.epoch
      BY <1>3, <2>2 DEF Same, Unbuffered, Carrying
    <3>2. \A j \in DOMAIN evBuf : evBuf[j].seq # sess[t].ready[i]
      BY <3>1 DEF BufInv, Fresh
    <3>3. Carrying(s) /\ Apart(s, t)
      BY <1>1 DEF Carrying, BufInv
    <3>4. q # sess[t].ready[i]
      BY <1>1, <2>2, <3>1, <3>3 DEF Apart
    <3> QED BY <1>7, <3>1, <3>2, <3>4
  <2> QED BY <2>1, <2>2
<1> QED BY <1>1, <1>2, <1>5, <1>7, <1>8, <1>9 DEF BufInv, GapPullSorted

\* Every step keeps the buffer in order.
LEMMA BufStep ==
  ASSUME TypeInv, TypeInv', ServeInv, LoopInv, BufInv, [Next]_vars
  PROVE  BufInv'
<1>1. ASSUME HostPublish PROVE BufInv'
  <2>1. \A t \in Sessions : Sheds(t)
    <3>1. \A t \in Sessions : Same(t)
      BY <1>1 DEF HostPublish, hubVars, Same, hubVars
    <3> QED BY <3>1, SameSheds
  <2>2. reg'.epoch = reg.epoch /\ UNCHANGED lock /\ evBuf' \in {evBuf, << >>}
    BY <1>1 DEF HostPublish, hubVars, hubVars
  <2>3. \A e \in Epochs : proto[e].acked <= proto'[e].acked
    BY <1>1, AckedIsNat DEF HostPublish, hubVars, hubVars
  <2> QED BY <2>1, <2>2, <2>3, BufKept
<1>2. ASSUME HostSend PROVE BufInv'
  <2>1. \A t \in Sessions : Sheds(t)
    <3>1. \A t \in Sessions : Same(t)
      BY <1>2 DEF HostSend, hubVars, Same
    <3> QED BY <3>1, SameSheds
  <2>2. reg'.epoch = reg.epoch /\ UNCHANGED lock /\ evBuf' \in {evBuf, << >>}
    BY <1>2 DEF HostSend, hubVars
  <2>3. \A e \in Epochs : proto[e].acked <= proto'[e].acked
    BY <1>2, AckedIsNat DEF HostSend, hubVars
  <2> QED BY <2>1, <2>2, <2>3, BufKept
<1>3. ASSUME HostGetsAck PROVE BufInv'
  <2>1. \A t \in Sessions : Sheds(t)
    <3>1. \A t \in Sessions : Same(t)
      BY <1>3 DEF HostGetsAck, hubVars, Same, hubVars
    <3> QED BY <3>1, SameSheds
  <2>2. reg'.epoch = reg.epoch /\ UNCHANGED lock /\ evBuf' \in {evBuf, << >>}
    BY <1>3 DEF HostGetsAck, hubVars, hubVars
  <2>3. \A e \in Epochs : proto[e].acked <= proto'[e].acked
    BY <1>3, AckedIsNat DEF HostGetsAck, hubVars, hubVars
  <2> QED BY <2>1, <2>2, <2>3, BufKept
<1>4. ASSUME HostDisconnect PROVE BufInv'
  <2>1. \A t \in Sessions : Sheds(t)
    <3>1. \A t \in Sessions : Same(t)
      BY <1>4 DEF HostDisconnect, hubVars, Same, hubVars
    <3> QED BY <3>1, SameSheds
  <2>2. reg'.epoch = reg.epoch /\ UNCHANGED lock /\ evBuf' \in {evBuf, << >>}
    BY <1>4 DEF HostDisconnect, hubVars, hubVars
  <2>3. \A e \in Epochs : proto[e].acked <= proto'[e].acked
    BY <1>4, AckedIsNat DEF HostDisconnect, hubVars, hubVars
  <2> QED BY <2>1, <2>2, <2>3, BufKept
<1>5. ASSUME HostRestart PROVE BufInv'
  <2>1. \A t \in Sessions : Sheds(t)
    <3>1. \A t \in Sessions : Same(t)
      BY <1>5 DEF HostRestart, hubVars, Same, hubVars
    <3> QED BY <3>1, SameSheds
  <2>2. reg'.epoch = reg.epoch /\ UNCHANGED lock /\ evBuf' \in {evBuf, << >>}
    BY <1>5 DEF HostRestart, hubVars, hubVars
  <2>3. \A e \in Epochs : proto[e].acked <= proto'[e].acked
    BY <1>5, AckedIsNat DEF HostRestart, hubVars, hubVars
  <2> QED BY <2>1, <2>2, <2>3, BufKept
<1>6. ASSUME DrainTake PROVE BufInv'
  <2>1. \A t \in Sessions : Sheds(t)
    <3>1. \A t \in Sessions : Same(t)
      BY <1>6 DEF DrainTake, Same
    <3> QED BY <3>1, SameSheds
  <2>2. reg'.epoch = reg.epoch /\ UNCHANGED lock /\ evBuf' \in {evBuf, << >>}
    BY <1>6 DEF DrainTake
  <2>3. \A e \in Epochs : proto[e].acked <= proto'[e].acked
    BY <1>6, AckedIsNat DEF DrainTake
  <2> QED BY <2>1, <2>2, <2>3, BufKept
<1>7. ASSUME DrainDeliver PROVE BufInv'
  <2>1. \A t \in Sessions : Sheds(t)
    <3>1. \A t \in Sessions : Same(t)
      BY <1>7 DEF DrainDeliver, Same
    <3> QED BY <3>1, SameSheds
  <2>2. reg'.epoch = reg.epoch /\ UNCHANGED lock /\ evBuf' \in {evBuf, << >>}
    BY <1>7 DEF DrainDeliver
  <2>3. \A e \in Epochs : proto[e].acked <= proto'[e].acked
    BY <1>7, AckedIsNat DEF DrainDeliver
  <2> QED BY <2>1, <2>2, <2>3, BufKept
<1>8. ASSUME HubRestart PROVE BufInv'
  <2>1. [NewSession EXCEPT !.pc = "done"].pc = "done"
    BY DEF NewSession
  <2>2. \A t \in Sessions : sess'[t].pc \in {"new", "done"}
    BY <1>8, <2>1 DEF HubRestart
  <2>3. \A t \in Sessions : Sheds(t)
    BY <2>2 DEF Sheds, Carrying
  <2>4. evBuf' = << >>
    BY <1>8 DEF HubRestart
  <2> QED BY <2>3, <2>4, BufCleared
<1>9. ASSUME NEW timer \in timers, GraceClear(timer) PROVE BufInv'
  <2>1. \A t \in Sessions : Sheds(t)
    <3>1. \A t \in Sessions : Same(t)
      BY <1>9 DEF GraceClear, Same
    <3> QED BY <3>1, SameSheds
  <2>2. reg'.epoch = reg.epoch /\ UNCHANGED lock /\ evBuf' \in {evBuf, << >>}
    BY <1>9 DEF GraceClear
  <2>3. \A e \in Epochs : proto[e].acked <= proto'[e].acked
    BY <1>9, AckedIsNat DEF GraceClear
  <2> QED BY <2>1, <2>2, <2>3, BufKept
<1>10. ASSUME NEW s \in Sessions, AttachResume(s) PROVE BufInv'
  <2>9. Begins(s, "hello", host.epoch)
    BY <1>10, AttachResumeBegins
  <2>0. \A t \in Sessions \ {s} : Sheds(t)
    BY <1>10, <2>9, SameSheds DEF Moves, Begins
  <2>1. Sheds(s)
    BY <2>9 DEF Moves, Begins, Sheds, Carrying
  <2>2. reg'.epoch = reg.epoch /\ UNCHANGED lock /\ evBuf' \in {evBuf, << >>}
    BY <1>10 DEF AttachResume, InstallSession, MayAttach, TypeInv, RegOK
  <2>3. \A e \in Epochs : proto[e].acked <= proto'[e].acked
    BY <1>10, AckedIsNat DEF AttachResume, InstallSession, MayAttach
  <2> QED BY <2>0, <2>1, <2>2, <2>3, BufKept
<1>11. ASSUME NEW s \in Sessions, AttachNewEpoch(s) PROVE BufInv'
  <2>1. (\A t \in Sessions \ {s} : Same(t)) /\ sess'[s].pc = "attach"
    BY <1>11, AttachNewEpochMoves DEF Moves
  <2>2. Sheds(s)
    BY <2>1 DEF Sheds, Carrying
  <2>3. \A t \in Sessions : Sheds(t)
    BY <2>1, <2>2, SameSheds
  <2>4. \A t, u \in Sessions : Apart(t, u)'
    BY <2>3, ShedApart
  <2>5. reg'.epoch = host.epoch /\ lock' = s /\ s # None /\ UNCHANGED evBuf
    BY <1>11, Bounds DEF AttachNewEpoch, MayAttach, TypeInv, RegOK
  <2>6. \A t \in Sessions : Carrying(t)' => sess'[t].epoch # host.epoch
    <3>1. reg.epoch < host.epoch
      BY <1>11, ServeIsNat DEF AttachNewEpoch, MayAttach, ServeInv
    <3> QED BY <2>1, <3>1, ServeIsNat DEF ServeInv, Carrying, Attached, Same
  <2>7. \A t \in Sessions : Fresh(t)'
    BY <2>5, <2>6 DEF Fresh
  <2> QED BY <2>4, <2>5, <2>7 DEF BufInv, GapPullSorted
<1>12. ASSUME NEW s \in Sessions, AttachFinish(s) PROVE BufInv'
  <2>1. (\A t \in Sessions \ {s} : Same(t)) /\ sess'[s].pc = "hello"
    BY <1>12, AttachFinishBegins DEF Begins
  <2>2. Sheds(s)
    BY <2>1 DEF Sheds, Carrying
  <2>3. evBuf' = << >>
    BY <1>12 DEF AttachFinish
  <2> QED BY <2>1, <2>2, <2>3, SameSheds, BufCleared
<1>13. ASSUME NEW s \in Sessions, LoseFrame(s) PROVE BufInv'
  <2>1. \A t \in Sessions : Sheds(t)
    <3>1. \A t \in Sessions : Same(t)
      BY <1>13 DEF LoseFrame, Same
    <3> QED BY <3>1, SameSheds
  <2>2. reg'.epoch = reg.epoch /\ UNCHANGED lock /\ evBuf' \in {evBuf, << >>}
    BY <1>13 DEF LoseFrame
  <2>3. \A e \in Epochs : proto[e].acked <= proto'[e].acked
    BY <1>13, AckedIsNat DEF LoseFrame
  <2> QED BY <2>1, <2>2, <2>3, BufKept
<1>14. ASSUME NEW s \in Sessions, Start(s) PROVE BufInv'
  <2>9. Moves(s, "idle", sess[s].todo, sess[s].ready, sess[s].ack)
    BY <1>14, StartMoves
  <2>0. \A t \in Sessions \ {s} : Sheds(t)
    BY <1>14, <2>9, SameSheds DEF Moves, Begins
  <2>1. Sheds(s)
    BY <2>9 DEF Moves, Begins, Sheds, Carrying
  <2>2. reg'.epoch = reg.epoch /\ UNCHANGED lock /\ evBuf' \in {evBuf, << >>}
    BY <1>14 DEF Start, TypeInv, RegOK
  <2>3. \A e \in Epochs : proto[e].acked <= proto'[e].acked
    BY <1>14, AckedIsNat DEF Start
  <2> QED BY <2>0, <2>1, <2>2, <2>3, BufKept
<1>15. ASSUME NEW s \in Sessions, Close(s) PROVE BufInv'
  <2>9. Moves(s, "closing", sess[s].todo, sess[s].ready, sess[s].ack)
    BY <1>15, CloseMoves
  <2>0. \A t \in Sessions \ {s} : Sheds(t)
    BY <1>15, <2>9, SameSheds DEF Moves, Begins
  <2>1. Sheds(s)
    BY <2>9 DEF Moves, Begins, Sheds, Carrying
  <2>2. reg'.epoch = reg.epoch /\ UNCHANGED lock /\ evBuf' \in {evBuf, << >>}
    BY <1>15 DEF Close, TypeInv, RegOK
  <2>3. \A e \in Epochs : proto[e].acked <= proto'[e].acked
    BY <1>15, AckedIsNat DEF Close
  <2> QED BY <2>0, <2>1, <2>2, <2>3, BufKept
<1>16. ASSUME NEW s \in Sessions, Detach(s) PROVE BufInv'
  <2>9. Begins(s, "done", 0)
    BY <1>16, DetachBegins
  <2>0. \A t \in Sessions \ {s} : Sheds(t)
    BY <1>16, <2>9, SameSheds DEF Moves, Begins
  <2>1. Sheds(s)
    BY <2>9 DEF Moves, Begins, Sheds, Carrying
  <2>2. reg'.epoch = reg.epoch /\ UNCHANGED lock /\ evBuf' \in {evBuf, << >>}
    BY <1>16 DEF Detach, TypeInv, RegOK
  <2>3. \A e \in Epochs : proto[e].acked <= proto'[e].acked
    BY <1>16, AckedIsNat DEF Detach
  <2> QED BY <2>0, <2>1, <2>2, <2>3, BufKept
<1>17. ASSUME NEW s \in Sessions, Read(s) PROVE BufInv'
  <2>9. PICK run \in Seq(Seqs) : Moves(s, "accept", run, << >>, 0)
    BY <1>17, ReadMoves
  <2>0. \A t \in Sessions \ {s} : Sheds(t)
    BY <1>17, <2>9, SameSheds DEF Moves, Begins
  <2>1. Sheds(s)
    BY <2>9 DEF Moves, Begins, Sheds, Carrying
  <2>2. reg'.epoch = reg.epoch /\ UNCHANGED lock /\ evBuf' \in {evBuf, << >>}
    BY <1>17 DEF Read, TypeInv, RegOK
  <2>3. \A e \in Epochs : proto[e].acked <= proto'[e].acked
    BY <1>17, AckedIsNat DEF Read
  <2> QED BY <2>0, <2>1, <2>2, <2>3, BufKept
<1>18. ASSUME NEW s \in Sessions, Accept(s) PROVE BufInv'
  <2>1. CASE Overflows(proto[sess[s].epoch], Head(sess[s].todo))
    <3>1. proto' = proto /\ Moves(s, "closing", sess[s].todo, sess[s].ready, sess[s].ack)
      BY <1>18, <2>1, AcceptOverflows
    <3>2. Sheds(s) /\ \A t \in Sessions \ {s} : Sheds(t)
      BY <3>1, SameSheds DEF Moves, Sheds, Carrying
    <3>3. UNCHANGED << reg, lock, evBuf >>
      BY <1>18 DEF Accept
    <3> QED BY <3>1, <3>2, <3>3, BufKept, AckedIsNat
  <2>2. CASE ~Overflows(proto[sess[s].epoch], Head(sess[s].todo))
    BY <1>18, <2>2, AcceptBufOK
  <2> QED BY <2>1, <2>2
<1>19. ASSUME NEW s \in Sessions, Gate(s) PROVE BufInv'
  <2>9. PICK pc \in {"buffer", "closing"} : Moves(s, pc, sess[s].todo, sess[s].ready, sess[s].ack)
    BY <1>19, GateMoves
  <2>0. \A t \in Sessions \ {s} : Sheds(t)
    BY <1>19, <2>9, SameSheds DEF Moves, Begins
  <2>1. Sheds(s)
    <3>1. sess[s].pc = "gate"
      BY <1>19 DEF Gate
    <3> QED BY <3>1, <2>9 DEF Moves, Sheds, Carrying, Unbuffered
  <2>2. reg'.epoch = reg.epoch /\ UNCHANGED lock /\ evBuf' \in {evBuf, << >>}
    BY <1>19 DEF Gate, TypeInv, RegOK
  <2>3. \A e \in Epochs : proto[e].acked <= proto'[e].acked
    BY <1>19, AckedIsNat DEF Gate
  <2> QED BY <2>0, <2>1, <2>2, <2>3, BufKept
<1>20. ASSUME NEW s \in Sessions, Buffer(s) PROVE BufInv'
  <2>1. CASE EpochCurrent(s)
    BY <1>20, <2>1, BufferBufOK
  <2>2. CASE ~EpochCurrent(s)
    <3>1. Moves(s, "closing", sess[s].todo, sess[s].ready, sess[s].ack)
      BY <1>20, <2>2, BufferMoves
    <3>2. Sheds(s) /\ \A t \in Sessions \ {s} : Sheds(t)
      BY <3>1, SameSheds DEF Moves, Sheds, Carrying
    <3>3. UNCHANGED << reg, lock, evBuf, proto >>
      BY <1>20, <2>2 DEF Buffer
    <3> QED BY <3>2, <3>3, BufKept, AckedIsNat
  <2> QED BY <2>1, <2>2
<1>21. ASSUME NEW s \in Sessions, Enqueue(s) PROVE BufInv'
  <2>9. /\ sess[s].ready # << >> /\ sess[s].ready \in Seq(Seqs)
        /\ \E pc \in {"buffer", "note"} : Moves(s, pc, sess[s].todo, Tail(sess[s].ready), sess[s].ack)
    BY <1>21, EnqueueMoves
  <2>0. \A t \in Sessions \ {s} : Sheds(t)
    BY <1>21, <2>9, SameSheds DEF Moves, Begins
  <2>1. Sheds(s)
    <3> DEFINE r == sess[s].ready
    <3>1. sess[s].pc = "enqueue"
      BY <1>21 DEF Enqueue, EnqueueFanout
    <3>2. /\ Len(Tail(r)) = Len(r) - 1 /\ Tail(r) \in Seq(Seqs) /\ Len(r) \in Nat /\ DOMAIN r = 1 .. Len(r)
          /\ \A i \in 1 .. Len(r) - 1 : Tail(r)[i] = r[i + 1]
      BY <2>9
    <3> HIDE DEF r
    <3>3. \A i \in DOMAIN Tail(r) : i + 1 \in DOMAIN r \ {1} /\ Tail(r)[i] = r[i + 1]
      <4>1. DOMAIN Tail(r) = 1 .. Len(r) - 1
        BY <3>2
      <4> QED BY <3>2, <4>1
    <3>4. \A i \in DOMAIN Tail(r) : \E j \in DOMAIN r \ {1} : Tail(r)[i] = r[j]
      BY <3>3
    <3>5. sess'[s].ready = Tail(r) /\ sess'[s].epoch = sess[s].epoch /\ sess'[s].pc # "enqueue" /\ sess[s].ready = r
      BY <2>9 DEF Moves, r
    <3> QED BY <3>1, <3>4, <3>5 DEF Sheds, Carrying, Unbuffered
  <2>2. reg'.epoch = reg.epoch /\ UNCHANGED lock /\ evBuf' \in {evBuf, << >>}
    BY <1>21 DEF Enqueue, EnqueueFanout, TypeInv, RegOK
  <2>3. \A e \in Epochs : proto[e].acked <= proto'[e].acked
    BY <1>21, AckedIsNat DEF Enqueue, EnqueueFanout
  <2> QED BY <2>0, <2>1, <2>2, <2>3, BufKept
<1>22. ASSUME NEW s \in Sessions, Note(s) PROVE BufInv'
  <2>9. PICK pc \in {"closing", "idle"} : Moves(s, pc, sess[s].todo, sess[s].ready, sess[s].ack)
    BY <1>22, NoteMoves
  <2>0. \A t \in Sessions \ {s} : Sheds(t)
    BY <1>22, <2>9, SameSheds DEF Moves, Begins
  <2>1. Sheds(s)
    BY <2>9 DEF Moves, Begins, Sheds, Carrying
  <2>2. reg'.epoch = reg.epoch /\ UNCHANGED lock /\ evBuf' \in {evBuf, << >>}
    BY <1>22 DEF Note, TypeInv, RegOK
  <2>3. \A e \in Epochs : proto[e].acked <= proto'[e].acked
    BY <1>22, AckedIsNat DEF Note
  <2> QED BY <2>0, <2>1, <2>2, <2>3, BufKept
<1>23. ASSUME NEW s \in Sessions, SendDown(s) PROVE BufInv'
  <2>1. \A t \in Sessions : Sheds(t)
    <3>1. \A t \in Sessions : Same(t)
      BY <1>23 DEF SendDown, Same
    <3> QED BY <3>1, SameSheds
  <2>2. reg'.epoch = reg.epoch /\ UNCHANGED lock /\ evBuf' \in {evBuf, << >>}
    BY <1>23 DEF SendDown
  <2>3. \A e \in Epochs : proto[e].acked <= proto'[e].acked
    BY <1>23, AckedIsNat DEF SendDown
  <2> QED BY <2>1, <2>2, <2>3, BufKept
<1>24. CASE UNCHANGED vars
  BY <1>24 DEF vars, hubVars, BufInv, GapPullSorted, Apart, Fresh, Carrying, Unbuffered
<1> QED
  BY <1>1, <1>2, <1>3, <1>4, <1>5, <1>6, <1>7, <1>8, <1>9, <1>10, <1>11, <1>12, <1>13,
     <1>14, <1>15, <1>16, <1>17, <1>18, <1>19, <1>20, <1>21, <1>22, <1>23, <1>24 DEF
     Next, SessionStep
-----------------------------------------------------------------------------
(* What was ingested. *)

\* Reached stands still; Sent may follow it.
Stands    == Reached' = Reached /\ LoadOK' /\ Sent' \in {Sent, Sent + 1}
SentGrows == Sole /\ Sole' /\ reg'.epoch = reg.epoch => Sent' \in {Sent, Sent + 1}

\* Without overlapping resumes the watermark of the registered epoch is a number, and so is Sent.
LEMMA SoleIsNat ==
  ASSUME TypeInv, Sole
  PROVE  /\ reg.epoch \in Epochs /\ proto[reg.epoch].acked \in Nat /\ Load \in Nat /\ Sent \in Int /\ Reached \in Int
         /\ reg.session # None => reg.session \in Sessions /\ sess[reg.session].ready \in Seq(Seqs)
<1>1. reg.epoch \in Epochs /\ (reg.session # None => reg.session \in Sessions)
  BY DEF Sole, TypeInv, RegOK
<1>2. reg.session # None => sess[reg.session].ready \in Seq(Seqs)
  BY <1>1 DEF TypeInv, SessInv, SessOK
<1>3. proto[reg.epoch].acked \in Nat
  BY <1>1, AckedIsNat
<1>4. Load \in Nat
  BY <1>2 DEF Load, Carrier
<1>5. Sent \in Int
  BY <1>3, <1>4 DEF Sent
<1> QED BY <1>1, <1>2, <1>3, <1>5, <1>4 DEF Reached

\* Reached stands still while the registered session does, ...
LEMMA ReachedStill ==
  ASSUME TypeInv, Sole, RunInv, reg'.session = reg.session, reg'.epoch = reg.epoch, proto'[reg.epoch] = proto[reg.epoch],
         reg.session # None => Same(reg.session)
  PROVE  Stands
<1>1. CASE reg.session = None
  BY <1>1 DEF Reached, Sent, Load, LoadOK, Carrier, Stands
<1>2. CASE reg.session # None
  <2>1. /\ sess'[reg.session].pc = sess[reg.session].pc /\ sess'[reg.session].epoch = sess[reg.session].epoch
        /\ sess'[reg.session].ready = sess[reg.session].ready
    BY <1>2 DEF Same
  <2>2. Carrier(reg.session)' <=> Carrier(reg.session)
    BY <2>1 DEF Carrier, Carrying
  <2>3. Sent' = Sent /\ Reached' = Reached
    BY <2>1, <2>2 DEF Reached, Sent, Load
  <2> QED BY <2>1, <2>2, <2>3 DEF LoadOK, RunInv, RunOK, Stands
<1> QED BY <1>1, <1>2

\* ... or moves on with what it carries, ...
LEMMA ReachedSame ==
  ASSUME TypeInv, Sole, RunInv, NEW s \in Sessions, reg.session = s, reg'.session = s, reg'.epoch = reg.epoch,
         proto' = proto, sess[s].pc = "gate", sess'[s].pc = "buffer", sess'[s].ready = sess[s].ready,
         sess'[s].epoch = sess[s].epoch
  PROVE  Stands
<1>1. Carrier(reg.session)' <=> Carrier(reg.session)
  BY DEF Carrier, Carrying
<1>2. Sent' = Sent /\ Reached' = Reached
  BY <1>1 DEF Reached, Sent, Load
<1> QED BY <1>1, <1>2 DEF LoadOK, RunInv, RunOK, Stands

\* ... or carries nothing, ...
LEMMA ReachedIdle ==
  ASSUME TypeInv, Sole, reg'.epoch = reg.epoch, proto'[reg.epoch] = proto[reg.epoch], ~Carrier(reg.session),
         ~Carrier(reg.session)'
  PROVE  Stands
<1>1. Load = 0 /\ Load' = 0
  BY DEF Load
<1> QED BY <1>1 DEF Reached, Sent, LoadOK, Stands

\* ... or is about to carry something, ...
LEMMA ReachedEmpty ==
  ASSUME TypeInv, Sole, NEW s \in Sessions, reg.session = s, reg'.session = s, reg'.epoch = reg.epoch, proto' = proto,
         ~Carrier(reg.session), sess'[s].pc = "accept", sess'[s].ready = << >>
  PROVE  Stands
<1>1. Load = 0 /\ Load' = 0 /\ Len(<< >>) = 0 /\ DOMAIN << >> = {}
  BY DEF Load
<1>2. Sent' = Sent /\ Reached = Sent /\ Reached' = Sent'
  BY <1>1 DEF Reached, Sent
<1> QED BY <1>1, <1>2 DEF LoadOK, Stands

\* ... or ends having nothing.
LEMMA ReachedNothing ==
  ASSUME TypeInv, Sole, NEW s \in Sessions, reg.session = s, reg'.session = s, reg'.epoch = reg.epoch, proto' = proto,
         sess[s].pc = "accept", sess[s].ready = << >>, ~Carrier(reg.session)'
  PROVE  Stands
<1>1. Load = 0 /\ Load' = 0
  BY DEF Load
<1>2. Sent' = Sent /\ Reached = Sent /\ Reached' = Sent'
  BY <1>1 DEF Reached, Sent
<1> QED BY <1>2 DEF LoadOK, Stands

\* An overflowing event is ahead of the next one.
LEMMA OverflowIsAhead ==
  ASSUME TypeInv, ServeInv, LoopInv, NEW s \in Sessions, sess[s].pc = "accept",
         Overflows(proto[sess[s].epoch], Head(sess[s].todo))
  PROVE  ~(Head(sess[s].todo) <= proto[sess[s].epoch].acked + 1)
<1>1. sess[s].todo # << >> /\ sess[s].todo \in Seq(Seqs) /\ sess[s].epoch \in Epochs
  BY DEF LoopInv, LoopOK, TypeInv, SessInv, SessOK, ServeInv, Attached
<1>2. Head(sess[s].todo) \in Seqs
  BY <1>1
<1>3. Head(sess[s].todo) \in Nat /\ proto[sess[s].epoch].acked \in Nat
  BY <1>1, <1>2, Bounds, AckedIsNat
<1>4. Head(sess[s].todo) > proto[sess[s].epoch].acked + 1
  BY DEF Overflows, IsGap
<1> QED BY <1>3, <1>4

\* The steps that leave Reached alone keep what was ingested up to it.
LEMMA RunKept ==
  ASSUME TypeInv, RunInv, reg'.epoch = reg.epoch, reg'.base = reg.base, lock' = lock \/ evBuf' = << >>,
         evBuf' \in {evBuf, << >>}, ingested' = ingested, overlapped \subseteq overlapped',
         reg'.upAcked = reg.upAcked \/ (Sole => reg'.upAcked <= Reached),
         Sole /\ Sole' => Stands
  PROVE  RunInv' /\ SentGrows
<1>1. GapPullContiguous'
  <2>1. CASE evBuf' = << >>
    <3>1. 1 .. Len(evBuf') - 1 = {}
      BY <2>1
    <3> QED BY <3>1 DEF GapPullContiguous
  <2>2. CASE evBuf' = evBuf
    BY <2>2 DEF RunInv, GapPullContiguous
  <2> QED BY <2>1, <2>2
<1>2. ASSUME Sole' PROVE RunOK'
  <2>1. Sole
    BY <1>2 DEF Sole
  <2>2. RunOK /\ Stands /\ reg'.upAcked <= Reached
    BY <1>2, <2>1 DEF RunInv, RunOK, Stands
  <2> QED BY <2>2 DEF RunOK, Stands
<1> QED BY <1>1, <1>2 DEF RunInv, SentGrows, Stands

\* Handing an event to the fan-out moves Sent to Reached.
LEMMA EnqueueRunOK ==
  ASSUME TypeInv, Sole, RunInv, NEW s \in Sessions, reg.session = s, reg'.session = s, reg'.epoch = reg.epoch,
         proto' = proto, Carrier(reg.session), sess[s].pc = "enqueue", sess[s].ready # << >>,
         NEW pc \in {"buffer", "note"}, pc = IF Len(sess[s].ready) > 1 THEN "buffer" ELSE "note",
         Moves(s, pc, sess[s].todo, Tail(sess[s].ready), sess[s].ack)
  PROVE  Stands /\ Reached = Sent + 1 /\ Sent' = Sent + 1
<1> DEFINE r == sess[s].ready
           tl == Tail(r)
<1>0. s # None /\ sess[s].epoch = reg.epoch
  BY DEF Carrier
<1>1. r \in Seq(Seqs) /\ sess'[s].pc = pc /\ sess'[s].epoch = reg.epoch /\ sess'[s].ready = tl
  BY <1>0 DEF Moves, TypeInv, SessInv, SessOK
<1>2. /\ Len(tl) = Len(r) - 1 /\ Len(r) \in Nat /\ Len(r) >= 1 /\ tl \in Seq(Seqs) /\ DOMAIN r = 1 .. Len(r)
      /\ \A i \in 1 .. Len(r) - 1 : tl[i] = r[i + 1]
  BY <1>1
<1>3. Load = Len(r) /\ Sent = proto[reg.epoch].acked - Len(r) /\ Reached = Sent + 1
  BY <1>0 DEF Load, Sent, Reached
<1>4. proto[reg.epoch].acked \in Nat
  BY SoleIsNat
<1>5. \A i \in DOMAIN r : r[i] = Sent + i
  BY DEF RunInv, RunOK, LoadOK
<1> HIDE DEF r, tl
<1>6. (Carrier(reg.session)' <=> pc = "buffer") /\ (pc = "buffer" <=> Len(r) > 1)
  BY <1>0, <1>1 DEF Carrier, Carrying, r
<1>7. Load' = Len(r) - 1
  BY <1>1, <1>2, <1>6 DEF Load
<1>8. Sent' = Sent + 1 /\ Reached' = Sent'
  <2> DEFINE A == proto[reg.epoch].acked
             n == Len(r)
  <2>1. Sent' = A - (n - 1)
    BY <1>7 DEF Sent
  <2>2. Reached' = Sent'
    BY <1>1 DEF Reached
  <2>3. Sent = A - n /\ A \in Nat /\ n \in Nat
    BY <1>2, <1>3, <1>4
  <2> HIDE DEF A, n
  <2> QED BY <2>1, <2>2, <2>3
<1>9. \A i \in DOMAIN tl : tl[i] = Sent' + i
  <2>1. \A i \in DOMAIN tl : i \in 1 .. Len(r) - 1 /\ i + 1 \in DOMAIN r /\ tl[i] = r[i + 1] /\ i \in Nat
    <3>1. DOMAIN tl = 1 .. Len(r) - 1
      BY <1>2
    <3> QED BY <1>2, <3>1
  <2>2. Sent \in Int
    BY SoleIsNat
  <2>3. \A i \in DOMAIN tl : tl[i] = Sent + (i + 1)
    BY <1>5, <2>1
  <2> QED BY <1>8, <2>1, <2>2, <2>3
<1> QED BY <1>1, <1>3, <1>8, <1>9 DEF LoadOK, Stands

\* Accepted events go on the load: Sent stands still.
LEMMA AcceptRunOK ==
  ASSUME TypeInv, ServeInv, LoopInv, RunInv, Sole, NEW s \in Sessions, Accept(s), reg.session = s,
         sess[s].epoch = reg.epoch, ~Overflows(proto[sess[s].epoch], Head(sess[s].todo))
  PROVE  Stands
<1> DEFINE e == sess[s].epoch
           p == proto[e]
           q == Head(sess[s].todo)
           a == AcceptReceiver(p, q, q)
           g == AcceptReady(p, q, q)
           r == sess[s].ready
           got == r \o g
           rest == Tail(sess[s].todo)
<1>0. s # None /\ sess[s].pc = "accept" /\ r \in Seq(Seqs) /\ UNCHANGED reg /\ reg.epoch = e
  BY Bounds DEF Accept, TypeInv, SessInv, SessOK
<1>1. /\ e \in Epochs /\ q \in Seqs /\ ReceiverOK(p) /\ proto'[e] = a /\ got \in Seq(Seqs)
      /\ \E pc \in {"accept", "gate", "note"} : Moves(s, pc, rest, got, a.acked) /\ (pc = "note" => got = << >>)
  BY AcceptMoves, SMTT(60)
<1>2. PICK pc \in {"accept", "gate", "note"} : Moves(s, pc, rest, got, a.acked) /\ (pc = "note" => got = << >>)
  BY <1>1
<1>3. sess'[s].pc = pc /\ sess'[s].ready = got /\ sess'[s].epoch = e
  BY <1>2 DEF Moves
<1>4. Load = Len(r) /\ Sent = p.acked - Len(r) /\ Reached = Sent
  <2>1. Carrier(s)
    BY <1>0 DEF Carrier, Carrying
  <2>2. Load = Len(r)
    BY <2>1 DEF Load
  <2>3. Sent = p.acked - Len(r)
    BY <1>0, <2>2 DEF Sent
  <2> QED BY <1>0, <2>2, <2>3 DEF Reached
<1>5. \A i \in DOMAIN r : r[i] = Sent + i
  BY <1>0 DEF RunInv, RunOK, LoadOK, Carrier, Carrying
<1> HIDE DEF e, p, r, q, rest
<1>6. /\ ReceiverOK(a) /\ g \in Seq(Seqs) /\ Len(g) = a.acked - p.acked /\ \A i \in 1 .. Len(g) : g[i] = p.acked + i
  BY <1>1, AcceptOK
<1> HIDE DEF a, g
<1>7. /\ Len(got) = Len(r) + Len(g) /\ \A i \in 1 .. Len(r) : got[i] = r[i]
      /\ \A i \in 1 .. Len(g) : got[Len(r) + i] = g[i]
  <2>1. r \in Seq(Seqs) /\ g \in Seq(Seqs)
    BY <1>0, <1>6
  <2> QED BY <2>1, ConcatOK
<1> HIDE DEF got
<1>8. p.acked \in Nat /\ a.acked \in Nat
  <2>1. p.acked \in Seqs /\ a.acked \in Seqs
    BY <1>1, <1>6 DEF ReceiverOK
  <2> QED BY <2>1, Bounds
<1>9. Len(r) \in Nat /\ Len(g) \in Nat /\ DOMAIN got = 1 .. (Len(r) + Len(g)) /\ DOMAIN r = 1 .. Len(r)
  BY <1>0, <1>1, <1>6, <1>7
<1>10. Load' = Len(got)
  <2>1. CASE pc = "note"
    <3>1. got = << >> /\ ~Carrier(reg.session)'
      BY <1>0, <1>2, <1>3, <2>1 DEF Carrier, Carrying
    <3> QED BY <3>1 DEF Load
  <2>2. CASE pc # "note"
    <3>1. Carrier(reg.session)'
      BY <1>0, <1>2, <1>3, <2>2 DEF Carrier, Carrying
    <3> QED BY <1>0, <1>3, <3>1 DEF Load
  <2> QED BY <2>1, <2>2
<1>11. Sent' = a.acked - Len(got) /\ Reached' = Sent'
  BY <1>0, <1>1, <1>2, <1>3, <1>10 DEF Sent, Reached
<1>12. Sent' = Sent /\ Sent \in Int
  BY <1>4, <1>6, <1>7, <1>8, <1>9, <1>11, SMTT(60)
<1>13. \A i \in DOMAIN got : got[i] = Sent + i
  <2> SUFFICES ASSUME NEW i \in DOMAIN got PROVE got[i] = Sent + i
    OBVIOUS
  <2>1. CASE i \in 1 .. Len(r)
    BY <1>5, <1>7, <1>9, <2>1
  <2>2. CASE i \notin 1 .. Len(r)
    <3>1. i - Len(r) \in 1 .. Len(g) /\ Len(r) + (i - Len(r)) = i /\ i \in Nat
      BY <1>9, <2>2
    <3>2. got[i] = p.acked + (i - Len(r))
      BY <1>6, <1>7, <3>1
    <3> DEFINE A == p.acked
               n == Len(r)
    <3>3. Sent = A - n /\ A \in Nat /\ n \in Nat /\ got[i] = A + (i - n)
      BY <1>4, <1>8, <1>9, <3>2
    <3> HIDE DEF A, n
    <3> QED BY <3>1, <3>3
  <2> QED BY <2>1, <2>2
<1> QED BY <1>0, <1>3, <1>4, <1>11, <1>12, <1>13 DEF LoadOK, Stands

\* Buffering the next event raises Reached by one, and the buffer ends with it.
LEMMA BufferRunOK ==
  ASSUME TypeInv, TypeInv', ServeInv, LoopInv, BufInv, BufInv', RunInv, NEW s \in Sessions, Buffer(s), EpochCurrent(s)
  PROVE  RunInv' /\ SentGrows
<1> DEFINE e == sess[s].epoch
           r == sess[s].ready
           q == r[1]
<1>1. /\ e \in Epochs /\ e = reg.epoch /\ lock = None /\ q \in Seqs /\ 1 \in DOMAIN r /\ r # << >> /\ sess[s].pc = "buffer"
      /\ evBuf' = BufferEvent(evBuf, e, q) /\ ingested' = ingested \cup {<< e, q >>}
  BY BufferStepOK
<1>2. Moves(s, "enqueue", sess[s].todo, r, sess[s].ack) /\ UNCHANGED << reg, lock, proto, overlapped >>
  BY BufferMoves DEF Buffer
<1>3. sess'[s].pc = "enqueue" /\ sess'[s].ready = r /\ sess'[s].epoch = e
  BY <1>2 DEF Moves
<1>4. CASE ~Sole
  <2>1. reg.epoch \in overlapped /\ ~Sole'
    BY <1>1, <1>2, <1>4, Bounds DEF Sole
  <2>2. \A i \in DOMAIN evBuf' : evBuf'[i].epoch = reg.epoch
    BY <1>1, <1>2 DEF BufInv, GapPullSorted
  <2>3. \A i \in 1 .. Len(evBuf') - 1 : i \in DOMAIN evBuf'
    BY DEF TypeInv
  <2> QED BY <1>2, <1>4, <2>1, <2>2, <2>3 DEF RunInv, GapPullContiguous, SentGrows
<1>5. CASE Sole
  <2>1. s = reg.session /\ s # None
    BY <1>1, <1>5, Bounds DEF Sole, ServeInv, Attached
  <2>2. Carrier(reg.session) /\ Carrier(reg.session)'
    BY <1>1, <1>2, <1>3, <2>1 DEF Carrier, Carrying
  <2>3. Load = Len(r) /\ Load' = Len(r)
    BY <1>2, <1>3, <2>1, <2>2 DEF Load
  <2>4. Sent' = Sent
    BY <1>2, <2>3 DEF Sent
  <2>5. Reached = Sent /\ Reached' = Sent + 1
    BY <1>1, <1>2, <1>3, <2>1, <2>2, <2>4 DEF Reached
  <2>6. q = Sent + 1 /\ (\A i \in DOMAIN r : r[i] = Sent + i) /\ Sent \in Int
    BY <1>1, <1>5, <2>1, <2>2, SoleIsNat DEF RunInv, RunOK, LoadOK
  <2>7. /\ (\A n \in (reg.base + 1) .. Sent : << reg.epoch, n >> \in ingested) /\ reg.upAcked <= Sent
        /\ evBuf # << >> => evBuf[Len(evBuf)].seq = Sent
    BY <1>1, <1>5, <2>5 DEF RunInv, RunOK
  <2> HIDE DEF q
  <2>8. evBuf \in Seq(Items) /\ evBuf' \in Seq(Items) /\ \A i \in DOMAIN evBuf : evBuf[i].seq \in Nat
    <3>1. \A x \in Items : x.seq \in Nat
      BY Bounds DEF Items
    <3> QED BY <3>1 DEF TypeInv
  <2>9. \A i \in DOMAIN evBuf : evBuf[i].seq < q
    <3> SUFFICES ASSUME NEW i \in DOMAIN evBuf PROVE evBuf[i].seq < q
      OBVIOUS
    <3>1. Len(evBuf) \in DOMAIN evBuf /\ evBuf # << >> /\ (i = Len(evBuf) \/ i < Len(evBuf))
      BY <2>8
    <3>2. evBuf[i].seq <= Sent
      <4>1. i < Len(evBuf) => evBuf[i].seq < evBuf[Len(evBuf)].seq
        BY <3>1 DEF BufInv, GapPullSorted
      <4> QED BY <2>6, <2>7, <2>8, <3>1, <4>1
    <3> QED BY <2>6, <2>8, <3>2
  <2> DEFINE b == BufferEvent(evBuf, e, q)
             k == Len(evBuf) + 1 - Len(b)
  <2> HIDE DEF e, b
  <2>10. /\ b \in Seq(Items) /\ b # << >> /\ k \in Nat /\ b[Len(b)] = EventItem(e, q)
         /\ \A i \in 1 .. Len(b) - 1 : i + k \in DOMAIN evBuf /\ b[i] = evBuf[i + k]
    BY <1>1, <2>8, <2>9, BufferEventAtEnd DEF b
  <2>11. evBuf' = b /\ EventItem(e, q).seq = q
    BY <1>1 DEF b, EventItem, q
  <2>12. ASSUME NEW i \in 1 .. Len(b) - 1 PROVE b[i].epoch \in overlapped \/ b[i + 1].seq = b[i].seq + 1
    <3>1. i + k \in DOMAIN evBuf /\ b[i] = evBuf[i + k] /\ Len(b) \in Nat /\ Len(evBuf) \in Nat
      BY <2>8, <2>10
    <3>2. CASE i + 1 \in 1 .. Len(b) - 1
      <4>1. i + 1 + k \in DOMAIN evBuf /\ b[i + 1] = evBuf[(i + k) + 1] /\ i + k \in 1 .. Len(evBuf) - 1
        <5>1. i + 1 + k \in DOMAIN evBuf /\ b[i + 1] = evBuf[i + 1 + k]
          BY <2>10, <3>2
        <5>2. i + 1 + k = (i + k) + 1
          BY <2>10, <3>1
        <5>3. DOMAIN evBuf = 1 .. Len(evBuf)
          BY <2>8
        <5> QED BY <2>10, <3>1, <5>1, <5>2, <5>3
      <4>2. evBuf[i + k].epoch \in overlapped \/ evBuf[(i + k) + 1].seq = evBuf[i + k].seq + 1
        BY <4>1 DEF RunInv, GapPullContiguous
      <4> QED BY <3>1, <4>1, <4>2
    <3>3. CASE i + 1 = Len(b)
      <4>1. i + k = Len(evBuf) /\ evBuf # << >>
        <5> DEFINE m == Len(b)
                   n == Len(evBuf)
        <5>1. k = n + 1 - m /\ m \in Nat /\ n \in Nat /\ i + 1 = m
          BY <3>1, <3>3
        <5> HIDE DEF m, n, k
        <5>2. i + k = n
          BY <5>1
        <5> QED BY <2>8, <3>1, <5>2 DEF n
      <4> QED BY <2>6, <2>7, <2>10, <2>11, <3>1, <3>3, <4>1
    <3> QED BY <3>1, <3>2, <3>3
  <2>13. GapPullContiguous'
    BY <1>2, <2>11, <2>12 DEF GapPullContiguous
  <2>14. \A n \in (reg.base + 1) .. (Sent + 1) : << reg.epoch, n >> \in ingested'
    <3> SUFFICES ASSUME NEW n \in (reg.base + 1) .. (Sent + 1) PROVE << reg.epoch, n >> \in ingested'
      OBVIOUS
    <3>1. n = Sent + 1 \/ n \in (reg.base + 1) .. Sent
      BY <2>6, AckedIsNat
    <3>2. ingested' = ingested \cup {<< reg.epoch, Sent + 1 >>}
      BY <1>1, <2>6 DEF e, q
    <3> QED BY <2>7, <3>1, <3>2
  <2>15. reg.upAcked <= Sent + 1
    BY <2>6, <2>7, AckedIsNat
  <2>16. LoadOK'
    BY <1>2, <1>3, <2>1, <2>4, <2>6 DEF LoadOK
  <2>17. evBuf'[Len(evBuf')].seq = Sent + 1
    BY <2>6, <2>10, <2>11
  <2> QED BY <1>2, <2>4, <2>5, <2>13, <2>14, <2>15, <2>16, <2>17 DEF RunInv, RunOK, SentGrows
<1> QED BY <1>4, <1>5

\* Every step keeps what was ingested without a hole.
LEMMA RunStep ==
  ASSUME TypeInv, TypeInv', ServeInv, LinkInv, LoopInv, BufInv, BufInv', RunInv, [Next]_vars
  PROVE  RunInv' /\ SentGrows
<1>1. ASSUME HostPublish PROVE RunInv' /\ SentGrows
  <2>1. \A t \in Sessions : Same(t)
    BY <1>1 DEF HostPublish, hubVars, Same, hubVars
  <2>2. /\ UNCHANGED << reg, lock, proto, ingested, overlapped >> /\ evBuf' \in {evBuf, << >>}
    BY <1>1 DEF HostPublish, hubVars, hubVars
  <2>3. reg.session # None => Same(reg.session)
    BY <2>1 DEF TypeInv, RegOK
  <2>4. Sole => Stands
    BY <2>2, <2>3, ReachedStill
  <2> QED BY <2>2, <2>4, RunKept
<1>2. ASSUME HostSend PROVE RunInv' /\ SentGrows
  <2>1. \A t \in Sessions : Same(t)
    BY <1>2 DEF HostSend, hubVars, Same
  <2>2. /\ UNCHANGED << reg, lock, proto, ingested, overlapped >> /\ evBuf' \in {evBuf, << >>}
    BY <1>2 DEF HostSend, hubVars
  <2>3. reg.session # None => Same(reg.session)
    BY <2>1 DEF TypeInv, RegOK
  <2>4. Sole => Stands
    BY <2>2, <2>3, ReachedStill
  <2> QED BY <2>2, <2>4, RunKept
<1>3. ASSUME HostGetsAck PROVE RunInv' /\ SentGrows
  <2>1. \A t \in Sessions : Same(t)
    BY <1>3 DEF HostGetsAck, hubVars, Same, hubVars
  <2>2. /\ UNCHANGED << reg, lock, proto, ingested, overlapped >> /\ evBuf' \in {evBuf, << >>}
    BY <1>3 DEF HostGetsAck, hubVars, hubVars
  <2>3. reg.session # None => Same(reg.session)
    BY <2>1 DEF TypeInv, RegOK
  <2>4. Sole => Stands
    BY <2>2, <2>3, ReachedStill
  <2> QED BY <2>2, <2>4, RunKept
<1>4. ASSUME HostDisconnect PROVE RunInv' /\ SentGrows
  <2>1. \A t \in Sessions : Same(t)
    BY <1>4 DEF HostDisconnect, hubVars, Same, hubVars
  <2>2. /\ UNCHANGED << reg, lock, proto, ingested, overlapped >> /\ evBuf' \in {evBuf, << >>}
    BY <1>4 DEF HostDisconnect, hubVars, hubVars
  <2>3. reg.session # None => Same(reg.session)
    BY <2>1 DEF TypeInv, RegOK
  <2>4. Sole => Stands
    BY <2>2, <2>3, ReachedStill
  <2> QED BY <2>2, <2>4, RunKept
<1>5. ASSUME HostRestart PROVE RunInv' /\ SentGrows
  <2>1. \A t \in Sessions : Same(t)
    BY <1>5 DEF HostRestart, hubVars, Same, hubVars
  <2>2. /\ UNCHANGED << reg, lock, proto, ingested, overlapped >> /\ evBuf' \in {evBuf, << >>}
    BY <1>5 DEF HostRestart, hubVars, hubVars
  <2>3. reg.session # None => Same(reg.session)
    BY <2>1 DEF TypeInv, RegOK
  <2>4. Sole => Stands
    BY <2>2, <2>3, ReachedStill
  <2> QED BY <2>2, <2>4, RunKept
<1>6. ASSUME DrainTake PROVE RunInv' /\ SentGrows
  <2>1. \A t \in Sessions : Same(t)
    BY <1>6 DEF DrainTake, Same
  <2>2. /\ UNCHANGED << reg, lock, proto, ingested, overlapped >> /\ evBuf' \in {evBuf, << >>}
    BY <1>6 DEF DrainTake
  <2>3. reg.session # None => Same(reg.session)
    BY <2>1 DEF TypeInv, RegOK
  <2>4. Sole => Stands
    BY <2>2, <2>3, ReachedStill
  <2> QED BY <2>2, <2>4, RunKept
<1>7. ASSUME DrainDeliver PROVE RunInv' /\ SentGrows
  <2>1. \A t \in Sessions : Same(t)
    BY <1>7 DEF DrainDeliver, Same
  <2>2. /\ UNCHANGED << reg, lock, proto, ingested, overlapped >> /\ evBuf' \in {evBuf, << >>}
    BY <1>7 DEF DrainDeliver
  <2>3. reg.session # None => Same(reg.session)
    BY <2>1 DEF TypeInv, RegOK
  <2>4. Sole => Stands
    BY <2>2, <2>3, ReachedStill
  <2> QED BY <2>2, <2>4, RunKept
<1>8. ASSUME HubRestart PROVE RunInv' /\ SentGrows
  <2>1. reg'.epoch = 0 /\ evBuf' = << >>
    BY <1>8 DEF HubRestart, NewRegistry
  <2>2. 1 .. Len(evBuf') - 1 = {}
    BY <2>1
  <2> QED BY <2>1, <2>2 DEF RunInv, Sole, GapPullContiguous, SentGrows
<1>9. ASSUME NEW timer \in timers, GraceClear(timer) PROVE RunInv' /\ SentGrows
  <2>1. \A t \in Sessions : Same(t)
    BY <1>9 DEF GraceClear, Same
  <2>2. /\ UNCHANGED << reg, lock, proto, ingested, overlapped >> /\ evBuf' \in {evBuf, << >>}
    BY <1>9 DEF GraceClear
  <2>3. reg.session # None => Same(reg.session)
    BY <2>1 DEF TypeInv, RegOK
  <2>4. Sole => Stands
    BY <2>2, <2>3, ReachedStill
  <2> QED BY <2>2, <2>4, RunKept
<1>10. ASSUME NEW s \in Sessions, AttachResume(s) PROVE RunInv' /\ SentGrows
  <2>1. Begins(s, "hello", host.epoch)
    BY <1>10, AttachResumeBegins
  <2>2. /\ reg'.session = s /\ reg'.epoch = reg.epoch /\ reg'.base = reg.base /\ reg'.upAcked = reg.upAcked
        /\ UNCHANGED << lock, proto, ingested >> /\ evBuf' = evBuf /\ reg.epoch = host.epoch
        /\ overlapped' = overlapped \cup {sess[t].epoch : t \in {u \in Sessions : Attached(u) /\ sess[u].epoch = host.epoch}}
    BY <1>10 DEF AttachResume, InstallSession, MayAttach, TypeInv, RegOK
  <2>3. ASSUME Sole' PROVE Sole /\ Stands
    <3>1. Sole /\ \A t \in Sessions : ~(Attached(t) /\ sess[t].epoch = reg.epoch)
      BY <2>2, <2>3 DEF Sole
    <3>2. ~Carrier(reg.session) /\ ~Carrier(reg.session)'
      BY <2>1, <2>2, <3>1 DEF Carrier, Carrying, Begins, Attached, TypeInv, RegOK
    <3> QED BY <2>2, <3>1, <3>2, ReachedIdle
  <2> QED BY <2>2, <2>3, RunKept
<1>11. ASSUME NEW s \in Sessions, AttachNewEpoch(s) PROVE RunInv' /\ SentGrows
  <2>1. Moves(s, "attach", sess[s].todo, sess[s].ready, sess[s].ack)
    BY <1>11, AttachNewEpochMoves
  <2>2. /\ reg'.session = reg.session /\ reg'.epoch = host.epoch /\ reg'.base = host.acked /\ reg'.upAcked = host.acked
        /\ UNCHANGED << ingested, overlapped, evBuf >> /\ lock' = s /\ s # None /\ host.epoch \in Epochs
    BY <1>11, Bounds DEF AttachNewEpoch, MayAttach, TypeInv, RegOK, HostOK
  <2>3. proto'[host.epoch].acked = host.acked
    BY <1>11, <2>2 DEF AttachNewEpoch, MayAttach, TypeInv, ProtoInv, NewReceiver
  <2>4. ~Carrier(reg.session)'
    <3>1. reg.epoch < host.epoch
      BY <1>11, ServeIsNat DEF AttachNewEpoch, MayAttach, ServeInv
    <3>2. ASSUME reg.session # None PROVE sess'[reg.session].epoch # host.epoch
      BY <2>1, <3>1, <3>2, ServeIsNat DEF ServeInv, Moves, Same, TypeInv, RegOK
    <3> QED BY <2>2, <3>2 DEF Carrier
  <2>5. Sent' = host.acked /\ Reached' = host.acked
    BY <2>2, <2>3, <2>4, AckedIsNat DEF Sent, Reached, Load
  <2>6. GapPullContiguous'
    BY <2>2 DEF RunInv, GapPullContiguous
  <2>7. host.acked \in Nat /\ \A q \in (host.acked + 1) .. host.acked : FALSE
    BY AckedIsNat
  <2>8. reg.epoch # host.epoch
    BY <1>11 DEF AttachNewEpoch, MayAttach
  <2> QED BY <2>2, <2>4, <2>5, <2>6, <2>7, <2>8 DEF RunInv, RunOK, LoadOK, SentGrows
<1>12. ASSUME NEW s \in Sessions, AttachFinish(s) PROVE RunInv' /\ SentGrows
  <2>1. Begins(s, "hello", reg.epoch)
    BY <1>12, AttachFinishBegins
  <2>2. /\ reg'.session = s /\ reg'.epoch = reg.epoch /\ reg'.base = reg.base /\ reg'.upAcked = reg.upAcked
        /\ UNCHANGED << proto, ingested, overlapped >> /\ evBuf' = << >> /\ lock # None
    BY <1>12, Bounds DEF AttachFinish, TypeInv, RegOK
  <2>3. ~Carrier(reg.session) /\ ~Carrier(reg.session)'
    <3>1. ASSUME reg.session # None PROVE sess[reg.session].epoch # reg.epoch
      BY <2>2, <3>1, ServeIsNat DEF ServeInv, TypeInv, RegOK
    <3> QED BY <2>1, <2>2, <3>1 DEF Carrier, Carrying, Begins
  <2>4. Sole => Stands
    BY <2>2, <2>3, ReachedIdle
  <2> QED BY <2>2, <2>4, RunKept
<1>13. ASSUME NEW s \in Sessions, LoseFrame(s) PROVE RunInv' /\ SentGrows
  <2>1. \A t \in Sessions : Same(t)
    BY <1>13 DEF LoseFrame, Same
  <2>2. /\ UNCHANGED << reg, lock, proto, ingested, overlapped >> /\ evBuf' \in {evBuf, << >>}
    BY <1>13 DEF LoseFrame
  <2>3. reg.session # None => Same(reg.session)
    BY <2>1 DEF TypeInv, RegOK
  <2>4. Sole => Stands
    BY <2>2, <2>3, ReachedStill
  <2> QED BY <2>2, <2>4, RunKept
<1>14. ASSUME NEW s \in Sessions, Start(s) PROVE RunInv' /\ SentGrows
  <2>1. Moves(s, "idle", sess[s].todo, sess[s].ready, sess[s].ack)
    BY <1>14, StartMoves
  <2>2. /\ reg'.session = reg.session /\ reg'.epoch = reg.epoch /\ reg'.base = reg.base /\ reg'.upAcked = reg.upAcked
        /\ UNCHANGED << lock, proto, ingested, overlapped >> /\ evBuf' = evBuf
    BY <1>14 DEF Start, TypeInv, RegOK
  <2>3. ASSUME Sole, reg.session # s PROVE Stands
    <3>1. reg.session # None => Same(reg.session)
      BY <2>1, <2>3 DEF Moves, Begins, TypeInv, RegOK
    <3> QED BY <2>2, <2>3, <3>1, ReachedStill
  <2>4. ASSUME Sole, reg.session = s PROVE Stands
    <3>1. ~Carrier(reg.session) /\ ~Carrier(reg.session)'
      BY <1>14, <2>1, <2>2, <2>4 DEF Start, Carrier, Carrying, Moves, Begins
    <3> QED BY <2>2, <2>4, <3>1, ReachedIdle
  <2> QED BY <2>2, <2>3, <2>4, RunKept
<1>15. ASSUME NEW s \in Sessions, Close(s) PROVE RunInv' /\ SentGrows
  <2>1. Moves(s, "closing", sess[s].todo, sess[s].ready, sess[s].ack)
    BY <1>15, CloseMoves
  <2>2. /\ reg'.session = reg.session /\ reg'.epoch = reg.epoch /\ reg'.base = reg.base /\ reg'.upAcked = reg.upAcked
        /\ UNCHANGED << lock, proto, ingested, overlapped >> /\ evBuf' = evBuf
    BY <1>15 DEF Close, TypeInv, RegOK
  <2>3. ASSUME Sole, reg.session # s PROVE Stands
    <3>1. reg.session # None => Same(reg.session)
      BY <2>1, <2>3 DEF Moves, Begins, TypeInv, RegOK
    <3> QED BY <2>2, <2>3, <3>1, ReachedStill
  <2>4. ASSUME Sole, reg.session = s PROVE Stands
    <3>1. ~Carrier(reg.session) /\ ~Carrier(reg.session)'
      BY <1>15, <2>1, <2>2, <2>4 DEF Close, Carrier, Carrying, Moves, Begins
    <3> QED BY <2>2, <2>4, <3>1, ReachedIdle
  <2> QED BY <2>2, <2>3, <2>4, RunKept
<1>16. ASSUME NEW s \in Sessions, Detach(s) PROVE RunInv' /\ SentGrows
  <2>1. Begins(s, "done", 0)
    BY <1>16, DetachBegins
  <2>2. /\ reg'.session = (IF reg.session = s THEN None ELSE reg.session)
        /\ reg'.epoch = reg.epoch /\ reg'.base = reg.base /\ reg'.upAcked = reg.upAcked
        /\ UNCHANGED << lock, proto, ingested, overlapped >> /\ evBuf' = evBuf
    BY <1>16 DEF Detach, OwnsRegistry, TypeInv, RegOK
  <2>3. ASSUME Sole, reg.session # s PROVE Stands
    <3>1. reg.session # None => Same(reg.session)
      BY <2>1, <2>3 DEF Begins, TypeInv, RegOK
    <3> QED BY <2>2, <2>3, <3>1, ReachedStill
  <2>4. ASSUME Sole, reg.session = s PROVE Stands
    <3>1. ~Carrier(reg.session) /\ ~Carrier(reg.session)'
      BY <1>16, <2>1, <2>2, <2>4 DEF Detach, Carrier, Carrying
    <3> QED BY <2>2, <2>4, <3>1, ReachedIdle
  <2> QED BY <2>2, <2>3, <2>4, RunKept
<1>17. ASSUME NEW s \in Sessions, Read(s) PROVE RunInv' /\ SentGrows
  <2>1. PICK run \in Seq(Seqs) : Moves(s, "accept", run, << >>, 0)
    BY <1>17, ReadMoves
  <2>2. /\ reg'.session = reg.session /\ reg'.epoch = reg.epoch /\ reg'.base = reg.base /\ reg'.upAcked = reg.upAcked
        /\ UNCHANGED << lock, proto, ingested, overlapped >> /\ evBuf' = evBuf
    BY <1>17 DEF Read, TypeInv, RegOK
  <2>3. ASSUME Sole, reg.session # s PROVE Stands
    <3>1. reg.session # None => Same(reg.session)
      BY <2>1, <2>3 DEF Moves, Begins, TypeInv, RegOK
    <3> QED BY <2>2, <2>3, <3>1, ReachedStill
  <2>4. ASSUME Sole, reg.session = s PROVE Stands
    <3>1. /\ sess'[s].pc = "accept" /\ sess'[s].ready = << >> /\ ~Carrier(reg.session)
      BY <1>17, <2>1, <2>4 DEF Read, Moves, Carrier, Carrying
    <3> QED BY <2>2, <2>4, <3>1, ReachedEmpty
  <2> QED BY <2>2, <2>3, <2>4, RunKept
<1>18. ASSUME NEW s \in Sessions, Accept(s) PROVE RunInv' /\ SentGrows
  <2>1. UNCHANGED << reg, lock, ingested, overlapped, evBuf >> /\ sess[s].pc = "accept" /\ s # None
    BY <1>18, Bounds DEF Accept
  <2>2. CASE Overflows(proto[sess[s].epoch], Head(sess[s].todo))
    <3>1. proto' = proto /\ Moves(s, "closing", sess[s].todo, sess[s].ready, sess[s].ack)
      BY <1>18, <2>2, AcceptOverflows
    <3>2. sess[s].ready = << >>
      <4>1. ~(Head(sess[s].todo) <= proto[sess[s].epoch].acked + 1)
        BY <1>18, <2>1, <2>2, OverflowIsAhead
      <4> QED BY <2>1, <4>1 DEF LoopInv, LoopOK
    <3>3. ASSUME Sole, reg.session # s PROVE Stands
      <4>1. reg.session # None => Same(reg.session)
        BY <3>1, <3>3 DEF Moves, TypeInv, RegOK
      <4> QED BY <2>1, <3>1, <3>3, <4>1, ReachedStill
    <3>4. ASSUME Sole, reg.session = s PROVE Stands
      <4>1. ~Carrier(reg.session)'
        BY <2>1, <3>1, <3>4 DEF Carrier, Carrying, Moves
      <4> QED BY <2>1, <3>1, <3>2, <3>4, <4>1, ReachedNothing
    <3> QED BY <2>1, <3>1, <3>3, <3>4, RunKept
  <2>3. CASE ~Overflows(proto[sess[s].epoch], Head(sess[s].todo))
    <3> DEFINE e == sess[s].epoch
               p == proto[e]
               q == Head(sess[s].todo)
               a == AcceptReceiver(p, q, q)
               got == sess[s].ready \o AcceptReady(p, q, q)
               rest == Tail(sess[s].todo)
    <3>1. /\ (\A d \in Epochs \ {e} : proto'[d] = proto[d]) /\ e \in Epochs
          /\ \E pc \in {"accept", "gate", "note"} : Moves(s, pc, rest, got, a.acked)
      BY <1>18, <2>3, AcceptMoves
    <3> HIDE DEF a, rest, got
    <3>2. (\A t \in Sessions \ {s} : Same(t)) /\ sess'[s].epoch = e
      BY <3>1 DEF Moves
    <3>3. ASSUME Sole, reg.session # s PROVE Stands
      <4>1. reg.session # None => Same(reg.session)
        BY <3>2, <3>3 DEF TypeInv, RegOK
      <4>2. e # reg.epoch
        BY <2>1, <3>3 DEF Sole, ServeInv, Attached
      <4>3. proto'[reg.epoch] = proto[reg.epoch]
        BY <3>1, <3>3, <4>2 DEF Sole, TypeInv, RegOK
      <4> QED BY <2>1, <3>3, <4>1, <4>3, ReachedStill
    <3>4. ASSUME Sole, reg.session = s, e # reg.epoch PROVE Stands
      <4>1. ~Carrier(reg.session) /\ ~Carrier(reg.session)'
        BY <2>1, <3>2, <3>4 DEF Carrier
      <4>3. proto'[reg.epoch] = proto[reg.epoch]
        BY <3>1, <3>4 DEF Sole, TypeInv, RegOK
      <4> QED BY <2>1, <3>4, <4>1, <4>3, ReachedIdle
    <3>5. ASSUME Sole, reg.session = s, e = reg.epoch PROVE Stands
      BY <1>18, <2>3, <3>5, AcceptRunOK
    <3> QED BY <2>1, <3>3, <3>4, <3>5, RunKept
  <2> QED BY <2>2, <2>3
<1>19. ASSUME NEW s \in Sessions, Gate(s) PROVE RunInv' /\ SentGrows
  <2>1. Moves(s, IF reg.session = s THEN "buffer" ELSE "closing", sess[s].todo, sess[s].ready, sess[s].ack)
    BY <1>19, GateMoves
  <2>2. /\ reg'.session = reg.session /\ reg'.epoch = reg.epoch /\ reg'.base = reg.base /\ reg'.upAcked = reg.upAcked
        /\ UNCHANGED << lock, proto, ingested, overlapped >> /\ evBuf' = evBuf
    BY <1>19 DEF Gate, TypeInv, RegOK
  <2>3. ASSUME Sole, reg.session # s PROVE Stands
    <3>1. reg.session # None => Same(reg.session)
      BY <2>1, <2>3 DEF Moves, Begins, TypeInv, RegOK
    <3> QED BY <2>2, <2>3, <3>1, ReachedStill
  <2>4. ASSUME Sole, reg.session = s PROVE Stands
    <3>1. /\ sess'[s].pc = "buffer" /\ sess'[s].ready = sess[s].ready /\ sess'[s].epoch = sess[s].epoch
          /\ sess[s].pc = "gate"
      BY <1>19, <2>1, <2>4 DEF Gate, Moves
    <3> QED BY <2>2, <2>4, <3>1, ReachedSame
  <2> QED BY <2>2, <2>3, <2>4, RunKept
<1>20. ASSUME NEW s \in Sessions, Buffer(s) PROVE RunInv' /\ SentGrows
  <2>0. CASE EpochCurrent(s)
    BY <1>20, <2>0, BufferRunOK
  <2>5. CASE ~EpochCurrent(s)
    <3>1. Moves(s, "closing", sess[s].todo, sess[s].ready, sess[s].ack) /\ sess[s].epoch # reg.epoch
      BY <1>20, <2>5, BufferMoves DEF EpochCurrent
    <3>2. UNCHANGED << reg, lock, proto, ingested, overlapped, evBuf >>
      BY <1>20, <2>5 DEF Buffer
    <3>3. ASSUME Sole, reg.session # s PROVE Stands
      <4>1. reg.session # None => Same(reg.session)
        BY <3>1, <3>3 DEF Moves, TypeInv, RegOK
      <4> QED BY <3>2, <3>3, <4>1, ReachedStill
    <3>4. ASSUME Sole, reg.session = s PROVE Stands
      <4>1. ~Carrier(reg.session) /\ ~Carrier(reg.session)'
        BY <3>1, <3>2, <3>4 DEF Carrier, Moves
      <4> QED BY <3>2, <3>4, <4>1, ReachedIdle
    <3> QED BY <3>2, <3>3, <3>4, RunKept
  <2> QED BY <2>0, <2>5
<1>21. ASSUME NEW s \in Sessions, Enqueue(s) PROVE RunInv' /\ SentGrows
  <2>0. /\ sess[s].pc = "enqueue" /\ sess[s].ready # << >> /\ sess[s].ready \in Seq(Seqs) /\ s # None
        /\ Moves(s, IF Len(sess[s].ready) > 1 THEN "buffer" ELSE "note", sess[s].todo, Tail(sess[s].ready), sess[s].ack)
    BY <1>21, EnqueueMoves, Bounds DEF Enqueue, EnqueueFanout
  <2>1. PICK pc \in {"buffer", "note"} : /\ Moves(s, pc, sess[s].todo, Tail(sess[s].ready), sess[s].ack)
                                         /\ pc = IF Len(sess[s].ready) > 1 THEN "buffer" ELSE "note"
    BY <2>0
  <2>2. /\ reg'.session = reg.session /\ reg'.epoch = reg.epoch /\ reg'.base = reg.base /\ reg'.upAcked = reg.upAcked
        /\ UNCHANGED << lock, proto, ingested, overlapped >> /\ evBuf' = evBuf
    BY <1>21 DEF Enqueue, EnqueueFanout, TypeInv, RegOK
  <2>3. ASSUME Sole, reg.session # s PROVE Stands
    <3>1. reg.session # None => Same(reg.session)
      BY <2>1, <2>3 DEF Moves, Begins, TypeInv, RegOK
    <3> QED BY <2>2, <2>3, <3>1, ReachedStill
  <2>4. ASSUME Sole, reg.session = s PROVE Stands
    <3>1. CASE sess[s].epoch = reg.epoch
      <4>1. Carrier(reg.session)
        BY <2>0, <2>4, <3>1 DEF Carrier, Carrying
      <4> QED BY <2>0, <2>1, <2>2, <2>4, <4>1, EnqueueRunOK
    <3>2. CASE sess[s].epoch # reg.epoch
      <4>1. ~Carrier(reg.session) /\ ~Carrier(reg.session)'
        BY <2>1, <2>2, <2>4, <3>2 DEF Carrier, Moves
      <4> QED BY <2>2, <2>4, <4>1, ReachedIdle
    <3> QED BY <3>1, <3>2
  <2> QED BY <2>2, <2>3, <2>4, RunKept
<1>22. ASSUME NEW s \in Sessions, Note(s) PROVE RunInv' /\ SentGrows
  <2>1. Moves(s, IF sess[s].stop THEN "closing" ELSE "idle", sess[s].todo, sess[s].ready, sess[s].ack)
    BY <1>22, NoteMoves
  <2>2. /\ reg'.session = reg.session /\ reg'.epoch = reg.epoch /\ reg'.base = reg.base
        /\ UNCHANGED << lock, proto, ingested, overlapped >> /\ evBuf' = evBuf /\ lock = None
        /\ reg'.upAcked = reg.upAcked \/ (reg.session = s /\ reg'.upAcked = sess[s].ack)
    BY <1>22 DEF Note, NoteUpAck, TypeInv, RegOK
  <2>3. ASSUME Sole, reg.session # s PROVE Stands
    <3>1. reg.session # None => Same(reg.session)
      BY <2>1, <2>3 DEF Moves, TypeInv, RegOK
    <3> QED BY <2>2, <2>3, <3>1, ReachedStill
  <2>4. ASSUME Sole, reg.session = s PROVE Stands /\ sess[s].ack <= Reached
    <3>1. ~Carrier(reg.session) /\ ~Carrier(reg.session)'
      BY <1>22, <2>1, <2>2, <2>4 DEF Note, Carrier, Carrying, Moves
    <3>2. Attached(s) /\ s # None
      BY <1>22, Bounds DEF Note, Attached
    <3>3. sess[s].ack <= proto[reg.epoch].acked
      BY <2>2, <2>4, <3>2 DEF ServeInv, LinkInv
    <3>4. Reached = proto[reg.epoch].acked
      BY <2>4, <3>1, SoleIsNat DEF Reached, Sent, Load
    <3> QED BY <2>2, <2>4, <3>1, <3>3, <3>4, ReachedIdle
  <2>5. Sole => Stands /\ reg'.upAcked <= Reached
    BY <2>2, <2>3, <2>4 DEF RunInv, RunOK
  <2> QED BY <2>2, <2>5, RunKept
<1>23. ASSUME NEW s \in Sessions, SendDown(s) PROVE RunInv' /\ SentGrows
  <2>1. \A t \in Sessions : Same(t)
    BY <1>23 DEF SendDown, Same
  <2>2. /\ UNCHANGED << reg, lock, proto, ingested, overlapped >> /\ evBuf' \in {evBuf, << >>}
    BY <1>23 DEF SendDown
  <2>3. reg.session # None => Same(reg.session)
    BY <2>1 DEF TypeInv, RegOK
  <2>4. Sole => Stands
    BY <2>2, <2>3, ReachedStill
  <2> QED BY <2>2, <2>4, RunKept
<1>24. CASE UNCHANGED vars
  BY <1>24 DEF vars, hubVars, SentGrows, RunInv, RunOK, LoadOK, GapPullContiguous, Sole, Reached, Sent, Load, Carrier, Carrying
<1> QED
  BY <1>1, <1>2, <1>3, <1>4, <1>5, <1>6, <1>7, <1>8, <1>9, <1>10, <1>11, <1>12, <1>13,
     <1>14, <1>15, <1>16, <1>17, <1>18, <1>19, <1>20, <1>21, <1>22, <1>23, <1>24 DEF
     Next, SessionStep
-----------------------------------------------------------------------------
(* What a browser is told. *)

\* Item x goes to the end of the queue.
Queued(x) == queue' = Append(queue, x)

\* It is behind everything queued.
LEMMA QueuedOK ==
  ASSUME TypeInv, NEW x, Queued(x)
  PROVE  /\ \A i \in DOMAIN queue' : queue'[i] = x \/ \E j \in DOMAIN queue : queue'[i] = queue[j]
         /\ \E j \in DOMAIN queue' : queue'[j] = x /\ \A i \in 1 .. j - 1 : i \in DOMAIN queue /\ queue'[i] = queue[i]
         /\ \A i \in DOMAIN queue : i \in DOMAIN queue' /\ queue'[i] = queue[i] /\ \A k \in 1 .. i - 1 : k \in DOMAIN queue
         /\ \A i \in DOMAIN queue' : i \in Nat /\ (i \notin DOMAIN queue => queue'[i] = x /\ \A j \in DOMAIN queue' : j <= i)
<1> DEFINE n == Len(queue)
<1>1. queue \in Seq(Items)
  BY DEF TypeInv, QueueOK
<1>2. n \in Nat /\ DOMAIN queue = 1 .. n
  BY <1>1
<1>3. DOMAIN queue' = 1 .. (n + 1) /\ queue'[n + 1] = x /\ \A i \in 1 .. n : queue'[i] = queue[i]
  <2>1. queue' = Append(queue, x)
    BY DEF Queued
  <2>2. DOMAIN Append(queue, x) = 1 .. (n + 1) /\ Append(queue, x)[n + 1] = x /\ \A i \in 1 .. n : Append(queue, x)[i] = queue[i]
    BY <1>1, <1>2
  <2> QED BY <2>1, <2>2
<1> HIDE DEF n
<1>4. \A i \in 1 .. (n + 1) : i = n + 1 \/ i \in 1 .. n
  BY <1>2
<1>5. \A i \in DOMAIN queue' : queue'[i] = x \/ \E j \in DOMAIN queue : queue'[i] = queue[j]
  BY <1>2, <1>3, <1>4
<1>6. n + 1 \in DOMAIN queue' /\ \A i \in 1 .. (n + 1) - 1 : i \in DOMAIN queue /\ queue'[i] = queue[i]
  BY <1>2, <1>3
<1>7. \A i \in DOMAIN queue : i \in DOMAIN queue' /\ queue'[i] = queue[i] /\ \A k \in 1 .. i - 1 : k \in DOMAIN queue
  BY <1>2, <1>3
<1>8. \A i \in DOMAIN queue' : i \in Nat /\ (i \notin DOMAIN queue => queue'[i] = x /\ \A j \in DOMAIN queue' : j <= i)
  BY <1>2, <1>3, <1>4
<1>9. \E j \in DOMAIN queue' : queue'[j] = x /\ \A i \in 1 .. j - 1 : i \in DOMAIN queue /\ queue'[i] = queue[i]
  BY <1>3, <1>6
<1> QED BY <1>5, <1>7, <1>8, <1>9

\* Taking the first item moves the others up.
LEMMA TailOK ==
  ASSUME TypeInv, queue # << >>, queue' = Tail(queue)
  PROVE  /\ Head(queue) = queue[1] /\ 1 \in DOMAIN queue /\ Head(queue) \in Items
         /\ \A i \in DOMAIN queue' : i + 1 \in DOMAIN queue /\ queue'[i] = queue[i + 1] /\ i \in Nat
         /\ \A i \in DOMAIN queue : i # 1 => i - 1 \in DOMAIN queue' /\ queue'[i - 1] = queue[i] /\ i \in Nat
<1> DEFINE n == Len(queue)
           tl == Tail(queue)
<1>1. queue \in Seq(Items) /\ queue' = tl
  BY DEF TypeInv, QueueOK
<1>2. n \in Nat \ {0} /\ DOMAIN queue = 1 .. n /\ Head(queue) = queue[1] /\ Head(queue) \in Items
  BY <1>1
<1>3. DOMAIN tl = 1 .. n - 1 /\ \A i \in 1 .. n - 1 : tl[i] = queue[i + 1]
  <2>1. tl \in Seq(Items) /\ Len(tl) = n - 1
    BY <1>1
  <2>2. \A i \in 1 .. n - 1 : tl[i] = queue[i + 1]
    BY <1>1
  <2> HIDE DEF tl
  <2> QED BY <2>1, <2>2
<1> HIDE DEF n, tl
<1>4. \A i \in 1 .. n - 1 : i + 1 \in 1 .. n /\ i \in Nat
  BY <1>2
<1>5. \A i \in 1 .. n : i # 1 => i - 1 \in 1 .. n - 1 /\ (i - 1) + 1 = i /\ i \in Nat
  BY <1>2
<1>6. 1 \in 1 .. n
  BY <1>2
<1>7. \A i \in 1 .. n : i # 1 => tl[i - 1] = queue[i]
  <2> SUFFICES ASSUME NEW i \in 1 .. n, i # 1 PROVE tl[i - 1] = queue[i]
    OBVIOUS
  <2>1. i - 1 \in 1 .. n - 1 /\ (i - 1) + 1 = i
    BY <1>5
  <2>2. tl[i - 1] = queue[(i - 1) + 1]
    BY <1>3, <2>1
  <2> QED BY <2>1, <2>2
<1> QED BY <1>1, <1>2, <1>3, <1>4, <1>5, <1>6, <1>7

\* Epochs and seqs on their way to the browser are numbers.
LEMMA QueuedIsNat ==
  ASSUME TypeInv, ResetInv
  PROVE  /\ drain.epoch \in Nat /\ seen.reset \in Nat /\ seen.last.epoch \in Nat /\ drain.seq \in Nat /\ seen.last.seq \in Nat
         /\ \A i \in DOMAIN queue : queue[i].epoch \in Nat /\ queue[i].seq \in Nat /\ queue[i].epoch # 0
<1>0. (\A e \in Epochs : e \in Nat /\ e # 0) /\ \A q \in Seqs : q \in Nat
  BY Bounds
<1>2. \A x \in Items : x.epoch \in Nat /\ x.seq \in Nat /\ x.epoch # 0
  BY <1>0 DEF Items
<1>1. \A x \in Items \cup {NoItem} : x.epoch \in Nat /\ x.seq \in Nat
  BY <1>2 DEF NoItem
<1>3. queue \in Seq(Items) /\ drain \in Items \cup {NoItem} /\ seen.last \in Items \cup {NoItem}
  BY DEF TypeInv, QueueOK, SeenOK
<1>4. \A i \in DOMAIN queue : queue[i] \in Items
  BY <1>3
<1> QED BY <1>1, <1>2, <1>3, <1>4 DEF ResetInv

\* The steps that leave the way to the browser alone.
LEMMA ResetStill ==
  ASSUME ResetInv, UNCHANGED << queue, started, drain, seen, unreset, lock >>, reg'.epoch = reg.epoch
  PROVE  ResetInv'
<1>1. /\ Announced' <=> Announced
      /\ ResetQueued' <=> ResetQueued
      /\ EventsFollowTheirReset' <=> EventsFollowTheirReset
  BY DEF Announced, IsReset, Current, ResetQueued, EventsFollowTheirReset
<1> QED BY <1>1 DEF ResetInv, Current

\* Every step keeps a browser told of an epoch before its events.
LEMMA ResetStep ==
  ASSUME TypeInv, TypeInv', ServeInv, LoopInv, ResetInv, [Next]_vars
  PROVE  ResetInv'
<1>1. ASSUME HostPublish PROVE ResetInv'
  <2>1. UNCHANGED << queue, started, drain, seen, unreset, lock >> /\ reg'.epoch = reg.epoch
    BY <1>1 DEF HostPublish, hubVars, TypeInv, RegOK, hubVars
  <2> QED BY <2>1, ResetStill
<1>2. ASSUME HostSend PROVE ResetInv'
  <2>1. UNCHANGED << queue, started, drain, seen, unreset, lock >> /\ reg'.epoch = reg.epoch
    BY <1>2 DEF HostSend, hubVars, TypeInv, RegOK
  <2> QED BY <2>1, ResetStill
<1>3. ASSUME HostGetsAck PROVE ResetInv'
  <2>1. UNCHANGED << queue, started, drain, seen, unreset, lock >> /\ reg'.epoch = reg.epoch
    BY <1>3 DEF HostGetsAck, hubVars, TypeInv, RegOK, hubVars
  <2> QED BY <2>1, ResetStill
<1>4. ASSUME HostDisconnect PROVE ResetInv'
  <2>1. UNCHANGED << queue, started, drain, seen, unreset, lock >> /\ reg'.epoch = reg.epoch
    BY <1>4 DEF HostDisconnect, hubVars, TypeInv, RegOK, hubVars
  <2> QED BY <2>1, ResetStill
<1>5. ASSUME HostRestart PROVE ResetInv'
  <2>1. UNCHANGED << queue, started, drain, seen, unreset, lock >> /\ reg'.epoch = reg.epoch
    BY <1>5 DEF HostRestart, hubVars, TypeInv, RegOK, hubVars
  <2> QED BY <2>1, ResetStill
<1>6. ASSUME DrainTake PROVE ResetInv'
  <2>1. /\ drain = NoItem /\ queue # << >> /\ queue' = Tail(queue) /\ UNCHANGED << reg, lock, seen, unreset, started >>
        /\ drain' = IF Current(Head(queue)) THEN Head(queue) ELSE NoItem
    BY <1>6 DEF DrainTake, FanoutItemCurrent, Current
  <2>2. /\ Head(queue) = queue[1] /\ 1 \in DOMAIN queue /\ Head(queue) \in Items
        /\ \A i \in DOMAIN queue' : i + 1 \in DOMAIN queue /\ queue'[i] = queue[i + 1] /\ i \in Nat
        /\ \A i \in DOMAIN queue : i # 1 => i - 1 \in DOMAIN queue' /\ queue'[i - 1] = queue[i] /\ i \in Nat
    BY <2>1, TailOK
  <2>3. NoItem.epoch = 0 /\ NoItem.kind = "none" /\ Head(queue).epoch \in Epochs
    BY <2>2 DEF NoItem, Items
  <2>4. started
    BY <2>1 DEF ResetInv, TypeInv, QueueOK
  <2>5. drain'.epoch <= reg.epoch /\ (drain' = NoItem \/ Current(drain'))
    BY <2>1, <2>2, <2>3 DEF ResetInv, Current
  <2>6. lock # None => drain' = NoItem /\ reg.epoch # 0 /\ \A i \in DOMAIN queue' : ~Current(queue'[i])
    BY <2>1, <2>2 DEF ResetInv, ServeInv
  <2>7. drain'.kind = "event" => drain'.epoch \in unreset \/ drain'.epoch = seen.reset
    <3> SUFFICES ASSUME drain'.kind = "event", drain'.epoch \notin unreset, drain'.epoch # seen.reset PROVE FALSE
      OBVIOUS
    <3>1. drain' = Head(queue) /\ Current(Head(queue)) /\ queue[1].kind = "event"
      BY <2>1, <2>2, <2>3
    <3>2. lock = None /\ reg.epoch # 0 /\ reg.epoch \notin unreset /\ seen.reset # reg.epoch
      BY <2>3, <2>6, <3>1, ServeIsNat DEF Current, NoItem
    <3>3. ~Announced
      BY <2>1, <2>3, <3>2 DEF Announced, IsReset
    <3>4. PICK j \in DOMAIN queue : IsReset(queue[j]) /\ \A i \in 1 .. j - 1 : ~Current(queue[i])
      BY <3>2, <3>3 DEF ResetInv, ResetQueued
    <3>5. j = 1
      <4>1. j \in Nat /\ j >= 1
        BY DEF TypeInv, QueueOK
      <4>2. j # 1 => 1 \in 1 .. j - 1
        BY <4>1
      <4> QED BY <2>2, <3>1, <3>4, <4>2
    <3> QED BY <3>1, <3>4, <3>5 DEF IsReset
  <2>8. lock = None /\ reg.epoch # 0 /\ reg.epoch \notin unreset /\ ~Announced' => ResetQueued'
    <3> SUFFICES ASSUME lock = None, reg.epoch # 0, reg.epoch \notin unreset, ~Announced' PROVE ResetQueued'
      OBVIOUS
    <3>1. ~Announced
      BY <2>1, <2>3 DEF Announced, IsReset, Current
    <3>2. PICK j \in DOMAIN queue : IsReset(queue[j]) /\ \A i \in 1 .. j - 1 : ~Current(queue[i])
      BY <3>1 DEF ResetInv, ResetQueued
    <3>3. j # 1
      BY <2>1, <2>2, <3>2 DEF Announced, IsReset, Current
    <3>4. j - 1 \in DOMAIN queue' /\ queue'[j - 1] = queue[j] /\ j \in Nat
      BY <2>2, <3>3
    <3>5. \A i \in 1 .. (j - 1) - 1 : i \in DOMAIN queue' /\ i + 1 \in 1 .. j - 1
      <4>1. queue' \in Seq(Items)
        BY DEF TypeInv, QueueOK
      <4>2. DOMAIN queue' = 1 .. Len(queue') /\ Len(queue') \in Nat
        BY <4>1
      <4> QED BY <3>4, <4>2
    <3>6. \A i \in 1 .. (j - 1) - 1 : ~Current(queue'[i])
      BY <2>2, <3>2, <3>5
    <3> QED BY <2>1, <3>2, <3>4, <3>6 DEF ResetQueued, IsReset, Current
  <2>9. \A i \in DOMAIN queue' : queue'[i].epoch <= reg.epoch
    BY <2>2 DEF ResetInv
  <2>10. /\ drain'.epoch <= reg.epoch /\ seen.reset <= reg.epoch /\ seen.last.epoch <= reg.epoch /\ seen.reset \in Nat
         /\ drain' = NoItem \/ drain'.epoch = reg.epoch
    BY <2>1, <2>5 DEF ResetInv, Current
  <2>11. /\ lock # None => /\ drain'.epoch # reg.epoch /\ seen.reset # reg.epoch /\ seen.last.epoch # reg.epoch
                           /\ \A i \in DOMAIN queue' : queue'[i].epoch # reg.epoch
         /\ reg.epoch # 0 /\ seen.reset = reg.epoch => seen.last.epoch = reg.epoch
    BY <2>3, <2>6 DEF ResetInv, Current
  <2>12. seen.last.kind = "event" => seen.reset = seen.last.epoch \/ seen.last.epoch \in unreset
    BY DEF ResetInv, EventsFollowTheirReset
  <2>13. UNCHANGED << reg, lock, seen, unreset, started >>
    BY <2>1
  <2> QED BY <2>4, <2>7, <2>8, <2>9, <2>10, <2>11, <2>12, <2>13 DEF ResetInv, Current, EventsFollowTheirReset
<1>7. ASSUME DrainDeliver PROVE ResetInv'
  <2>1. /\ drain # NoItem /\ drain \in Items /\ drain' = NoItem /\ UNCHANGED << reg, lock, queue, unreset, started >>
        /\ seen'.last = drain /\ seen'.reset = IF drain.kind = "reset" THEN drain.epoch ELSE seen.reset
    BY <1>7 DEF DrainDeliver, See, TypeInv, QueueOK
  <2>2. NoItem.epoch = 0 /\ NoItem.kind = "none" /\ drain.kind \in {"event", "reset"} /\ drain.epoch \in Nat
    BY <2>1, Bounds DEF NoItem, Items
  <2>3. started
    BY <2>1 DEF ResetInv, TypeInv, QueueOK
  <2>4. 0 <= reg.epoch /\ (lock # None => reg.epoch # 0)
    BY ServeIsNat DEF ServeInv
  <2>5. reg.epoch # 0 /\ seen'.reset = reg.epoch => Current(drain)
    BY <2>1 DEF ResetInv, Current
  <2>6. reg.epoch # 0 /\ ~Announced' => ~Announced
    BY <2>1, <2>2, <2>5 DEF Announced, IsReset, Current, ResetInv
  <2>7. ResetQueued => ResetQueued'
    BY <2>1 DEF ResetQueued, IsReset, Current
  <2>8. seen'.last.kind = "event" => seen'.reset = seen'.last.epoch \/ seen'.last.epoch \in unreset
    BY <2>1 DEF ResetInv
  <2> QED BY <2>1, <2>2, <2>3, <2>4, <2>5, <2>6, <2>7, <2>8 DEF ResetInv, Current, EventsFollowTheirReset
<1>8. ASSUME HubRestart PROVE ResetInv'
  <2>1. /\ queue' = << >> /\ drain' = NoItem /\ seen' = NothingSeen /\ reg'.epoch = 0 /\ lock' = None
    BY <1>8 DEF HubRestart, NewRegistry
  <2>2. DOMAIN queue' = {}
    BY <2>1
  <2> QED BY <2>1, <2>2 DEF ResetInv, NoItem, NothingSeen, EventsFollowTheirReset
<1>9. ASSUME NEW timer \in timers, GraceClear(timer) PROVE ResetInv'
  <2>1. UNCHANGED << queue, started, drain, seen, unreset, lock >> /\ reg'.epoch = reg.epoch
    BY <1>9 DEF GraceClear, TypeInv, RegOK
  <2> QED BY <2>1, ResetStill
<1>10. ASSUME NEW s \in Sessions, AttachResume(s) PROVE ResetInv'
  <2>1. UNCHANGED << queue, started, drain, seen, unreset, lock >> /\ reg'.epoch = reg.epoch
    BY <1>10 DEF AttachResume, InstallSession, MayAttach, TypeInv, RegOK
  <2> QED BY <2>1, ResetStill
<1>11. ASSUME NEW s \in Sessions, AttachNewEpoch(s) PROVE ResetInv'
  <2>1. /\ UNCHANGED << queue, started, drain, seen, unreset >> /\ reg'.epoch = host.epoch /\ lock' = s /\ s # None
        /\ reg.epoch # host.epoch
    BY <1>11, Bounds DEF AttachNewEpoch, MayAttach, TypeInv, RegOK
  <2>2. reg.epoch < host.epoch /\ reg.epoch \in Nat /\ host.epoch \in Nat
    BY <2>1, ServeIsNat DEF ServeInv
  <2>3. /\ drain.epoch < host.epoch /\ seen.reset < host.epoch /\ seen.last.epoch < host.epoch
        /\ \A i \in DOMAIN queue : queue[i].epoch < host.epoch
    BY <2>2, QueuedIsNat DEF ResetInv
  <2>4. /\ drain.epoch # host.epoch /\ seen.reset # host.epoch /\ seen.last.epoch # host.epoch
        /\ (\A i \in DOMAIN queue : queue[i].epoch # host.epoch)
        /\ drain.epoch <= host.epoch /\ seen.reset <= host.epoch /\ seen.last.epoch <= host.epoch
        /\ \A i \in DOMAIN queue : queue[i].epoch <= host.epoch
    BY <2>2, <2>3, QueuedIsNat
  <2> QED BY <2>1, <2>4 DEF ResetInv, Current, EventsFollowTheirReset
<1>12. ASSUME NEW s \in Sessions, AttachFinish(s) PROVE ResetInv'
  <2>1. /\ lock # None /\ lock' = None /\ reg'.epoch = reg.epoch /\ UNCHANGED drain /\ reg.epoch \in Epochs
        /\ AnnounceEpochReset(reg.epoch, reg.base)
    BY <1>12, Bounds DEF AttachFinish, TypeInv, RegOK, ServeInv
  <2>2. /\ ~Current(drain) /\ seen.reset # reg.epoch /\ ~Current(seen.last) /\ \A i \in DOMAIN queue : ~Current(queue[i])
    BY <2>1 DEF ResetInv
  <2> DEFINE x == ResetItem(reg.epoch, reg.base)
  <2>3. x.epoch = reg.epoch /\ x.kind = "reset" /\ reg.epoch \in Nat /\ reg.epoch <= reg.epoch
    BY ServeIsNat DEF ResetItem
  <2> HIDE DEF x
  <2>4. CASE started /\ Len(queue) < QueueCap
    <3>1. started' = TRUE /\ queue' = Append(queue, x) /\ UNCHANGED << seen, unreset >>
      BY <2>1, <2>4 DEF AnnounceEpochReset, EnqueueFanout, x
    <3>2. Queued(x)
      BY <3>1 DEF Queued
    <3>3. /\ \A i \in DOMAIN queue' : queue'[i] = x \/ \E j \in DOMAIN queue : queue'[i] = queue[j]
          /\ \E j \in DOMAIN queue' : queue'[j] = x /\ \A i \in 1 .. j - 1 : i \in DOMAIN queue /\ queue'[i] = queue[i]
      BY <3>2, QueuedOK
    <3>4. \A i \in DOMAIN queue' : queue'[i].epoch <= reg.epoch
      BY <2>3, <3>3 DEF ResetInv
    <3>5. ResetQueued'
      BY <2>1, <2>2, <2>3, <3>3 DEF ResetQueued, IsReset, Current
    <3> QED BY <2>1, <2>2, <3>1, <3>4, <3>5 DEF ResetInv, Current, EventsFollowTheirReset
  <2>5. CASE started /\ ~(Len(queue) < QueueCap)
    <3>1. started' = TRUE /\ UNCHANGED << queue, seen >> /\ reg.epoch \in unreset' /\ unreset \subseteq unreset'
      BY <2>1, <2>3, <2>5 DEF AnnounceEpochReset, EnqueueFanout, x
    <3> QED BY <2>1, <2>2, <3>1 DEF ResetInv, Current, EventsFollowTheirReset
  <2>6. CASE ~started
    <3>1. UNCHANGED << queue, started, unreset >> /\ seen' = See(x)
      BY <2>1, <2>6 DEF AnnounceEpochReset, x
    <3>2. queue = << >> /\ drain = NoItem
      BY <2>6 DEF ResetInv
    <3>3. seen'.last = x /\ seen'.reset = reg.epoch
      BY <2>3, <3>1 DEF See
    <3>4. DOMAIN queue = {}
      BY <3>2
    <3> QED BY <2>1, <2>3, <3>1, <3>2, <3>3, <3>4 DEF ResetInv, Current, Announced, EventsFollowTheirReset, NoItem
  <2> QED BY <2>4, <2>5, <2>6 DEF TypeInv, QueueOK
<1>13. ASSUME NEW s \in Sessions, LoseFrame(s) PROVE ResetInv'
  <2>1. UNCHANGED << queue, started, drain, seen, unreset, lock >> /\ reg'.epoch = reg.epoch
    BY <1>13 DEF LoseFrame, TypeInv, RegOK
  <2> QED BY <2>1, ResetStill
<1>14. ASSUME NEW s \in Sessions, Start(s) PROVE ResetInv'
  <2>1. UNCHANGED << queue, started, drain, seen, unreset, lock >> /\ reg'.epoch = reg.epoch
    BY <1>14 DEF Start, TypeInv, RegOK
  <2> QED BY <2>1, ResetStill
<1>15. ASSUME NEW s \in Sessions, Close(s) PROVE ResetInv'
  <2>1. UNCHANGED << queue, started, drain, seen, unreset, lock >> /\ reg'.epoch = reg.epoch
    BY <1>15 DEF Close, TypeInv, RegOK
  <2> QED BY <2>1, ResetStill
<1>16. ASSUME NEW s \in Sessions, Detach(s) PROVE ResetInv'
  <2>1. UNCHANGED << queue, started, drain, seen, unreset, lock >> /\ reg'.epoch = reg.epoch
    BY <1>16 DEF Detach, TypeInv, RegOK
  <2> QED BY <2>1, ResetStill
<1>17. ASSUME NEW s \in Sessions, Read(s) PROVE ResetInv'
  <2>1. UNCHANGED << queue, started, drain, seen, unreset, lock >> /\ reg'.epoch = reg.epoch
    BY <1>17 DEF Read, TypeInv, RegOK
  <2> QED BY <2>1, ResetStill
<1>18. ASSUME NEW s \in Sessions, Accept(s) PROVE ResetInv'
  <2>1. UNCHANGED << queue, started, drain, seen, unreset, lock >> /\ reg'.epoch = reg.epoch
    BY <1>18 DEF Accept, TypeInv, RegOK
  <2> QED BY <2>1, ResetStill
<1>19. ASSUME NEW s \in Sessions, Gate(s) PROVE ResetInv'
  <2>1. UNCHANGED << queue, started, drain, seen, unreset, lock >> /\ reg'.epoch = reg.epoch
    BY <1>19 DEF Gate, TypeInv, RegOK
  <2> QED BY <2>1, ResetStill
<1>20. ASSUME NEW s \in Sessions, Buffer(s) PROVE ResetInv'
  <2>1. UNCHANGED << queue, started, drain, seen, unreset, lock >> /\ reg'.epoch = reg.epoch
    BY <1>20 DEF Buffer, TypeInv, RegOK
  <2> QED BY <2>1, ResetStill
<1>21. ASSUME NEW s \in Sessions, Enqueue(s) PROVE ResetInv'
  <2>1. sess[s].pc = "enqueue" /\ Attached(s) /\ UNCHANGED << reg, lock, drain, seen >> /\ started' = TRUE
    BY <1>21 DEF Enqueue, EnqueueFanout, Attached
  <2> DEFINE x == EventItem(sess[s].epoch, Head(sess[s].ready))
  <2>2. x.epoch <= reg.epoch /\ x.epoch \in Nat /\ (lock # None => x.epoch < reg.epoch) /\ x.kind = "event"
    BY <2>1, ServeIsNat DEF ServeInv, EventItem
  <2>3. (queue' = queue \/ Queued(x)) /\ unreset' = unreset
    BY <1>21 DEF Enqueue, EnqueueFanout, Queued, EventItem
  <2> HIDE DEF x
  <2>4. CASE queue' = queue
    BY <2>1, <2>3, <2>4 DEF ResetInv, Current, IsReset, Announced, ResetQueued, EventsFollowTheirReset
  <2>5. CASE Queued(x)
    <3>1. /\ \A i \in DOMAIN queue' : queue'[i] = x \/ \E j \in DOMAIN queue : queue'[i] = queue[j]
          /\ \A i \in DOMAIN queue : i \in DOMAIN queue' /\ queue'[i] = queue[i] /\ \A k \in 1 .. i - 1 : k \in DOMAIN queue
      BY <2>5, QueuedOK
    <3>2. \A i \in DOMAIN queue' : queue'[i].epoch <= reg.epoch
      BY <2>2, <3>1 DEF ResetInv
    <3>3. lock # None => \A i \in DOMAIN queue' : queue'[i].epoch # reg.epoch
      BY <2>2, <3>1, ServeIsNat DEF ResetInv, Current
    <3>4. ResetQueued => ResetQueued'
      BY <2>1, <3>1 DEF ResetQueued, IsReset, Current
    <3> QED BY <2>1, <2>3, <3>2, <3>3, <3>4 DEF ResetInv, Current, IsReset, Announced, EventsFollowTheirReset
  <2> QED BY <2>3, <2>4, <2>5
<1>22. ASSUME NEW s \in Sessions, Note(s) PROVE ResetInv'
  <2>1. UNCHANGED << queue, started, drain, seen, unreset, lock >> /\ reg'.epoch = reg.epoch
    BY <1>22 DEF Note, TypeInv, RegOK, NoteUpAck
  <2> QED BY <2>1, ResetStill
<1>23. ASSUME NEW s \in Sessions, SendDown(s) PROVE ResetInv'
  <2>1. UNCHANGED << queue, started, drain, seen, unreset, lock >> /\ reg'.epoch = reg.epoch
    BY <1>23 DEF SendDown, TypeInv, RegOK
  <2> QED BY <2>1, ResetStill
<1>24. CASE UNCHANGED vars
  BY <1>24 DEF vars, hubVars, ResetInv, Current, IsReset, Announced, ResetQueued, EventsFollowTheirReset
<1> QED
  BY <1>1, <1>2, <1>3, <1>4, <1>5, <1>6, <1>7, <1>8, <1>9, <1>10, <1>11, <1>12, <1>13,
     <1>14, <1>15, <1>16, <1>17, <1>18, <1>19, <1>20, <1>21, <1>22, <1>23, <1>24 DEF
     Next, SessionStep
-----------------------------------------------------------------------------
(* The order in which a browser gets events. *)

\* The steps that leave the way to the browser alone.
LEMMA OrderStill ==
  ASSUME TypeInv, ResetInv, OrderInv, SentGrows, UNCHANGED << queue, drain, seen, unreset >>,
         overlapped \subseteq overlapped', lock' # None \/ (lock' = lock /\ reg'.epoch = reg.epoch)
  PROVE  OrderInv'
<1>1. ASSUME lock' = None, Sole', reg'.epoch \notin unreset' PROVE OrderOK'
  <2>1. lock = None /\ reg'.epoch = reg.epoch /\ Sole /\ reg.epoch \notin unreset
    BY <1>1 DEF Sole
  <2>2. OrderOK /\ Sent \in Int /\ Sent' \in {Sent, Sent + 1}
    BY <1>1, <2>1, SoleIsNat DEF OrderInv, SentGrows
  <2>3. drain.seq \in Nat /\ seen.last.seq \in Nat /\ \A i \in DOMAIN queue : queue[i].seq \in Nat
    BY QueuedIsNat
  <2>4. /\ \A i \in DOMAIN queue : Current(queue[i]) => queue[i].seq <= Sent'
        /\ Current(drain) => drain.seq <= Sent'
        /\ Current(seen.last) => seen.last.seq <= Sent'
    BY <2>2, <2>3 DEF OrderOK
  <2> QED BY <2>1, <2>2, <2>4 DEF OrderOK, Current
<1>2. drain'.kind = "event" => drain'.epoch \in overlapped' \cup unreset' \/ seen'.last.seq < drain'.seq
  BY DEF OrderInv
<1>3. SeenInOrder'
  BY DEF OrderInv, SeenInOrder
<1> QED BY <1>1, <1>2, <1>3 DEF OrderInv

\* Every step keeps the events on their way to a browser in order.
LEMMA OrderStep ==
  ASSUME TypeInv, TypeInv', ServeInv, LinkInv, LoopInv, RunInv, ResetInv, ResetInv', OrderInv, SentGrows, [Next]_vars
  PROVE  OrderInv'
<1>1. ASSUME HostPublish PROVE OrderInv'
  <2>1. UNCHANGED << queue, drain, seen, unreset, lock >> /\ reg'.epoch = reg.epoch /\ overlapped \subseteq overlapped'
    BY <1>1 DEF HostPublish, hubVars, TypeInv, RegOK, hubVars
  <2> QED BY <2>1, OrderStill
<1>2. ASSUME HostSend PROVE OrderInv'
  <2>1. UNCHANGED << queue, drain, seen, unreset, lock >> /\ reg'.epoch = reg.epoch /\ overlapped \subseteq overlapped'
    BY <1>2 DEF HostSend, hubVars, TypeInv, RegOK
  <2> QED BY <2>1, OrderStill
<1>3. ASSUME HostGetsAck PROVE OrderInv'
  <2>1. UNCHANGED << queue, drain, seen, unreset, lock >> /\ reg'.epoch = reg.epoch /\ overlapped \subseteq overlapped'
    BY <1>3 DEF HostGetsAck, hubVars, TypeInv, RegOK, hubVars
  <2> QED BY <2>1, OrderStill
<1>4. ASSUME HostDisconnect PROVE OrderInv'
  <2>1. UNCHANGED << queue, drain, seen, unreset, lock >> /\ reg'.epoch = reg.epoch /\ overlapped \subseteq overlapped'
    BY <1>4 DEF HostDisconnect, hubVars, TypeInv, RegOK, hubVars
  <2> QED BY <2>1, OrderStill
<1>5. ASSUME HostRestart PROVE OrderInv'
  <2>1. UNCHANGED << queue, drain, seen, unreset, lock >> /\ reg'.epoch = reg.epoch /\ overlapped \subseteq overlapped'
    BY <1>5 DEF HostRestart, hubVars, TypeInv, RegOK, hubVars
  <2> QED BY <2>1, OrderStill
<1>6. ASSUME DrainTake PROVE OrderInv'
  <2>1. /\ drain = NoItem /\ queue # << >> /\ queue' = Tail(queue)
        /\ UNCHANGED << reg, lock, seen, unreset, overlapped >>
        /\ drain' = IF Current(Head(queue)) THEN Head(queue) ELSE NoItem
    BY <1>6 DEF DrainTake, FanoutItemCurrent, Current
  <2>2. /\ Head(queue) = queue[1] /\ 1 \in DOMAIN queue
        /\ \A i \in DOMAIN queue' : i + 1 \in DOMAIN queue /\ queue'[i] = queue[i + 1] /\ i \in Nat
    BY <2>1, TailOK
  <2>3. NoItem.epoch = 0 /\ NoItem.kind = "none"
    BY DEF NoItem
  <2>4. /\ \A i \in DOMAIN queue : queue[i].seq \in Nat /\ queue[i].epoch # 0
        /\ seen.last.seq \in Nat
    BY QueuedIsNat
  <2>5. ASSUME lock = None, Sole, reg.epoch \notin unreset
        PROVE  OrderOK' /\ (Current(queue[1]) /\ seen.reset = reg.epoch => seen.last.seq < queue[1].seq)
    <3>1. OrderOK /\ Sent \in Int /\ Sent' \in {Sent, Sent + 1}
      BY <2>1, <2>5, SoleIsNat DEF OrderInv, SentGrows, Sole
    <3>2. \A i \in DOMAIN queue' : i + 1 \in DOMAIN queue /\ 1 < i + 1 /\ queue'[i] = queue[i + 1] /\ i \in Nat
      <4>1. \A i \in DOMAIN queue' : i >= 1
        BY DEF TypeInv, QueueOK
      <4> QED BY <2>2, <4>1
    <3>3. \A i, j \in DOMAIN queue' :
              i < j /\ queue'[i].epoch = reg.epoch /\ queue'[j].epoch = reg.epoch => queue'[i].seq < queue'[j].seq
      <4>1. \A i, j \in DOMAIN queue' : i < j => i + 1 < j + 1
        BY <3>2
      <4> QED BY <3>1, <3>2, <4>1 DEF OrderOK, Current
    <3>4. drain'.epoch = reg.epoch => drain' = queue[1] /\ Current(queue[1])
      BY <2>1, <2>2, <2>3, <2>5 DEF Sole, Current
    <3>5. \A i \in DOMAIN queue' : queue'[i].epoch = reg.epoch =>
              /\ queue'[i].seq <= Sent
              /\ drain'.epoch = reg.epoch => drain'.seq < queue'[i].seq
              /\ seen.reset = reg.epoch => seen.last.seq < queue'[i].seq
      BY <2>2, <3>1, <3>2, <3>4 DEF OrderOK, Current
    <3>6. /\ drain'.epoch = reg.epoch => drain'.seq <= Sent
          /\ Current(seen.last) => seen.last.seq <= Sent
          /\ Current(queue[1]) /\ seen.reset = reg.epoch => seen.last.seq < queue[1].seq
      BY <2>2, <3>1, <3>4 DEF OrderOK
    <3>7. /\ \A i \in DOMAIN queue' : queue'[i].epoch = reg.epoch => queue'[i].seq <= Sent'
          /\ drain'.epoch = reg.epoch => drain'.seq <= Sent'
          /\ Current(seen.last) => seen.last.seq <= Sent'
      BY <2>2, <2>4, <3>1, <3>4, <3>5, <3>6
    <3> QED BY <2>1, <3>3, <3>5, <3>6, <3>7 DEF OrderOK, Current
  <2>6. lock' = None /\ Sole' /\ reg'.epoch \notin unreset' => OrderOK'
    BY <2>1, <2>5 DEF Sole
  <2>7. drain'.kind = "event" => drain'.epoch \in overlapped \cup unreset \/ seen.last.seq < drain'.seq
    <3> SUFFICES ASSUME drain'.kind = "event", drain'.epoch \notin overlapped \cup unreset PROVE seen.last.seq < drain'.seq
      OBVIOUS
    <3>1. drain' = queue[1] /\ Current(queue[1]) /\ reg.epoch = drain'.epoch /\ reg.epoch # 0
      BY <2>1, <2>2, <2>3, <2>4 DEF Current
    <3>2. lock = None
      BY <2>2, <3>1 DEF ResetInv
    <3>3. Sole /\ reg.epoch \notin unreset
      BY <3>1 DEF Sole
    <3>4. seen.reset = reg.epoch
      BY <2>1, <3>1, <3>3 DEF ResetInv
    <3> QED BY <2>5, <3>1, <3>2, <3>3, <3>4
  <2> QED BY <2>1, <2>6, <2>7 DEF OrderInv, SeenInOrder
<1>7. ASSUME DrainDeliver PROVE OrderInv'
  <2>1. /\ drain # NoItem /\ drain' = NoItem /\ UNCHANGED << reg, lock, queue, unreset, overlapped >>
        /\ seen'.last = drain /\ seen'.before = seen.last.seq
        /\ seen'.reset = IF drain.kind = "reset" THEN drain.epoch ELSE seen.reset
    BY <1>7 DEF DrainDeliver, See
  <2>2. NoItem.epoch = 0 /\ NoItem.kind = "none"
    BY DEF NoItem
  <2>3. drain.seq \in Nat /\ \A i \in DOMAIN queue : queue[i].seq \in Nat
    BY QueuedIsNat
  <2>4. ASSUME lock = None, Sole, reg.epoch \notin unreset PROVE OrderOK'
    <3>1. OrderOK /\ Sent \in Int /\ Sent' \in {Sent, Sent + 1} /\ reg.epoch # 0
      BY <2>1, <2>4, SoleIsNat DEF OrderInv, SentGrows, Sole
    <3>2. seen'.reset = reg.epoch => Current(drain)
      BY <2>1, <3>1 DEF ResetInv, Current
    <3>3. /\ \A i \in DOMAIN queue : Current(queue[i]) =>
                 /\ queue[i].seq <= Sent
                 /\ seen'.reset = reg.epoch => drain.seq < queue[i].seq
          /\ Current(drain) => drain.seq <= Sent
      BY <3>1, <3>2 DEF OrderOK
    <3>4. /\ \A i \in DOMAIN queue : Current(queue[i]) => queue[i].seq <= Sent'
          /\ Current(drain) => drain.seq <= Sent'
      BY <2>3, <3>1, <3>3
    <3> QED BY <2>1, <2>2, <3>1, <3>3, <3>4 DEF OrderOK, Current
  <2>5. lock' = None /\ Sole' /\ reg'.epoch \notin unreset' => OrderOK'
    BY <2>1, <2>4 DEF Sole
  <2> QED BY <2>1, <2>2, <2>5 DEF OrderInv, SeenInOrder
<1>8. ASSUME HubRestart PROVE OrderInv'
  <2>1. drain' = NoItem /\ seen' = NothingSeen /\ reg'.epoch = 0
    BY <1>8 DEF HubRestart, NewRegistry
  <2> QED BY <2>1 DEF OrderInv, Sole, NoItem, NothingSeen, SeenInOrder
<1>9. ASSUME NEW timer \in timers, GraceClear(timer) PROVE OrderInv'
  <2>1. UNCHANGED << queue, drain, seen, unreset, lock >> /\ reg'.epoch = reg.epoch /\ overlapped \subseteq overlapped'
    BY <1>9 DEF GraceClear, TypeInv, RegOK
  <2> QED BY <2>1, OrderStill
<1>10. ASSUME NEW s \in Sessions, AttachResume(s) PROVE OrderInv'
  <2>1. UNCHANGED << queue, drain, seen, unreset, lock >> /\ reg'.epoch = reg.epoch /\ overlapped \subseteq overlapped'
    BY <1>10 DEF AttachResume, InstallSession, MayAttach, TypeInv, RegOK
  <2> QED BY <2>1, OrderStill
<1>11. ASSUME NEW s \in Sessions, AttachNewEpoch(s) PROVE OrderInv'
  <2>1. UNCHANGED << queue, drain, seen, unreset, overlapped >> /\ lock' = s /\ s # None
    BY <1>11, Bounds DEF AttachNewEpoch, MayAttach
  <2> QED BY <2>1, OrderStill
<1>12. ASSUME NEW s \in Sessions, AttachFinish(s) PROVE OrderInv'
  <2>1. /\ lock # None /\ lock' = None /\ reg'.epoch = reg.epoch /\ reg'.session = s /\ reg.epoch \in Epochs
        /\ UNCHANGED << proto, drain, overlapped >> /\ AnnounceEpochReset(reg.epoch, reg.base)
    BY <1>12, Bounds DEF AttachFinish, TypeInv, RegOK, ServeInv
  <2>2. /\ ~Current(drain) /\ seen.reset # reg.epoch /\ ~Current(seen.last) /\ \A i \in DOMAIN queue : ~Current(queue[i])
    BY <2>1 DEF ResetInv
  <2>3. reg.base <= Sent'
    <3>1. ~Carrier(reg.session)'
      BY <2>1, <1>12, AttachFinishBegins DEF Carrier, Carrying, Begins
    <3>2. Sent' = proto[reg.epoch].acked - 0 /\ proto[reg.epoch].acked \in Nat
      BY <2>1, <3>1, AckedIsNat DEF Sent, Load
    <3>3. reg.base <= proto[reg.epoch].acked
      BY <2>1, Bounds DEF LinkInv
    <3> QED BY <3>2, <3>3
  <2> DEFINE x == ResetItem(reg.epoch, reg.base)
  <2>4. x.epoch = reg.epoch /\ x.kind = "reset" /\ x.seq = reg.base
    BY DEF ResetItem
  <2> HIDE DEF x
  <2>5. CASE started /\ Len(queue) < QueueCap
    <3>1. queue' = Append(queue, x) /\ UNCHANGED << seen, unreset >>
      BY <2>1, <2>5 DEF AnnounceEpochReset, EnqueueFanout, x
    <3>2. Queued(x)
      BY <3>1 DEF Queued
    <3>3. /\ \A i \in DOMAIN queue' : queue'[i] = x \/ \E j \in DOMAIN queue : queue'[i] = queue[j]
          /\ \A i \in DOMAIN queue : i \in DOMAIN queue' /\ queue'[i] = queue[i]
          /\ \A i \in DOMAIN queue' : i \in Nat /\ (i \notin DOMAIN queue => queue'[i] = x /\ \A j \in DOMAIN queue' : j <= i)
      BY <3>2, QueuedOK
    <3>4. \A i \in DOMAIN queue' : queue'[i].epoch = reg.epoch => queue'[i] = x /\ \A j \in DOMAIN queue' : j <= i
      BY <2>2, <3>3 DEF Current
    <3>5. \A i, j \in DOMAIN queue' : ~(i < j /\ queue'[i].epoch = reg.epoch)
      BY <3>3, <3>4
    <3>6. OrderOK'
      BY <2>1, <2>2, <2>3, <2>4, <3>1, <3>4, <3>5 DEF OrderOK, Current
    <3> QED BY <2>1, <3>1, <3>6 DEF OrderInv, SeenInOrder
  <2>6. CASE started /\ ~(Len(queue) < QueueCap)
    <3>1. UNCHANGED seen /\ reg.epoch \in unreset' /\ unreset \subseteq unreset'
      BY <2>1, <2>4, <2>6 DEF AnnounceEpochReset, EnqueueFanout, x
    <3> QED BY <2>1, <3>1 DEF OrderInv, SeenInOrder
  <2>7. CASE ~started
    <3>1. UNCHANGED << queue, unreset >> /\ seen' = See(x)
      BY <2>1, <2>7 DEF AnnounceEpochReset, x
    <3>2. queue = << >> /\ drain = NoItem
      BY <2>7 DEF ResetInv
    <3>3. seen'.last = x /\ DOMAIN queue = {} /\ NoItem.kind = "none"
      BY <3>1, <3>2 DEF See, NoItem
    <3>4. OrderOK'
      BY <2>1, <2>2, <2>3, <2>4, <3>1, <3>3 DEF OrderOK, Current
    <3> QED BY <2>1, <2>4, <3>1, <3>2, <3>3, <3>4 DEF OrderInv, SeenInOrder
  <2> QED BY <2>5, <2>6, <2>7 DEF TypeInv, QueueOK
<1>13. ASSUME NEW s \in Sessions, LoseFrame(s) PROVE OrderInv'
  <2>1. UNCHANGED << queue, drain, seen, unreset, lock >> /\ reg'.epoch = reg.epoch /\ overlapped \subseteq overlapped'
    BY <1>13 DEF LoseFrame, TypeInv, RegOK
  <2> QED BY <2>1, OrderStill
<1>14. ASSUME NEW s \in Sessions, Start(s) PROVE OrderInv'
  <2>1. UNCHANGED << queue, drain, seen, unreset, lock >> /\ reg'.epoch = reg.epoch /\ overlapped \subseteq overlapped'
    BY <1>14 DEF Start, TypeInv, RegOK
  <2> QED BY <2>1, OrderStill
<1>15. ASSUME NEW s \in Sessions, Close(s) PROVE OrderInv'
  <2>1. UNCHANGED << queue, drain, seen, unreset, lock >> /\ reg'.epoch = reg.epoch /\ overlapped \subseteq overlapped'
    BY <1>15 DEF Close, TypeInv, RegOK
  <2> QED BY <2>1, OrderStill
<1>16. ASSUME NEW s \in Sessions, Detach(s) PROVE OrderInv'
  <2>1. UNCHANGED << queue, drain, seen, unreset, lock >> /\ reg'.epoch = reg.epoch /\ overlapped \subseteq overlapped'
    BY <1>16 DEF Detach, TypeInv, RegOK
  <2> QED BY <2>1, OrderStill
<1>17. ASSUME NEW s \in Sessions, Read(s) PROVE OrderInv'
  <2>1. UNCHANGED << queue, drain, seen, unreset, lock >> /\ reg'.epoch = reg.epoch /\ overlapped \subseteq overlapped'
    BY <1>17 DEF Read, TypeInv, RegOK
  <2> QED BY <2>1, OrderStill
<1>18. ASSUME NEW s \in Sessions, Accept(s) PROVE OrderInv'
  <2>1. UNCHANGED << queue, drain, seen, unreset, lock >> /\ reg'.epoch = reg.epoch /\ overlapped \subseteq overlapped'
    BY <1>18 DEF Accept, TypeInv, RegOK
  <2> QED BY <2>1, OrderStill
<1>19. ASSUME NEW s \in Sessions, Gate(s) PROVE OrderInv'
  <2>1. UNCHANGED << queue, drain, seen, unreset, lock >> /\ reg'.epoch = reg.epoch /\ overlapped \subseteq overlapped'
    BY <1>19 DEF Gate, TypeInv, RegOK
  <2> QED BY <2>1, OrderStill
<1>20. ASSUME NEW s \in Sessions, Buffer(s) PROVE OrderInv'
  <2>1. UNCHANGED << queue, drain, seen, unreset, lock >> /\ reg'.epoch = reg.epoch /\ overlapped \subseteq overlapped'
    BY <1>20 DEF Buffer, TypeInv, RegOK
  <2> QED BY <2>1, OrderStill
<1>21. ASSUME NEW s \in Sessions, Enqueue(s) PROVE OrderInv'
  <2>1. /\ UNCHANGED << reg, lock, drain, seen, proto, overlapped >> /\ Attached(s) /\ s # None
        /\ sess[s].pc = "enqueue" /\ sess[s].ready # << >> /\ sess[s].ready \in Seq(Seqs)
    BY <1>21, EnqueueMoves, Bounds DEF Enqueue, EnqueueFanout, Attached
  <2> DEFINE x == EventItem(sess[s].epoch, Head(sess[s].ready))
  <2>2. x.epoch = sess[s].epoch /\ x.kind = "event" /\ x.seq = sess[s].ready[1] /\ 1 \in DOMAIN sess[s].ready
    BY <2>1 DEF EventItem
  <2>3. (queue' = queue \/ Queued(x)) /\ unreset' = unreset
    BY <1>21 DEF Enqueue, EnqueueFanout, Queued, EventItem
  <2> HIDE DEF x
  <2>4. CASE queue' = queue
    BY <2>1, <2>3, <2>4, OrderStill
  <2>5. CASE Queued(x)
    <3>1. ASSUME lock = None, Sole, reg.epoch \notin unreset PROVE OrderOK'
      <4>1. /\ \A i \in DOMAIN queue : i \in DOMAIN queue' /\ queue'[i] = queue[i]
            /\ \A i \in DOMAIN queue' : i \in Nat /\ (i \notin DOMAIN queue => queue'[i] = x /\ \A j \in DOMAIN queue' : j <= i)
        BY <2>5, QueuedOK
      <4>2. OrderOK /\ Sent \in Int /\ Sent' \in {Sent, Sent + 1}
        BY <2>1, <3>1, SoleIsNat DEF OrderInv, SentGrows, Sole
      <4>3. /\ drain.seq \in Nat /\ seen.last.seq \in Nat /\ \A i \in DOMAIN queue : queue[i].seq \in Nat
        BY QueuedIsNat
      <4>4. CASE ~Current(x)
        <5>1. \A i \in DOMAIN queue' : queue'[i].epoch = reg.epoch => i \in DOMAIN queue /\ Current(queue[i]) /\ queue'[i] = queue[i]
          BY <4>1, <4>4 DEF Current
        <5>2. /\ \A i, j \in DOMAIN queue' :
                     i < j /\ queue'[i].epoch = reg.epoch /\ queue'[j].epoch = reg.epoch => queue'[i].seq < queue'[j].seq
              /\ \A i \in DOMAIN queue' : queue'[i].epoch = reg.epoch =>
                     /\ queue'[i].seq <= Sent
                     /\ Current(drain) => drain.seq < queue'[i].seq
                     /\ seen.reset = reg.epoch => seen.last.seq < queue'[i].seq
          BY <4>2, <5>1 DEF OrderOK
        <5>3. /\ \A i \in DOMAIN queue' : queue'[i].epoch = reg.epoch => queue'[i].seq <= Sent'
              /\ Current(drain) => drain.seq <= Sent'
              /\ Current(seen.last) => seen.last.seq <= Sent'
          BY <4>2, <4>3, <5>1, <5>2 DEF OrderOK
        <5> QED BY <2>1, <5>2, <5>3 DEF OrderOK, Current
      <4>5. CASE Current(x)
        <5>1. reg.session = s
          BY <2>1, <2>2, <3>1, <4>5 DEF ServeInv, Sole, Current
        <5>2. Carrier(reg.session)
          BY <2>1, <2>2, <4>5, <5>1 DEF Carrier, Carrying, Current
        <5>3. PICK pc \in {"buffer", "note"} : /\ Moves(s, pc, sess[s].todo, Tail(sess[s].ready), sess[s].ack)
                                               /\ pc = IF Len(sess[s].ready) > 1 THEN "buffer" ELSE "note"
          BY <1>21, EnqueueMoves
        <5>4. Sent' = Sent + 1
          BY <2>1, <3>1, <5>1, <5>2, <5>3, EnqueueRunOK
        <5>5. x.seq = Sent + 1
          BY <2>2, <3>1, <5>1, <5>2 DEF RunInv, RunOK, LoadOK
        <5>6. /\ \A i \in DOMAIN queue : Current(queue[i]) => queue[i].seq <= Sent
              /\ Current(drain) => drain.seq <= Sent
              /\ Current(seen.last) => seen.last.seq <= Sent
              /\ seen.reset = reg.epoch => Current(seen.last)
          BY <3>1, <4>2 DEF OrderOK, ResetInv, Sole
        <5>7. /\ \A i \in DOMAIN queue : Current(queue[i]) => queue[i].seq < x.seq /\ queue[i].seq <= Sent'
              /\ Current(drain) => drain.seq < x.seq /\ drain.seq <= Sent'
              /\ Current(seen.last) => seen.last.seq < x.seq /\ seen.last.seq <= Sent'
              /\ seen.reset = reg.epoch => seen.last.seq < x.seq
              /\ x.seq <= Sent'
          BY <4>2, <4>3, <5>4, <5>5, <5>6
        <5>8. \A i \in DOMAIN queue' : (i \in DOMAIN queue /\ queue'[i] = queue[i]) \/ queue'[i] = x
          BY <4>1
        <5>9. \A i, j \in DOMAIN queue' :
                  i < j /\ queue'[i].epoch = reg.epoch /\ queue'[j].epoch = reg.epoch => queue'[i].seq < queue'[j].seq
          <6> SUFFICES ASSUME NEW i \in DOMAIN queue', NEW j \in DOMAIN queue', i < j,
                              queue'[i].epoch = reg.epoch, queue'[j].epoch = reg.epoch
                       PROVE  queue'[i].seq < queue'[j].seq
            OBVIOUS
          <6>1. i \in DOMAIN queue /\ queue'[i] = queue[i] /\ Current(queue[i])
            <7>1. i \in DOMAIN queue
              BY <4>1
            <7> QED BY <4>1, <7>1 DEF Current
          <6>2. CASE j \in DOMAIN queue
            BY <4>1, <4>2, <6>1, <6>2 DEF OrderOK, Current
          <6>3. CASE j \notin DOMAIN queue
            BY <4>1, <5>7, <6>1, <6>3
          <6> QED BY <6>2, <6>3
        <5>10. \A i \in DOMAIN queue' : queue'[i].epoch = reg.epoch =>
                   /\ queue'[i].seq <= Sent'
                   /\ Current(drain) => drain.seq < queue'[i].seq
                   /\ seen.reset = reg.epoch => seen.last.seq < queue'[i].seq
          BY <4>2, <5>7, <5>8 DEF OrderOK, Current
        <5> QED BY <2>1, <5>7, <5>9, <5>10 DEF OrderOK, Current
      <4> QED BY <4>4, <4>5
    <3>2. lock' = None /\ Sole' /\ reg'.epoch \notin unreset' => OrderOK'
      BY <2>1, <2>3, <3>1 DEF Sole
    <3> QED BY <2>1, <2>3, <3>2 DEF OrderInv, SeenInOrder
  <2> QED BY <2>3, <2>4, <2>5
<1>22. ASSUME NEW s \in Sessions, Note(s) PROVE OrderInv'
  <2>1. UNCHANGED << queue, drain, seen, unreset, lock >> /\ reg'.epoch = reg.epoch /\ overlapped \subseteq overlapped'
    BY <1>22 DEF Note, TypeInv, RegOK, NoteUpAck
  <2> QED BY <2>1, OrderStill
<1>23. ASSUME NEW s \in Sessions, SendDown(s) PROVE OrderInv'
  <2>1. UNCHANGED << queue, drain, seen, unreset, lock >> /\ reg'.epoch = reg.epoch /\ overlapped \subseteq overlapped'
    BY <1>23 DEF SendDown, TypeInv, RegOK
  <2> QED BY <2>1, OrderStill
<1>24. CASE UNCHANGED vars
  BY <1>24 DEF vars, hubVars, OrderInv, OrderOK, SeenInOrder, Current, Sole, Sent, Load, Carrier, Carrying
<1> QED
  BY <1>1, <1>2, <1>3, <1>4, <1>5, <1>6, <1>7, <1>8, <1>9, <1>10, <1>11, <1>12, <1>13,
     <1>14, <1>15, <1>16, <1>17, <1>18, <1>19, <1>20, <1>21, <1>22, <1>23, <1>24 DEF
     Next, SessionStep
-----------------------------------------------------------------------------
(* The theorems. *)

\* Every step keeps the mirrored watermark at 0 while the hub knows no epoch.
LEMMA IdleStep ==
  ASSUME TypeInv, ServeInv, IdleInv, [Next]_vars
  PROVE  IdleInv'
<1>1. ASSUME HostPublish PROVE IdleInv'
  BY <1>1 DEF HostPublish, hubVars, hubVars, IdleInv
<1>2. ASSUME HostSend PROVE IdleInv'
  BY <1>2 DEF HostSend, hubVars, TypeInv, RegOK, IdleInv
<1>3. ASSUME HostGetsAck PROVE IdleInv'
  BY <1>3 DEF HostGetsAck, hubVars, hubVars, IdleInv
<1>4. ASSUME HostDisconnect PROVE IdleInv'
  BY <1>4 DEF HostDisconnect, hubVars, hubVars, IdleInv
<1>5. ASSUME HostRestart PROVE IdleInv'
  BY <1>5 DEF HostRestart, hubVars, hubVars, IdleInv
<1>6. ASSUME DrainTake PROVE IdleInv'
  BY <1>6 DEF DrainTake, TypeInv, RegOK, IdleInv
<1>7. ASSUME DrainDeliver PROVE IdleInv'
  BY <1>7 DEF DrainDeliver, TypeInv, RegOK, IdleInv
<1>8. ASSUME HubRestart PROVE IdleInv'
  BY <1>8 DEF HubRestart, NewRegistry, IdleInv
<1>9. ASSUME NEW timer \in timers, GraceClear(timer) PROVE IdleInv'
  BY <1>9 DEF GraceClear, TypeInv, RegOK, IdleInv
<1>10. ASSUME NEW s \in Sessions, AttachResume(s) PROVE IdleInv'
  BY <1>10 DEF AttachResume, InstallSession, MayAttach, InstallSession, TypeInv, RegOK, IdleInv
<1>11. ASSUME NEW s \in Sessions, AttachNewEpoch(s) PROVE IdleInv'
  <2>1. reg'.epoch # 0
    BY <1>11, Bounds DEF AttachNewEpoch, MayAttach, TypeInv, RegOK, HostOK
  <2> QED BY <2>1 DEF IdleInv
<1>12. ASSUME NEW s \in Sessions, AttachFinish(s) PROVE IdleInv'
  BY <1>12 DEF AttachFinish, TypeInv, RegOK, IdleInv
<1>13. ASSUME NEW s \in Sessions, LoseFrame(s) PROVE IdleInv'
  BY <1>13 DEF LoseFrame, TypeInv, RegOK, IdleInv
<1>14. ASSUME NEW s \in Sessions, Start(s) PROVE IdleInv'
  BY <1>14 DEF Start, TypeInv, RegOK, IdleInv
<1>15. ASSUME NEW s \in Sessions, Close(s) PROVE IdleInv'
  BY <1>15 DEF Close, TypeInv, RegOK, IdleInv
<1>16. ASSUME NEW s \in Sessions, Detach(s) PROVE IdleInv'
  BY <1>16 DEF Detach, TypeInv, RegOK, IdleInv
<1>17. ASSUME NEW s \in Sessions, Read(s) PROVE IdleInv'
  BY <1>17 DEF Read, TypeInv, RegOK, IdleInv
<1>18. ASSUME NEW s \in Sessions, Accept(s) PROVE IdleInv'
  BY <1>18 DEF Accept, TypeInv, RegOK, IdleInv
<1>19. ASSUME NEW s \in Sessions, Gate(s) PROVE IdleInv'
  BY <1>19 DEF Gate, TypeInv, RegOK, IdleInv
<1>20. ASSUME NEW s \in Sessions, Buffer(s) PROVE IdleInv'
  BY <1>20 DEF Buffer, TypeInv, RegOK, IdleInv
<1>21. ASSUME NEW s \in Sessions, Enqueue(s) PROVE IdleInv'
  BY <1>21 DEF Enqueue, EnqueueFanout, TypeInv, RegOK, IdleInv
<1>22. ASSUME NEW s \in Sessions, Note(s) PROVE IdleInv'
  <2>1. reg'.epoch = reg.epoch /\ (reg'.upAcked = reg.upAcked \/ (reg.session = s /\ s # None))
    BY <1>22, Bounds DEF Note, NoteUpAck, TypeInv, RegOK
  <2>2. reg.session # None => reg.epoch # 0
    BY <1>22, Bounds, ServeIsNat DEF Note, ServeInv, TypeInv, RegOK
  <2> QED BY <2>1, <2>2 DEF IdleInv
<1>23. ASSUME NEW s \in Sessions, SendDown(s) PROVE IdleInv'
  BY <1>23 DEF SendDown, TypeInv, RegOK, IdleInv
<1>24. CASE UNCHANGED vars
  BY <1>24 DEF vars, hubVars, IdleInv
<1> QED
  BY <1>1, <1>2, <1>3, <1>4, <1>5, <1>6, <1>7, <1>8, <1>9, <1>10, <1>11, <1>12, <1>13,
     <1>14, <1>15, <1>16, <1>17, <1>18, <1>19, <1>20, <1>21, <1>22, <1>23, <1>24 DEF
     Next, SessionStep

\* What a step that empties the buffer may do.
ClearedWhenDue ==
    evBuf # << >> /\ evBuf' = << >> /\ restarts' = restarts /\ lock = None
        => /\ reg.session = None
           /\ \E t \in timers \ timers' : \A u \in timers : u <= t

\* The buffer is emptied by the timer of the last pause, an attach or a restart.
LEMMA ClearStep ==
  ASSUME TypeInv, ServeInv, LinkInv, LoopInv, BufInv, [Next]_vars
  PROVE  ClearedWhenDue
<1>1. ASSUME HostPublish PROVE ClearedWhenDue
  BY <1>1 DEF HostPublish, hubVars, hubVars, ClearedWhenDue
<1>2. ASSUME HostSend PROVE ClearedWhenDue
  BY <1>2 DEF HostSend, hubVars, ClearedWhenDue
<1>3. ASSUME HostGetsAck PROVE ClearedWhenDue
  BY <1>3 DEF HostGetsAck, hubVars, hubVars, ClearedWhenDue
<1>4. ASSUME HostDisconnect PROVE ClearedWhenDue
  BY <1>4 DEF HostDisconnect, hubVars, hubVars, ClearedWhenDue
<1>5. ASSUME HostRestart PROVE ClearedWhenDue
  BY <1>5 DEF HostRestart, hubVars, hubVars, ClearedWhenDue
<1>6. ASSUME DrainTake PROVE ClearedWhenDue
  BY <1>6 DEF DrainTake, ClearedWhenDue
<1>7. ASSUME DrainDeliver PROVE ClearedWhenDue
  BY <1>7 DEF DrainDeliver, ClearedWhenDue
<1>8. ASSUME HubRestart PROVE ClearedWhenDue
  BY <1>8 DEF HubRestart, TypeInv, RestOK, ClearedWhenDue
<1>9. ASSUME NEW timer \in timers, GraceClear(timer) PROVE ClearedWhenDue
  <2> SUFFICES ASSUME evBuf # << >>, evBuf' = << >>
               PROVE  reg.session = None /\ \E u \in timers \ timers' : \A v \in timers : v <= u
    BY DEF ClearedWhenDue
  <2>1. reg.session = None /\ reg.evBufEpoch = timer /\ timer \in timers \ timers'
    BY <1>9 DEF GraceClear, ClearStillDue
  <2>2. reg.evBufEpoch \in Nat /\ \A v \in timers : v \in 0 .. reg.evBufEpoch
    BY DEF TypeInv, RegOK, LinkInv
  <2>3. \A v \in timers : v <= timer
    BY <2>1, <2>2
  <2> QED BY <2>1, <2>3
<1>10. ASSUME NEW s \in Sessions, AttachResume(s) PROVE ClearedWhenDue
  BY <1>10 DEF AttachResume, InstallSession, MayAttach, ClearedWhenDue
<1>11. ASSUME NEW s \in Sessions, AttachNewEpoch(s) PROVE ClearedWhenDue
  BY <1>11 DEF AttachNewEpoch, MayAttach, ClearedWhenDue
<1>12. ASSUME NEW s \in Sessions, AttachFinish(s) PROVE ClearedWhenDue
  BY <1>12, Bounds DEF AttachFinish, ClearedWhenDue
<1>13. ASSUME NEW s \in Sessions, LoseFrame(s) PROVE ClearedWhenDue
  BY <1>13 DEF LoseFrame, ClearedWhenDue
<1>14. ASSUME NEW s \in Sessions, Start(s) PROVE ClearedWhenDue
  BY <1>14 DEF Start, ClearedWhenDue
<1>15. ASSUME NEW s \in Sessions, Close(s) PROVE ClearedWhenDue
  BY <1>15 DEF Close, ClearedWhenDue
<1>16. ASSUME NEW s \in Sessions, Detach(s) PROVE ClearedWhenDue
  BY <1>16 DEF Detach, ClearedWhenDue
<1>17. ASSUME NEW s \in Sessions, Read(s) PROVE ClearedWhenDue
  BY <1>17 DEF Read, ClearedWhenDue
<1>18. ASSUME NEW s \in Sessions, Accept(s) PROVE ClearedWhenDue
  BY <1>18 DEF Accept, ClearedWhenDue
<1>19. ASSUME NEW s \in Sessions, Gate(s) PROVE ClearedWhenDue
  BY <1>19 DEF Gate, ClearedWhenDue
<1>20. ASSUME NEW s \in Sessions, Buffer(s) PROVE ClearedWhenDue
  <2>1. evBuf' # << >> \/ evBuf' = evBuf
    <3>1. CASE EpochCurrent(s)
      BY <1>20, <3>1, BufferStepOK
    <3>2. CASE ~EpochCurrent(s)
      BY <1>20, <3>2 DEF Buffer
    <3> QED BY <3>1, <3>2
  <2> QED BY <2>1 DEF ClearedWhenDue
<1>21. ASSUME NEW s \in Sessions, Enqueue(s) PROVE ClearedWhenDue
  BY <1>21 DEF Enqueue, EnqueueFanout, ClearedWhenDue
<1>22. ASSUME NEW s \in Sessions, Note(s) PROVE ClearedWhenDue
  BY <1>22 DEF Note, ClearedWhenDue
<1>23. ASSUME NEW s \in Sessions, SendDown(s) PROVE ClearedWhenDue
  BY <1>23 DEF SendDown, ClearedWhenDue
<1>24. CASE UNCHANGED vars
  BY <1>24 DEF vars, hubVars, ClearedWhenDue
<1> QED
  BY <1>1, <1>2, <1>3, <1>4, <1>5, <1>6, <1>7, <1>8, <1>9, <1>10, <1>11, <1>12, <1>13,
     <1>14, <1>15, <1>16, <1>17, <1>18, <1>19, <1>20, <1>21, <1>22, <1>23, <1>24 DEF
     Next, SessionStep

\* The initial state satisfies the invariant.
LEMMA InitHostSession == Init => HostSessionInv
<1> SUFFICES ASSUME Init PROVE HostSessionInv
  OBVIOUS
<1>1. /\ host = [epoch |-> 1, base |-> 0, produced |-> 0, acked |-> 0, link |-> None, sent |-> 0]
      /\ reg = NewRegistry /\ lock = None
      /\ proto = [e \in Epochs |-> NewReceiver(0, Window)]
      /\ sess = [s \in Sessions |-> NewSession] /\ inbox = [s \in Sessions |-> << >>]
      /\ ackOut = [s \in Sessions |-> 0] /\ evBuf = << >> /\ queue = << >> /\ started = FALSE /\ drain = NoItem
      /\ timers = {} /\ seen = NothingSeen /\ overlapped = {} /\ unreset = {} /\ restarts = 0
  BY DEF Init
<1>2. \A s \in Sessions : /\ sess[s] = NewSession /\ SessOK(sess[s]) /\ sess[s].pc = "new"
                          /\ ~Attached(s) /\ ~Carrying(s)
  <2>1. SessOK(NewSession) /\ NewSession.pc = "new"
    <3>1. 0 \in Seqs
      BY Bounds
    <3> QED BY <3>1 DEF NewSession, SessOK
  <2> SUFFICES ASSUME NEW s \in Sessions PROVE sess[s] = NewSession /\ sess[s].pc = "new" /\ SessOK(sess[s])
    BY DEF Attached, Carrying
  <2>2. sess[s] = NewSession
    BY <1>1
  <2> QED BY <2>1, <2>2
<1>3. reg.session = None /\ reg.epoch = 0 /\ reg.base = 0 /\ reg.upAcked = 0 /\ reg.evBufEpoch = 0
  BY <1>1 DEF NewRegistry
<1>4. TypeInv
  <2>1. HostOK /\ RegOK /\ RestOK /\ InboxOK /\ AckOutOK
    BY <1>1, Bounds DEF HostOK, RegOK, RestOK, InboxOK, AckOutOK, NewRegistry
  <2>2. ProtoInv
    <3>1. ReceiverOK(NewReceiver(0, Window))
      BY Bounds DEF NewReceiver, ReceiverOK
    <3> QED BY <1>1, <3>1 DEF ProtoInv
  <2>3. SessInv
    BY <1>1, <1>2 DEF SessInv
  <2>4. QueueOK /\ SeenOK /\ evBuf \in Seq(Items)
    <3>1. \A S : << >> \in Seq(S)
      OBVIOUS
    <3>2. queue \in Seq(Items) /\ evBuf \in Seq(Items)
      BY <1>1, <3>1
    <3> QED BY <1>1, <3>2 DEF QueueOK, SeenOK, NothingSeen
  <2> QED BY <2>1, <2>2, <2>3, <2>4 DEF TypeInv
<1>5. ServeInv
  <2>1. OnlineWhileServed
    BY <1>2 DEF OnlineWhileServed
  <2>2. reg.epoch <= host.epoch
    BY <1>1, <1>3
  <2> QED BY <1>1, <1>2, <1>3, <2>1, <2>2 DEF ServeInv
<1>6. LinkInv
  <2>1. host.link = None /\ host.epoch = 1
    BY <1>1
  <2> QED BY <1>1, <1>2, <1>3, <2>1 DEF LinkInv
<1>7. LoopInv
  BY <1>2 DEF LoopInv, LoopOK, Carrying
<1>8. DOMAIN evBuf = {} /\ DOMAIN queue = {} /\ 1 .. Len(evBuf) - 1 = {}
  BY <1>1
<1>9. BufInv
  BY <1>2, <1>8 DEF BufInv, GapPullSorted, Apart, Fresh
<1>10. RunInv
  BY <1>3, <1>8 DEF RunInv, Sole, GapPullContiguous
<1>11. NoItem.epoch = 0 /\ NoItem.kind = "none" /\ seen.last = NoItem /\ seen.reset = 0 /\ drain = NoItem
  BY <1>1 DEF NoItem, NothingSeen
<1>12. ResetInv
  BY <1>1, <1>3, <1>8, <1>11 DEF ResetInv, EventsFollowTheirReset
<1>13. OrderInv
  BY <1>3, <1>11 DEF OrderInv, Sole, SeenInOrder
<1>14. IdleInv
  BY <1>3 DEF IdleInv
<1> QED BY <1>4, <1>5, <1>6, <1>7, <1>9, <1>10, <1>12, <1>13, <1>14 DEF HostSessionInv

\* The inductive invariant holds in every state: attach, detach, the session loops,
\* the drain goroutine, the timers and a hub restart keep it in every interleaving.
THEOREM HostSessionInvariant == Spec => []HostSessionInv
<1>1. HostSessionInv /\ [Next]_vars => HostSessionInv'
  <2> SUFFICES ASSUME HostSessionInv, [Next]_vars PROVE HostSessionInv'
    OBVIOUS
  <2>1. TypeInv /\ ServeInv /\ LinkInv /\ LoopInv /\ BufInv /\ RunInv /\ ResetInv /\ OrderInv /\ IdleInv
    BY DEF HostSessionInv
  <2>2. TypeInv'
    BY <2>1, TypeStep
  <2>3. ServeInv' /\ LinkInv' /\ LoopInv' /\ BufInv' /\ ResetInv' /\ IdleInv'
    BY <2>1, <2>2, ServeStep, LinkStep, LoopStep, BufStep, ResetStep, IdleStep
  <2>4. RunInv' /\ SentGrows
    BY <2>1, <2>2, <2>3, RunStep
  <2>5. OrderInv'
    BY <2>1, <2>2, <2>3, <2>4, OrderStep
  <2> QED BY <2>2, <2>3, <2>4, <2>5 DEF HostSessionInv
<1> QED BY <1>1, InitHostSession, PTL DEF Spec

\* The registry names the newest session from its attach to its end, whatever the
\* late detaches of its predecessors do (attach, detach).
THEOREM ServedIsOnline == Spec => []OnlineWhileServed
<1>1. HostSessionInv => OnlineWhileServed
  BY DEF HostSessionInv, ServeInv
<1> QED BY <1>1, HostSessionInvariant, PTL

\* The gap-pull buffer is strictly ordered and, outside an attach, of the registered
\* epoch, whichever sessions overlap (bufferEventLocked, ingestRawEvents).
THEOREM BufferIsSorted == Spec => []GapPullSorted
<1>1. HostSessionInv => GapPullSorted
  BY DEF HostSessionInv, BufInv
<1> QED BY <1>1, HostSessionInvariant, PTL

\* A pull from the buffer has no holes while no resume of its epoch overlapped
\* (bufferEventLocked, handleEvents).
THEOREM BufferIsContiguous == Spec => []GapPullContiguous
<1>1. HostSessionInv => GapPullContiguous
  BY DEF HostSessionInv, RunInv
<1> QED BY <1>1, HostSessionInvariant, PTL

\* The mirrored watermark names ingested events only, while no resume of the epoch
\* overlapped (noteUpAck, attach).
THEOREM MirroredIsIngested == Spec => []LastSeqHonest
<1>1. HostSessionInv => LastSeqHonest
  <2> SUFFICES ASSUME HostSessionInv, reg.epoch \notin overlapped, NEW q \in (reg.base + 1) .. reg.upAcked
               PROVE  << reg.epoch, q >> \in ingested
    BY DEF LastSeqHonest
  <2>1. TypeInv /\ IdleInv /\ RunInv
    BY DEF HostSessionInv
  <2>2. reg.base \in Nat /\ reg.upAcked \in Nat
    BY <2>1, Bounds DEF TypeInv, RegOK
  <2>3. Sole
    <3>1. reg.upAcked # 0
      BY <2>2
    <3> QED BY <2>1, <3>1 DEF IdleInv, Sole
  <2>4. RunOK /\ Reached \in Int
    BY <2>1, <2>3, SoleIsNat DEF RunInv
  <2>5. q \in (reg.base + 1) .. Reached
    BY <2>2, <2>4 DEF RunOK
  <2> QED BY <2>4, <2>5 DEF RunOK
<1> QED BY <1>1, HostSessionInvariant, PTL

\* What the host dropped on an ack was ingested or is carried by a running loop,
\* while no resume of the epoch overlapped (accept, handleEvents, attach, detach).
THEOREM DroppedIsIngested == Spec => []HostDropsOnlyIngested
<1>1. HostSessionInv => HostDropsOnlyIngested
  <2> SUFFICES ASSUME HostSessionInv, host.epoch \notin overlapped, reg.epoch = host.epoch,
                      NEW q \in (reg.base + 1) .. host.acked
               PROVE  << host.epoch, q >> \in ingested \/ q \in InFlight(host.epoch)
    BY DEF HostDropsOnlyIngested, AckedIsIngested
  <2>1. TypeInv /\ LinkInv /\ RunInv
    BY DEF HostSessionInv
  <2>2. reg.base \in Nat /\ host.acked \in Nat /\ q \in Nat
    <3>1. \A n \in Seqs : n \in Nat
      BY Bounds
    <3>2. reg.base \in Seqs /\ host.acked \in Seqs
      BY <2>1 DEF TypeInv, RegOK, HostOK
    <3> QED BY <3>1, <3>2
  <2>3. Sole
    BY <2>1, Bounds DEF Sole, TypeInv, HostOK
  <2>4. /\ RunOK /\ proto[reg.epoch].acked \in Nat /\ Load \in Nat /\ Sent \in Int
        /\ reg.session # None => reg.session \in Sessions /\ sess[reg.session].ready \in Seq(Seqs)
    BY <2>1, <2>3, SoleIsNat DEF RunInv
  <2>5. q <= proto[reg.epoch].acked /\ Sent = proto[reg.epoch].acked - Load
    BY <2>1, <2>2, <2>4 DEF LinkInv, Sent
  <2>6. CASE q <= Sent
    <3>1. Reached \in Int /\ Sent <= Reached
      BY <2>4 DEF Reached
    <3>2. q \in (reg.base + 1) .. Reached
      BY <2>2, <2>4, <2>6, <3>1
    <3> QED BY <2>4, <3>2 DEF RunOK
  <2>7. CASE ~(q <= Sent)
    <3>1. Load # 0
      BY <2>2, <2>4, <2>5, <2>7
    <3>2. Carrier(reg.session) /\ Load = Len(sess[reg.session].ready)
      BY <3>1 DEF Load
    <3> DEFINE s == reg.session
               r == sess[s].ready
    <3>3. /\ s \in Sessions /\ sess[s].epoch = reg.epoch /\ Carrying(s) /\ DOMAIN r = 1 .. Load
          /\ \A i \in DOMAIN r : r[i] = Sent + i
      BY <2>4, <3>2 DEF Carrier, RunOK, LoadOK
    <3> HIDE DEF r
    <3>4. PICK i : i = q - Sent
      OBVIOUS
    <3>5. i \in 1 .. Load /\ Sent + i = q
      <4> DEFINE A == proto[reg.epoch].acked
      <4>1. A \in Nat /\ q <= A /\ Sent = A - Load
        BY <2>4, <2>5
      <4> HIDE DEF A
      <4> QED BY <2>2, <2>4, <2>7, <3>4, <4>1
    <3>6. q \in ToSet(r)
      BY <3>3, <3>5 DEF ToSet
    <3> QED BY <3>3, <3>6 DEF InFlight, Carrying, r
  <2> QED BY <2>6, <2>7
<1> QED BY <1>1, HostSessionInvariant, PTL

\* A browser hears of an epoch before it is handed an event of it, unless a full
\* channel dropped the reset (announceEpochReset, enqueueFanout, fanoutItemCurrent).
THEOREM ResetPrecedesEvents == Spec => []EventsFollowTheirReset
<1>1. HostSessionInv => EventsFollowTheirReset
  BY DEF HostSessionInv, ResetInv
<1> QED BY <1>1, HostSessionInvariant, PTL

\* A browser gets the events of an epoch in order, each once, unless resumes of it
\* overlapped or its reset was dropped (enqueueFanout, drainFanout).
THEOREM SeenAscends == Spec => []SeenInOrder
<1>1. HostSessionInv => SeenInOrder
  BY DEF HostSessionInv, OrderInv
<1> QED BY <1>1, HostSessionInvariant, PTL

\* Within an epoch only the timer of the last pause empties the buffer
\* (scheduleEvBufClear, attach, detach).
THEOREM BufferOutlivesReconnect == Spec => BufferSurvivesReconnect
<1>1. HostSessionInv /\ [Next]_vars => [ClearedWhenDue]_vars
  BY ClearStep DEF HostSessionInv
<1>2. Spec => [][ClearedWhenDue]_vars
  BY <1>1, HostSessionInvariant, PTL DEF Spec
<1> QED BY <1>2 DEF BufferSurvivesReconnect, ClearedWhenDue

=============================================================================
