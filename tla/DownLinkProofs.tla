--------------------------- MODULE DownLinkProofs ---------------------------
(***************************************************************************)
(* Proofs about DownLink, for any number of sessions, epochs, changes and  *)
(* requests.  DownLinkInv: the log has no holes and holds at most one      *)
(* audience frame, with the newest generation pushed, and only a request   *)
(* whose frame was completely written is failed as unacked.  NewestInv, on *)
(* top of it: the newest generation is with the host, on its way to it,    *)
(* about to be pushed, logged, or to be sent again.                        *)
(***************************************************************************)
EXTENDS DownLink, TLAPS, NaturalsInduction, WellFoundedInduction, SequenceTheorems,
        FiniteSetTheorems

-----------------------------------------------------------------------------
(* The inductive invariant.  One sequence space: the log holds every seq     *)
(* above the watermark, and an audience only under the seq sessionProto      *)
(* knows; a deadline belongs to a logged request.                            *)

ProtoOK(p) ==
    /\ DOMAIN p = {"down", "seq", "gen", "sentGen", "latest", "resend", "reqAcks"}
    /\ DOMAIN p.down = {"next", "acked", "log"}
    /\ p.down.next \in 0 .. MaxSeq /\ p.down.acked \in 0 .. p.down.next
    /\ DOMAIN p.down.log = (p.down.acked + 1) .. p.down.next
    /\ \A q \in DOMAIN p.down.log : p.down.log[q] \in Nat /\ (p.down.log[q] # Request <=> q = p.seq)
    /\ {p.seq, p.gen, p.sentGen, p.latest, p.resend} \subseteq Nat
    /\ p.seq # 0 => p.seq \in DOMAIN p.down.log /\ p.down.log[p.seq] = p.gen /\ p.gen = p.latest
    /\ DOMAIN p.reqAcks \subseteq DOMAIN p.down.log

Armed(p) == {q \in DOMAIN p.reqAcks : p.reqAcks[q]}

Frames == (0 .. MaxSeq) \X Nat

ProtoInv == DOMAIN proto = Epochs /\ \A e \in Epochs : ProtoOK(proto[e])

\* Sessions and their writers.
SessOK(r) ==
    /\ DOMAIN r = {"pc", "epoch", "old", "aud", "stop", "lastAck", "wpc", "batch", "written", "rewrite"}
    /\ r.pc # "new" => r.epoch \in Epochs
    /\ r.wpc # "none" => r.pc # "new"
    /\ r.written \in Nat /\ r.aud \in Nat /\ r.batch \in Seq(Frames)
    /\ r.wpc \in {"write", "note"} => r.batch # << >>

SessInv == DOMAIN sess = Sessions /\ \A s \in Sessions : SessOK(sess[s])

Attached(s) == s \in Sessions /\ sess[s].pc # "new"

\* Who is registered, and the pushes under way.
RegInv ==
    /\ DOMAIN reg = {"session", "epoch", "gen", "stale"} /\ reg.gen \in Nat
    /\ reg.session # None => Attached(reg.session)
    /\ \A c \in pushes : /\ DOMAIN c = {"by", "sess", "gen", "seq"}
                         /\ c.gen \in Nat \ {0} /\ Attached(c.sess)

\* What the transports and the host hold.
LinkInv ==
    /\ DOMAIN link = Sessions /\ \A s \in Sessions : link[s] \in Seq(Frames)
    /\ DOMAIN acks = Sessions /\ \A s \in Sessions : acks[s] \in Nat
    /\ DOMAIN host = {"epoch", "link", "rcv", "gen"} /\ host.epoch \in Epochs
    /\ DOMAIN host.rcv = {"acked", "window", "buf"} /\ host.rcv.acked \in 0 .. MaxSeq
    /\ DOMAIN host.rcv.buf \subseteq 0 .. MaxSeq

\* Only a request whose frame was completely written on a transport of its space
\* has its deadline armed, or is failed.
HasWritten(e, q) == \E s \in Sessions : sess[s].epoch = e /\ q \in handed[s]

WrittenInv ==
    /\ DOMAIN handed = Sessions
    /\ \A s \in Sessions : /\ sess[s].pc = "new" => handed[s] = {}
                           /\ sess[s].wpc = "note" => Head(sess[s].batch)[1] \in handed[s]
    /\ \A e \in Epochs : \A q \in Armed(proto[e]) : HasWritten(e, q)
    /\ \A x \in expired : HasWritten(x[1], x[2])

\* What a step may do to that.
WrittenDelta ==
    /\ DOMAIN handed' = Sessions /\ \A s \in Sessions : handed[s] \subseteq handed'[s]
    /\ \A s \in Sessions : /\ sess'[s].pc = "new" => handed'[s] = {}
                           /\ sess'[s].wpc = "note" => Head(sess'[s].batch)[1] \in handed'[s]
    /\ \A e \in Epochs : \A q \in Armed(proto'[e]) : q \in Armed(proto[e]) \/ HasWritten(e, q)
    /\ \A x \in expired' : x \in expired \/ HasWritten(x[1], x[2])

-----------------------------------------------------------------------------

(* The operations of a sequence space. *)

\* The bounds of the model are positive numbers.
LEMMA Bounds == {MaxSessions, MaxEpoch, MaxSeq, MaxLink, Batch} \subseteq Nat \ {0}
BY DownLinkAssumption

\* A fresh space.
LEMMA NewProtoOK == ProtoOK(NewProto) /\ Armed(NewProto) = {}
<1>1. /\ NewProto.down = NewSender(0) /\ NewProto.seq = 0 /\ NewProto.gen = 0 /\ NewProto.sentGen = 0
      /\ NewProto.latest = 0 /\ NewProto.resend = 0 /\ NewProto.reqAcks = << >>
      /\ DOMAIN NewProto = {"down", "seq", "gen", "sentGen", "latest", "resend", "reqAcks"}
  BY DEF NewProto
<1>2. /\ DOMAIN NewSender(0) = {"next", "acked", "log"} /\ NewSender(0).next = 0 /\ NewSender(0).acked = 0
      /\ DOMAIN NewSender(0).log = {}
  BY DEF NewSender
<1>3. DOMAIN NewProto.reqAcks = {} /\ DOMAIN NewProto.down.log = {}
  BY <1>1, <1>2
<1>4. 0 \in 0 .. MaxSeq /\ 0 \in 0 .. 0 /\ (0 + 1) .. 0 = {}
  BY Bounds
<1>5. Armed(NewProto) = {}
  BY <1>3 DEF Armed
<1>6. /\ DOMAIN NewProto.down = {"next", "acked", "log"} /\ NewProto.down.next = 0 /\ NewProto.down.acked = 0
  BY <1>1, <1>2
<1>7. {NewProto.seq, NewProto.gen, NewProto.sentGen, NewProto.latest, NewProto.resend} \subseteq Nat
  BY <1>1
<1>8. ProtoOK(NewProto)
  BY <1>1, <1>3, <1>4, <1>6, <1>7, Zenon DEF ProtoOK
<1> QED BY <1>5, <1>8

\* Sender.Ack: the watermark moves up to n and the log keeps what is above it.
LEMMA SenderAckProperties ==
  ASSUME NEW p, ProtoOK(p), NEW n \in Nat
  PROVE  LET d == SenderAck(p.down, n)
         IN  /\ DOMAIN d = {"next", "acked", "log"} /\ d.next = p.down.next
             /\ d.acked \in p.down.acked .. p.down.next
             /\ DOMAIN d.log = (d.acked + 1) .. d.next
             /\ \A q \in DOMAIN d.log : q \in DOMAIN p.down.log /\ d.log[q] = p.down.log[q]
<1> DEFINE m == IF n > p.down.next THEN p.down.next ELSE n
           d == SenderAck(p.down, n)
<1>1. /\ p.down.next \in Nat /\ p.down.acked \in Nat /\ p.down.acked <= p.down.next /\ m \in 0 .. p.down.next
      /\ DOMAIN p.down.log = (p.down.acked + 1) .. p.down.next /\ DOMAIN p.down = {"next", "acked", "log"}
  BY Bounds DEF ProtoOK
<1>2. CASE m <= p.down.acked
  <2>1. d = p.down
    BY <1>2 DEF SenderAck
  <2> HIDE DEF d
  <2> QED BY <1>1, <2>1 DEF d
<1>3. CASE ~(m <= p.down.acked)
  <2>1. d = [next |-> p.down.next, acked |-> m, log |-> [q \in {x \in DOMAIN p.down.log : x > m} |-> p.down.log[q]]]
    BY <1>3 DEF SenderAck
  <2> HIDE DEF d, m
  <2>2. DOMAIN d.log = {x \in DOMAIN p.down.log : x > m} /\ \A q \in DOMAIN d.log : d.log[q] = p.down.log[q]
    BY <2>1
  <2>3. DOMAIN d = {"next", "acked", "log"} /\ d.next = p.down.next /\ d.acked = m
    BY <2>1
  <2>4. {x \in DOMAIN p.down.log : x > m} = (m + 1) .. p.down.next
    BY <1>1, <1>3
  <2> QED BY <1>1, <1>3, <2>2, <2>3, <2>4 DEF d
<1> QED BY <1>2, <1>3

\* ackDown.
LEMMA AckDownOK ==
  ASSUME NEW p, ProtoOK(p), NEW n \in Nat
  PROVE  /\ ProtoOK(AckDown(p, n)) /\ Armed(AckDown(p, n)) \subseteq Armed(p)
         /\ AckDown(p, n).down.acked \in Nat
<1> DEFINE d == SenderAck(p.down, n)
           covered == p.seq # 0 /\ p.seq <= d.acked
           a == AckDown(p, n)
<1>1. /\ DOMAIN d = {"next", "acked", "log"} /\ d.next = p.down.next
      /\ d.acked \in p.down.acked .. p.down.next
      /\ DOMAIN d.log = (d.acked + 1) .. d.next
      /\ \A q \in DOMAIN d.log : q \in DOMAIN p.down.log /\ d.log[q] = p.down.log[q]
  BY SenderAckProperties
<1>2. DOMAIN p = {"down", "seq", "gen", "sentGen", "latest", "resend", "reqAcks"}
  BY DEF ProtoOK
<1>3. /\ DOMAIN a = DOMAIN p /\ a.down = d /\ a.latest = p.latest
      /\ a.reqAcks = [q \in {r \in DOMAIN p.reqAcks : r > d.acked} |-> p.reqAcks[q]]
      /\ a.resend = IF covered /\ p.sentGen < p.gen THEN p.latest ELSE p.resend
      /\ a.seq = (IF covered THEN 0 ELSE p.seq) /\ a.gen = (IF covered THEN 0 ELSE p.gen)
      /\ a.sentGen = IF covered THEN 0 ELSE p.sentGen
  BY <1>2 DEF AckDown
<1> HIDE DEF a, d
<1>4. DOMAIN a.reqAcks = {r \in DOMAIN p.reqAcks : r > d.acked} /\ \A q \in DOMAIN a.reqAcks : a.reqAcks[q] = p.reqAcks[q]
  BY <1>3
<1>5. /\ p.down.next \in 0 .. MaxSeq /\ p.down.acked \in 0 .. p.down.next /\ MaxSeq \in Nat
      /\ DOMAIN p.down.log = (p.down.acked + 1) .. p.down.next
      /\ DOMAIN p.reqAcks \subseteq DOMAIN p.down.log
      /\ {p.seq, p.gen, p.sentGen, p.latest, p.resend} \subseteq Nat
  BY Bounds DEF ProtoOK
<1>6. \A q \in DOMAIN p.down.log : q > d.acked => q \in DOMAIN d.log
  BY <1>1, <1>5
<1>7. DOMAIN a.reqAcks \subseteq DOMAIN d.log
  BY <1>4, <1>5, <1>6
<1>8. \A q \in DOMAIN d.log : d.log[q] \in Nat /\ (d.log[q] # Request <=> q = a.seq)
  <2> SUFFICES ASSUME NEW q \in DOMAIN d.log PROVE d.log[q] \in Nat /\ (d.log[q] # Request <=> q = a.seq)
    OBVIOUS
  <2>1. q \in DOMAIN p.down.log /\ d.log[q] = p.down.log[q] /\ q \in Nat /\ q > d.acked
    BY <1>1, <1>5
  <2>2. d.log[q] \in Nat /\ (d.log[q] # Request <=> q = p.seq)
    BY <2>1 DEF ProtoOK
  <2>3. q = p.seq <=> q = a.seq
    BY <1>1, <1>3, <1>5, <2>1
  <2> QED BY <2>2, <2>3
<1>9. a.seq # 0 => a.seq \in DOMAIN d.log /\ d.log[a.seq] = a.gen /\ a.gen = a.latest
  <2> SUFFICES ASSUME a.seq # 0 PROVE a.seq \in DOMAIN d.log /\ d.log[a.seq] = a.gen /\ a.gen = a.latest
    OBVIOUS
  <2>1. a.seq = p.seq /\ a.gen = p.gen /\ ~covered
    BY <1>3
  <2>2. p.seq \in DOMAIN p.down.log /\ p.down.log[p.seq] = p.gen /\ p.gen = p.latest
    BY <2>1 DEF ProtoOK
  <2>3. p.seq \in DOMAIN d.log
    BY <1>1, <1>5, <1>6, <2>1, <2>2
  <2> QED BY <1>1, <1>3, <2>1, <2>2, <2>3
<1>10. {a.seq, a.gen, a.sentGen, a.latest, a.resend} \subseteq Nat
  BY <1>3, <1>5
<1>11. d.next \in 0 .. MaxSeq /\ d.acked \in 0 .. d.next /\ d.acked \in Nat
  BY <1>1, <1>5
<1>12. ProtoOK(a)
  BY <1>1, <1>2, <1>3, <1>7, <1>8, <1>9, <1>10, <1>11 DEF ProtoOK
<1>13. Armed(a) \subseteq Armed(p)
  BY <1>4 DEF Armed
<1> QED BY <1>3, <1>11, <1>12, <1>13 DEF a

\* A space with another resend, or with fewer deadlines.
LEMMA ResendOK ==
  ASSUME NEW p, ProtoOK(p)
  PROVE  ProtoOK([p EXCEPT !.resend = 0]) /\ Armed([p EXCEPT !.resend = 0]) = Armed(p)
BY DEF ProtoOK, Armed

\* A deadline that fires: the request leaves the armed set.
LEMMA ExpireOK ==
  ASSUME NEW p, ProtoOK(p), NEW x, NEW a, a = [p EXCEPT !.reqAcks = [q \in DOMAIN @ \ {x} |-> @[q]]]
  PROVE  ProtoOK(a) /\ Armed(a) \subseteq Armed(p)
<1>1. DOMAIN p = {"down", "seq", "gen", "sentGen", "latest", "resend", "reqAcks"}
  BY DEF ProtoOK
<1>2. /\ DOMAIN a = DOMAIN p /\ a.down = p.down /\ a.seq = p.seq /\ a.gen = p.gen /\ a.sentGen = p.sentGen
      /\ a.latest = p.latest /\ a.resend = p.resend
      /\ a.reqAcks = [q \in DOMAIN p.reqAcks \ {x} |-> p.reqAcks[q]]
  BY <1>1
<1>3. DOMAIN a.reqAcks = DOMAIN p.reqAcks \ {x} /\ \A q \in DOMAIN a.reqAcks : a.reqAcks[q] = p.reqAcks[q]
  BY <1>2
<1> QED BY <1>2, <1>3 DEF ProtoOK, Armed

\* attach on a resume.
LEMMA AttachProtoOK ==
  ASSUME NEW p, ProtoOK(p), NEW n \in Nat
  PROVE  ProtoOK(AttachProto(p, n)) /\ Armed(AttachProto(p, n)) \subseteq Armed(p)
BY AckDownOK, ResendOK DEF AttachProto

\* noteWritten.
LEMMA NoteWrittenOK ==
  ASSUME NEW p, ProtoOK(p), NEW seq, NEW g \in Nat
  PROVE  ProtoOK(NoteWritten(p, seq, g)) /\ Armed(NoteWritten(p, seq, g)) \subseteq Armed(p) \cup {seq}
<1> DEFINE a == NoteWritten(p, seq, g)
<1>1. DOMAIN p = {"down", "seq", "gen", "sentGen", "latest", "resend", "reqAcks"}
  BY DEF ProtoOK
<1>2. /\ DOMAIN a = DOMAIN p /\ a.down = p.down /\ a.seq = p.seq /\ a.gen = p.gen /\ a.sentGen \in {p.sentGen, g}
      /\ a.latest = p.latest /\ a.resend = p.resend
      /\ a.reqAcks = IF seq \in DOMAIN p.reqAcks THEN [p.reqAcks EXCEPT ![seq] = TRUE] ELSE p.reqAcks
  BY <1>1 DEF NoteWritten
<1> HIDE DEF a
<1>3. DOMAIN a.reqAcks = DOMAIN p.reqAcks /\ \A q \in DOMAIN p.reqAcks : q # seq => a.reqAcks[q] = p.reqAcks[q]
  BY <1>2
<1>4. ProtoOK(a)
  BY <1>2, <1>3 DEF ProtoOK
<1>5. Armed(a) \subseteq Armed(p) \cup {seq}
  BY <1>3 DEF Armed
<1> QED BY <1>4, <1>5 DEF a

\* Sender.Append.
LEMMA SenderAppendProperties ==
  ASSUME NEW p, ProtoOK(p), NEW x
  PROVE  LET d == SenderAppend(p.down, x)
         IN  /\ DOMAIN d = {"next", "acked", "log"} /\ d.next = p.down.next + 1 /\ d.acked = p.down.acked
             /\ DOMAIN d.log = (d.acked + 1) .. d.next /\ d.log[d.next] = x
             /\ \A q \in DOMAIN p.down.log : q \in DOMAIN d.log /\ q # d.next /\ d.log[q] = p.down.log[q]
             /\ \A q \in DOMAIN d.log : q = d.next \/ q \in DOMAIN p.down.log
<1> DEFINE d == SenderAppend(p.down, x)
           n == p.down.next + 1
<1>1. /\ p.down.next \in Nat /\ p.down.acked \in Nat /\ p.down.acked <= p.down.next
      /\ DOMAIN p.down.log = (p.down.acked + 1) .. p.down.next
  BY Bounds DEF ProtoOK
<1>2. d = [next |-> n, acked |-> p.down.acked,
           log |-> [q \in DOMAIN p.down.log \cup {n} |-> IF q = n THEN x ELSE p.down.log[q]]]
  BY DEF SenderAppend, LogAppend
<1> HIDE DEF d
<1>3. /\ DOMAIN d = {"next", "acked", "log"} /\ d.next = n /\ d.acked = p.down.acked
      /\ d.log = [q \in DOMAIN p.down.log \cup {n} |-> IF q = n THEN x ELSE p.down.log[q]]
  BY <1>2
<1>4. DOMAIN d.log = DOMAIN p.down.log \cup {n} /\ d.log[n] = x /\ \A q \in DOMAIN p.down.log : q # n => d.log[q] = p.down.log[q]
  BY <1>3
<1>5. n \notin DOMAIN p.down.log /\ DOMAIN p.down.log \cup {n} = (p.down.acked + 1) .. n
  BY <1>1
<1> QED BY <1>3, <1>4, <1>5 DEF d

\* dispatch.
LEMMA DispatchRequestOK ==
  ASSUME NEW p, ProtoOK(p), p.down.next < MaxSeq
  PROVE  ProtoOK(DispatchRequest(p)) /\ Armed(DispatchRequest(p)) \subseteq Armed(p)
<1> DEFINE d == SenderAppend(p.down, Request)
           a == DispatchRequest(p)
           n == p.down.next + 1
<1>1. DOMAIN p = {"down", "seq", "gen", "sentGen", "latest", "resend", "reqAcks"}
  BY DEF ProtoOK
<1>2. /\ DOMAIN a = DOMAIN p /\ a.down = d /\ a.seq = p.seq /\ a.gen = p.gen /\ a.sentGen = p.sentGen
      /\ a.latest = p.latest /\ a.resend = p.resend
      /\ a.reqAcks = [q \in DOMAIN p.reqAcks \cup {n} |-> IF q = n THEN FALSE ELSE p.reqAcks[q]]
  BY <1>1 DEF DispatchRequest
<1>3. /\ DOMAIN d = {"next", "acked", "log"} /\ d.next = n /\ d.acked = p.down.acked
      /\ DOMAIN d.log = (d.acked + 1) .. d.next /\ d.log[d.next] = Request
      /\ \A q \in DOMAIN p.down.log : q \in DOMAIN d.log /\ q # d.next /\ d.log[q] = p.down.log[q]
      /\ \A q \in DOMAIN d.log : q = d.next \/ q \in DOMAIN p.down.log
  BY SenderAppendProperties
<1> HIDE DEF a, d
<1>4. /\ DOMAIN a.reqAcks = DOMAIN p.reqAcks \cup {n} /\ \A q \in DOMAIN p.reqAcks : q # n => a.reqAcks[q] = p.reqAcks[q]
      /\ ~a.reqAcks[n]
  BY <1>2
<1>5. n \in 0 .. MaxSeq /\ p.down.acked \in 0 .. n /\ n \in DOMAIN d.log
  BY <1>3, Bounds DEF ProtoOK
<1>6. \A q \in DOMAIN d.log : d.log[q] \in Nat /\ (d.log[q] # Request <=> q = a.seq)
  <2> SUFFICES ASSUME NEW q \in DOMAIN d.log PROVE d.log[q] \in Nat /\ (d.log[q] # Request <=> q = a.seq)
    OBVIOUS
  <2>1. CASE q = d.next
    <3>1. a.seq # q
      BY <1>2, <1>3, <1>5, <2>1 DEF ProtoOK
    <3> QED BY <1>3, <2>1, <3>1 DEF Request
  <2>2. CASE q # d.next
    BY <1>2, <1>3, <2>2 DEF ProtoOK
  <2> QED BY <2>1, <2>2
<1>7. a.seq # 0 => a.seq \in DOMAIN d.log /\ d.log[a.seq] = a.gen /\ a.gen = a.latest
  BY <1>2, <1>3 DEF ProtoOK
<1>8. DOMAIN a.reqAcks \subseteq DOMAIN d.log
  BY <1>3, <1>4, <1>5 DEF ProtoOK
<1>9. {a.seq, a.gen, a.sentGen, a.latest, a.resend} \subseteq Nat
  BY <1>2 DEF ProtoOK
<1>10. ProtoOK(a)
  BY <1>1, <1>2, <1>3, <1>5, <1>6, <1>7, <1>8, <1>9 DEF ProtoOK
<1>11. Armed(a) \subseteq Armed(p)
  BY <1>4 DEF Armed
<1> QED BY <1>10, <1>11 DEF a


\* pushAudience.
LEMMA PushOK ==
  ASSUME NEW p, ProtoOK(p), p.down.next < MaxSeq, NEW g \in Nat \ {0}
  PROVE  ProtoOK(PushProto(p, g)) /\ Armed(PushProto(p, g)) \subseteq Armed(p)
<1> DEFINE a == PushProto(p, g)
           b == [p EXCEPT !.latest = g, !.resend = 0]
           n == p.down.next + 1
<1>1. /\ DOMAIN p = {"down", "seq", "gen", "sentGen", "latest", "resend", "reqAcks"}
      /\ DOMAIN p.down = {"next", "acked", "log"} /\ DOMAIN p.reqAcks \subseteq DOMAIN p.down.log
      /\ {p.seq, p.gen, p.sentGen, p.latest, p.resend} \subseteq Nat
      /\ p.seq # 0 => p.gen = p.latest
  BY DEF ProtoOK
<1>2. CASE g < p.latest
  BY <1>2 DEF PushProto, Replaces, Outdated
<1>3. CASE ~(g < p.latest) /\ Replaces(p, g)
  <2>1. a = [b EXCEPT !.down = SenderElide(@, p.seq, g), !.gen = g]
    BY <1>3 DEF PushProto
  <2>2. /\ DOMAIN a = DOMAIN p /\ a.down = SenderElide(p.down, p.seq, g) /\ a.seq = p.seq /\ a.gen = g
        /\ a.sentGen = p.sentGen /\ a.latest = g /\ a.resend = 0 /\ a.reqAcks = p.reqAcks
    BY <1>1, <2>1
  <2>3. p.seq # 0 /\ p.seq \in DOMAIN p.down.log
    BY <1>3 DEF Replaces, ProtoOK
  <2> HIDE DEF a, b
  <2>4. /\ DOMAIN a.down = {"next", "acked", "log"} /\ a.down.next = p.down.next /\ a.down.acked = p.down.acked
        /\ a.down.log = [p.down.log EXCEPT ![p.seq] = g]
    BY <2>2 DEF SenderElide
  <2>5. /\ DOMAIN a.down.log = DOMAIN p.down.log /\ a.down.log[p.seq] = g
        /\ \A q \in DOMAIN p.down.log : q # p.seq => a.down.log[q] = p.down.log[q]
    BY <2>3, <2>4
  <2>6. \A q \in DOMAIN a.down.log : a.down.log[q] \in Nat /\ (a.down.log[q] # Request <=> q = a.seq)
    BY <2>2, <2>3, <2>5 DEF ProtoOK, Request
  <2>7. ProtoOK(a)
    BY <1>1, <2>2, <2>3, <2>4, <2>5, <2>6 DEF ProtoOK
  <2>8. Armed(a) = Armed(p)
    BY <2>2 DEF Armed
  <2> QED BY <2>7, <2>8 DEF a
<1>4. CASE ~(g < p.latest) /\ ~Outdated(p, g) /\ ~Replaces(p, g)
  <2> DEFINE d == SenderAppend(p.down, g)
  <2>1. a = [b EXCEPT !.down = SenderAppend(@, g), !.seq = p.down.next + 1, !.gen = g, !.sentGen = 0]
    BY <1>4 DEF PushProto
  <2>2. /\ DOMAIN a = DOMAIN p /\ a.down = d /\ a.seq = n /\ a.gen = g
        /\ a.sentGen = 0 /\ a.latest = g /\ a.resend = 0 /\ a.reqAcks = p.reqAcks
    BY <1>1, <2>1
  <2>3. p.seq = 0
    BY <1>4 DEF Replaces
  <2>4. /\ DOMAIN d = {"next", "acked", "log"} /\ d.next = n /\ d.acked = p.down.acked
        /\ DOMAIN d.log = (d.acked + 1) .. d.next /\ d.log[d.next] = g
        /\ \A q \in DOMAIN p.down.log : q \in DOMAIN d.log /\ q # d.next /\ d.log[q] = p.down.log[q]
        /\ \A q \in DOMAIN d.log : q = d.next \/ q \in DOMAIN p.down.log
    BY SenderAppendProperties
  <2> HIDE DEF a, b, d
  <2>5. n \in 0 .. MaxSeq /\ n # 0 /\ p.down.acked \in 0 .. n /\ n \in DOMAIN d.log /\ 0 \notin DOMAIN p.down.log
    BY <2>4, Bounds DEF ProtoOK
  <2>6. \A q \in DOMAIN d.log : d.log[q] \in Nat /\ (d.log[q] # Request <=> q = n)
    <3> SUFFICES ASSUME NEW q \in DOMAIN d.log PROVE d.log[q] \in Nat /\ (d.log[q] # Request <=> q = n)
      OBVIOUS
    <3>1. CASE q = n
      BY <2>4, <3>1 DEF Request
    <3>2. CASE q # n
      <4>1. q \in DOMAIN p.down.log /\ d.log[q] = p.down.log[q] /\ q # p.seq
        BY <2>3, <2>4, <2>5, <3>2
      <4> QED BY <3>2, <4>1 DEF ProtoOK
    <3> QED BY <3>1, <3>2
  <2>7. DOMAIN a.reqAcks \subseteq DOMAIN d.log
    BY <1>1, <2>2, <2>4
  <2>8. {a.seq, a.gen, a.sentGen, a.latest, a.resend} \subseteq Nat
    BY <2>2, <2>5
  <2>9. a.seq # 0 => a.seq \in DOMAIN d.log /\ d.log[a.seq] = a.gen /\ a.gen = a.latest
    BY <2>2, <2>4, <2>5
  <2>10. ProtoOK(a)
    <3>1. DOMAIN a.down = {"next", "acked", "log"} /\ a.down.next \in 0 .. MaxSeq /\ a.down.acked \in 0 .. a.down.next
      BY <2>2, <2>4, <2>5
    <3>2. DOMAIN a.down.log = (a.down.acked + 1) .. a.down.next
      BY <2>2, <2>4
    <3> QED BY <1>1, <2>2, <2>6, <2>7, <2>8, <2>9, <3>1, <3>2 DEF ProtoOK
  <2>11. Armed(a) = Armed(p)
    BY <2>2 DEF Armed
  <2> QED BY <2>10, <2>11 DEF a
<1>5. CASE ~(g < p.latest) /\ Outdated(p, g)
  <2>1. a = b
    BY <1>5 DEF PushProto, Replaces
  <2>2. /\ DOMAIN a = DOMAIN p /\ a.down = p.down /\ a.seq = p.seq /\ a.gen = p.gen
        /\ a.sentGen = p.sentGen /\ a.latest = g /\ a.resend = 0 /\ a.reqAcks = p.reqAcks
    BY <1>1, <2>1
  <2>3. p.seq # 0 /\ g = p.latest
    BY <1>1, <1>5 DEF Outdated
  <2> HIDE DEF a, b
  <2>4. ProtoOK(a) /\ Armed(a) = Armed(p)
    BY <2>2, <2>3 DEF ProtoOK, Armed
  <2> QED BY <2>4 DEF a
<1> QED BY <1>2, <1>3, <1>4, <1>5 DEF Replaces

\* entriesAfter and oldestUnacked return logged frames.
LEMMA EntriesAreFrames ==
  ASSUME NEW p, ProtoOK(p), NEW seq \in Nat
  PROVE  EntriesAfter(p, seq) \in Seq(Frames)
<1> DEFINE from == IF seq > p.down.acked THEN seq ELSE p.down.acked
           n == p.down.next - from
           es == [i \in 1 .. n |-> << from + i, p.down.log[from + i] >>]
<1>1. /\ p.down.next \in 0 .. MaxSeq /\ p.down.acked \in Nat /\ MaxSeq \in Nat
      /\ DOMAIN p.down.log = (p.down.acked + 1) .. p.down.next
      /\ \A q \in DOMAIN p.down.log : p.down.log[q] \in Nat
  BY Bounds DEF ProtoOK
<1>2. from \in Nat /\ from >= p.down.acked
  BY <1>1
<1> HIDE DEF from
<1>3. ASSUME NEW i \in 1 .. n PROVE << from + i, p.down.log[from + i] >> \in Frames
  <2>1. from + i \in DOMAIN p.down.log /\ from + i \in 0 .. MaxSeq
    BY <1>1, <1>2
  <2> QED BY <1>1, <2>1 DEF Frames
<1>4. EntriesAfter(p, seq) = es
  BY DEF EntriesAfter, from
<1>5. CASE n \in Nat
  <2>1. es \in [1 .. n -> Frames]
    BY <1>3
  <2> HIDE DEF es, n
  <2> QED BY <1>4, <1>5, <2>1, SeqDef
<1>6. CASE n \notin Nat
  <2>1. 1 .. n = {}
    BY <1>1, <1>2, <1>6
  <2>2. es = << >>
    BY <2>1
  <2>3. << >> \in Seq(Frames)
    OBVIOUS
  <2> HIDE DEF es
  <2> QED BY <1>4, <2>2, <2>3
<1> QED BY <1>5, <1>6

\* A resend batch is a prefix of those entries.
LEMMA OldestAreFrames ==
  ASSUME NEW p, ProtoOK(p)
  PROVE  OldestUnacked(p) \in Seq(Frames)
<1> DEFINE all == EntriesAfter(p, p.down.acked)
           n == IF Len(all) < Batch THEN Len(all) ELSE Batch
<1>1. all \in Seq(Frames)
  BY EntriesAreFrames DEF ProtoOK
<1> HIDE DEF all
<1>2. n \in 0 .. Len(all)
  BY <1>1, Bounds
<1>3. SubSeq(all, 1, n) \in Seq(Frames)
  BY <1>1, <1>2
<1> QED BY <1>3 DEF OldestUnacked, all

\* Changing one space, or one session.
LEMMA ProtoChange ==
  ASSUME ProtoInv, NEW e, NEW p, e \in Epochs => ProtoOK(p), proto' = [proto EXCEPT ![e] = p]
  PROVE  ProtoInv'
BY DEF ProtoInv, ProtoOK

\* The same for a session.
LEMMA SessChange ==
  ASSUME SessInv, NEW s \in Sessions, NEW r, SessOK(r), sess' = [sess EXCEPT ![s] = r]
  PROVE  SessInv'
BY DEF SessInv, SessOK

-----------------------------------------------------------------------------
(* Types. *)

\* Every step keeps the sequence spaces in order.
LEMMA ProtoStep ==
  ASSUME ProtoInv, SessInv, RegInv, LinkInv, [Next]_vars
  PROVE  ProtoInv'
<1>1. ASSUME ViewChange PROVE ProtoInv'
  <2>1. proto' = proto
    BY <1>1 DEF ViewChange, histVars
  <2> QED BY <2>1 DEF ProtoInv, ProtoOK
<1>2. ASSUME Notify PROVE ProtoInv'
  <2>1. proto' = proto
    BY <1>2 DEF Notify, histVars
  <2> QED BY <2>1 DEF ProtoInv, ProtoOK
<1>3. ASSUME HostLeaves PROVE ProtoInv'
  <2>1. proto' = proto
    BY <1>3 DEF HostLeaves, histVars
  <2> QED BY <2>1 DEF ProtoInv, ProtoOK
<1>4. ASSUME HostRestarts PROVE ProtoInv'
  <2>1. proto' = proto
    BY <1>4 DEF HostRestarts, histVars
  <2> QED BY <2>1 DEF ProtoInv, ProtoOK
<1>5. ASSUME NEW c \in pushes, Push(c) PROVE ProtoInv'
  <2>1. CASE Finished(c.sess)
    BY <1>5, <2>1 DEF Push, ProtoInv, ProtoOK
  <2>2. CASE ~Finished(c.sess)
    <3> DEFINE e == sess[c.sess].epoch
    <3>1. proto' = [proto EXCEPT ![e] = PushProto(proto[e], c.gen)]
      BY <1>5, <2>2 DEF Push
    <3>2. e \in Epochs /\ c.gen \in Nat \ {0}
      BY DEF RegInv, Attached, SessInv, SessOK
    <3>3. ProtoOK(proto[e]) /\ proto[e].down.next < MaxSeq
      BY <1>5, <3>2 DEF Push, RoomInLog, ProtoInv
    <3> HIDE DEF e
    <3>4. ProtoOK(PushProto(proto[e], c.gen))
      BY <3>2, <3>3, PushOK
    <3> QED BY <3>1, <3>4, ProtoChange
  <2> QED BY <2>1, <2>2
<1>6. ASSUME NEW c \in pushes, AskRewrite(c) PROVE ProtoInv'
  <2>1. proto' = proto
    BY <1>6 DEF AskRewrite, histVars
  <2> QED BY <2>1 DEF ProtoInv, ProtoOK
<1>7. ASSUME NEW s \in Sessions, Attach(s) PROVE ProtoInv'
  <2> DEFINE e == host.epoch
             p == IF reg.epoch = e THEN AttachProto(proto[e], host.rcv.acked) ELSE NewProto
  <2>1. proto' = [proto EXCEPT ![e] = p]
    BY <1>7 DEF Attach
  <2>2. e \in Epochs /\ host.rcv.acked \in Nat /\ ProtoOK(proto[e])
    BY Bounds DEF LinkInv, ProtoInv
  <2>3. ProtoOK(p)
    BY <2>2, AttachProtoOK, NewProtoOK
  <2> HIDE DEF e, p
  <2> QED BY <2>1, <2>3, ProtoChange
<1>8. ASSUME NEW s \in Sessions, Start(s) PROVE ProtoInv'
  <2>1. proto' = proto
    BY <1>8 DEF Start, histVars
  <2> QED BY <2>1 DEF ProtoInv, ProtoOK
<1>9. ASSUME NEW s \in Sessions, HandleAck(s) PROVE ProtoInv'
  <2> DEFINE e == sess[s].epoch
             p == AckDown(proto[e], acks[s])
  <2>1. proto' = [proto EXCEPT ![e] = p] /\ sess[s].pc = "idle"
    BY <1>9 DEF HandleAck
  <2>2. e \in Epochs /\ acks[s] \in Nat
    BY <2>1 DEF SessInv, SessOK, LinkInv
  <2>3. ProtoOK(p)
    BY <2>2, AckDownOK DEF ProtoInv
  <2> HIDE DEF e, p
  <2> QED BY <2>1, <2>3, ProtoChange
<1>10. ASSUME NEW s \in Sessions, TakeResend(s) PROVE ProtoInv'
  <2> DEFINE e == sess[s].epoch
             p == [proto[e] EXCEPT !.resend = 0]
  <2>1. proto' = [proto EXCEPT ![e] = p] /\ sess[s].pc = "take"
    BY <1>10 DEF TakeResend
  <2>2. e \in Epochs
    BY <2>1 DEF SessInv, SessOK
  <2>3. ProtoOK(p)
    BY <2>2, ResendOK DEF ProtoInv
  <2> HIDE DEF e, p
  <2> QED BY <2>1, <2>3, ProtoChange
<1>11. ASSUME NEW s \in Sessions, Close(s) PROVE ProtoInv'
  <2>1. proto' = proto
    BY <1>11 DEF Close, histVars
  <2> QED BY <2>1 DEF ProtoInv, ProtoOK
<1>12. ASSUME NEW s \in Sessions, Detach(s) PROVE ProtoInv'
  <2>1. proto' = proto
    BY <1>12 DEF Detach, histVars
  <2> QED BY <2>1 DEF ProtoInv, ProtoOK
<1>13. ASSUME NEW s \in Sessions, SendRequest(s) PROVE ProtoInv'
  <2> DEFINE e == sess[s].epoch
             p == DispatchRequest(proto[e])
  <2>1. proto' = [proto EXCEPT ![e] = p] /\ ~Finished(s) /\ RoomInLog(e)
    BY <1>13 DEF SendRequest
  <2>2. e \in Epochs
    BY <2>1 DEF SessInv, SessOK, Finished
  <2>3. ProtoOK(p)
    BY <2>1, <2>2, DispatchRequestOK DEF ProtoInv, RoomInLog
  <2> HIDE DEF e, p
  <2> QED BY <2>1, <2>3, ProtoChange
<1>14. ASSUME NEW s \in Sessions, NEW q \in 1 .. MaxSeq, ExpireRequest(s, q) PROVE ProtoInv'
  <2> DEFINE e == sess[s].epoch
             p == [proto[e] EXCEPT !.reqAcks = [x \in DOMAIN @ \ {q} |-> @[x]]]
  <2>1. sess[s].pc = "idle"
    BY <1>14 DEF ExpireRequest
  <2>2. e \in Epochs
    BY <2>1 DEF SessInv, SessOK
  <2>3. ProtoOK(p)
    BY <2>2, ExpireOK DEF ProtoInv
  <2>4. proto' = [proto EXCEPT ![e] = p]
    BY <1>14, <2>2 DEF ExpireRequest, ProtoInv, ProtoOK
  <2> HIDE DEF e, p
  <2> QED BY <2>3, <2>4, ProtoChange
<1>15. ASSUME NEW s \in Sessions, WriterTop(s) PROVE ProtoInv'
  <2>1. proto' = proto
    BY <1>15 DEF WriterTop, Writer, histVars
  <2> QED BY <2>1 DEF ProtoInv, ProtoOK
<1>16. ASSUME NEW s \in Sessions, WriterWakes(s) PROVE ProtoInv'
  <2>1. proto' = proto
    BY <1>16 DEF WriterWakes, Writer, histVars
  <2> QED BY <2>1 DEF ProtoInv, ProtoOK
<1>17. ASSUME NEW s \in Sessions, Replay(s) PROVE ProtoInv'
  <2>1. proto' = proto
    BY <1>17 DEF Replay, Writer, histVars
  <2> QED BY <2>1 DEF ProtoInv, ProtoOK
<1>18. ASSUME NEW s \in Sessions, Rewrite(s) PROVE ProtoInv'
  <2>1. proto' = proto
    BY <1>18 DEF Rewrite, histVars
  <2> QED BY <2>1 DEF ProtoInv, ProtoOK
<1>19. ASSUME NEW s \in Sessions, Write(s) PROVE ProtoInv'
  <2>1. proto' = proto
    BY <1>19 DEF Write, Writer, histVars
  <2> QED BY <2>1 DEF ProtoInv, ProtoOK
<1>20. ASSUME NEW s \in Sessions, Written(s) PROVE ProtoInv'
  <2> DEFINE e == sess[s].epoch
             f == Head(sess[s].batch)
             p == NoteWritten(proto[e], f[1], f[2])
  <2>1. proto' = [proto EXCEPT ![e] = p] /\ sess[s].wpc = "note"
    BY <1>20 DEF Written
  <2>2. SessOK(sess[s])
    BY DEF SessInv
  <2>3. e \in Epochs /\ sess[s].batch \in Seq(Frames) /\ sess[s].batch # << >>
    BY <2>1, <2>2 DEF SessOK
  <2>4. f \in Frames
    BY <2>3
  <2>5. f[2] \in Nat
    BY <2>4 DEF Frames
  <2> HIDE DEF f
  <2>6. ProtoOK(p)
    BY <2>3, <2>5, NoteWrittenOK DEF ProtoInv
  <2> HIDE DEF e, p
  <2> QED BY <2>1, <2>6, ProtoChange
<1>21. ASSUME NEW s \in Sessions, HostReceives(s) PROVE ProtoInv'
  <2>1. proto' = proto
    BY <1>21 DEF HostReceives, histVars
  <2> QED BY <2>1 DEF ProtoInv, ProtoOK
<1>22. ASSUME NEW s \in Sessions, HostAcks(s) PROVE ProtoInv'
  <2>1. proto' = proto
    BY <1>22 DEF HostAcks, histVars
  <2> QED BY <2>1 DEF ProtoInv, ProtoOK
<1>23. CASE UNCHANGED vars
  BY <1>23 DEF vars, ProtoInv, ProtoOK
<1> QED
  BY <1>1, <1>2, <1>3, <1>4, <1>5, <1>6, <1>7, <1>8, <1>9, <1>10, <1>11, <1>12, <1>13,
     <1>14, <1>15, <1>16, <1>17, <1>18, <1>19, <1>20, <1>21, <1>22, <1>23 DEF Next,
     LoopStep, WriterStep

\* The writer goes on with a batch.
LEMMA WriterChange ==
  ASSUME SessInv, NEW s \in Sessions, sess[s].wpc # "none", NEW w, NEW b, Writer(s, w, b),
         w # "none", b \in Seq(Frames), w \in {"write", "note"} => b # << >>
  PROVE  SessInv'
<1> DEFINE r == [sess[s] EXCEPT !.wpc = w, !.batch = b]
<1>2. SessOK(sess[s]) /\ DOMAIN sess = Sessions
  BY DEF SessInv
<1>3. SessOK(r)
  BY <1>2 DEF SessOK
<1>4. sess' = [sess EXCEPT ![s] = r]
  BY <1>2 DEF Writer, SessOK
<1> HIDE DEF r
<1> QED BY <1>3, <1>4, SessChange

\* Every step keeps the sessions in order.
LEMMA SessStep ==
  ASSUME ProtoInv, SessInv, RegInv, LinkInv, [Next]_vars
  PROVE  SessInv'
<1>1. ASSUME ViewChange PROVE SessInv'
  <2>1. sess' = sess
    BY <1>1 DEF ViewChange, histVars
  <2> QED BY <2>1 DEF SessInv, SessOK
<1>2. ASSUME Notify PROVE SessInv'
  <2>1. sess' = sess
    BY <1>2 DEF Notify, histVars
  <2> QED BY <2>1 DEF SessInv, SessOK
<1>3. ASSUME HostLeaves PROVE SessInv'
  <2>1. sess' = sess
    BY <1>3 DEF HostLeaves, histVars
  <2> QED BY <2>1 DEF SessInv, SessOK
<1>4. ASSUME HostRestarts PROVE SessInv'
  <2>1. sess' = sess
    BY <1>4 DEF HostRestarts, histVars
  <2> QED BY <2>1 DEF SessInv, SessOK
<1>5. ASSUME NEW c \in pushes, Push(c) PROVE SessInv'
  <2>1. sess' = sess
    BY <1>5 DEF Push, histVars
  <2> QED BY <2>1 DEF SessInv, SessOK
<1>6. ASSUME NEW c \in pushes, AskRewrite(c) PROVE SessInv'
  <2>1. CASE sess' = sess
    BY <2>1 DEF SessInv, SessOK
  <2>2. CASE sess' = [sess EXCEPT ![c.sess].rewrite = c.seq]
    BY <2>2 DEF SessInv, SessOK
  <2> QED BY <1>6, <2>1, <2>2 DEF AskRewrite
<1>7. ASSUME NEW s \in Sessions, Attach(s) PROVE SessInv'
  <2> DEFINE r == [NewSession EXCEPT !.pc = "hello", !.epoch = host.epoch, !.old = reg.session, !.aud = AudienceGen]
  <2>1. sess' = [sess EXCEPT ![s] = r]
    BY <1>7 DEF Attach
  <2>2. AudienceGen \in Nat /\ host.epoch \in Epochs
    BY DEF AudienceGen, RegInv, LinkInv
  <2>3. SessOK(r)
    <3>1. /\ DOMAIN r = {"pc", "epoch", "old", "aud", "stop", "lastAck", "wpc", "batch", "written", "rewrite"}
          /\ r.pc = "hello" /\ r.epoch = host.epoch /\ r.wpc = "none" /\ r.written = 0 /\ r.aud = AudienceGen /\ r.batch = << >>
      BY DEF NewSession
    <3> HIDE DEF r
    <3> QED BY <2>2, <3>1 DEF SessOK
  <2> HIDE DEF r
  <2> QED BY <2>1, <2>3, SessChange
<1>8. ASSUME NEW s \in Sessions, Start(s) PROVE SessInv'
  <2> DEFINE n == proto[sess[s].epoch].down.acked
             r == [sess[s] EXCEPT !.pc = "idle", !.wpc = "top", !.aud = 0, !.old = None, !.written = n, !.lastAck = n]
  <2>1. /\ sess[s].pc = "hello"
        /\ sess' = [t \in Sessions |-> CASE t = s -> r
                                         [] t = sess[s].old -> [sess[t] EXCEPT !.stop = TRUE]
                                         [] OTHER -> sess[t]]
    BY <1>8 DEF Start
  <2>2. SessOK(sess[s]) /\ sess[s].epoch \in Epochs
    BY <2>1 DEF SessInv, SessOK
  <2>3. n \in Nat
    <3>1. ProtoOK(proto[sess[s].epoch])
      BY <2>2 DEF ProtoInv
    <3> QED BY <3>1, Bounds DEF ProtoOK
  <2> HIDE DEF n
  <2>4. SessOK(r)
    BY <2>1, <2>2, <2>3 DEF SessOK, None
  <2> HIDE DEF r
  <2>5. \A t \in Sessions : SessOK([sess[t] EXCEPT !.stop = TRUE])
    BY DEF SessInv, SessOK
  <2>6. \A t \in Sessions : sess'[t] = r \/ sess'[t] = [sess[t] EXCEPT !.stop = TRUE] \/ sess'[t] = sess[t]
    <3> SUFFICES ASSUME NEW t \in Sessions
                 PROVE  sess'[t] = r \/ sess'[t] = [sess[t] EXCEPT !.stop = TRUE] \/ sess'[t] = sess[t]
      OBVIOUS
    <3>1. CASE t = s
      BY <2>1, <3>1
    <3>2. CASE t # s /\ t = sess[s].old
      BY <2>1, <3>2
    <3>3. CASE t # s /\ t # sess[s].old
      BY <2>1, <3>3
    <3> QED BY <3>1, <3>2, <3>3
  <2>7. \A t \in Sessions : SessOK(sess'[t])
    BY <2>4, <2>5, <2>6 DEF SessInv
  <2> QED BY <2>1, <2>7 DEF SessInv, SessOK
<1>9. ASSUME NEW s \in Sessions, HandleAck(s) PROVE SessInv'
  BY <1>9 DEF HandleAck, histVars, SessInv, SessOK
<1>10. ASSUME NEW s \in Sessions, TakeResend(s) PROVE SessInv'
  BY <1>10 DEF TakeResend, histVars, SessInv, SessOK
<1>11. ASSUME NEW s \in Sessions, Close(s) PROVE SessInv'
  BY <1>11 DEF Close, histVars, SessInv, SessOK
<1>12. ASSUME NEW s \in Sessions, Detach(s) PROVE SessInv'
  BY <1>12 DEF Detach, histVars, SessInv, SessOK
<1>13. ASSUME NEW s \in Sessions, SendRequest(s) PROVE SessInv'
  <2>1. sess' = sess
    BY <1>13 DEF SendRequest, histVars
  <2> QED BY <2>1 DEF SessInv, SessOK
<1>14. ASSUME NEW s \in Sessions, NEW q \in 1 .. MaxSeq, ExpireRequest(s, q) PROVE SessInv'
  <2>1. sess' = sess
    BY <1>14 DEF ExpireRequest, histVars
  <2> QED BY <2>1 DEF SessInv, SessOK
<1>15. ASSUME NEW s \in Sessions, WriterTop(s) PROVE SessInv'
  <2> DEFINE new == EntriesAfter(proto[sess[s].epoch], sess[s].written)
  <2>1. /\ sess[s].wpc = "top"
        /\ CASE sess[s].stop -> Writer(s, "done", << >>)
             [] ~sess[s].stop /\ new # << >> -> Writer(s, "write", new)
             [] OTHER -> Writer(s, "select", << >>)
    BY <1>15 DEF WriterTop
  <2>2. sess[s].epoch \in Epochs /\ sess[s].written \in Nat
    BY <2>1 DEF SessInv, SessOK
  <2>3. new \in Seq(Frames)
    BY <2>2, EntriesAreFrames DEF ProtoInv
  <2> HIDE DEF new
  <2>4. << >> \in Seq(Frames) /\ sess[s].wpc # "none"
    BY <2>1
  <2>5. CASE Writer(s, "done", << >>)
    BY <2>4, <2>5, WriterChange
  <2>6. CASE Writer(s, "select", << >>)
    BY <2>4, <2>6, WriterChange
  <2>7. CASE new # << >> /\ Writer(s, "write", new)
    BY <2>3, <2>4, <2>7, WriterChange
  <2> QED BY <2>1, <2>5, <2>6, <2>7
<1>16. ASSUME NEW s \in Sessions, WriterWakes(s) PROVE SessInv'
  BY <1>16 DEF WriterWakes, Writer, histVars, SessInv, SessOK
<1>17. ASSUME NEW s \in Sessions, Replay(s) PROVE SessInv'
  <2> DEFINE new == OldestUnacked(proto[sess[s].epoch])
  <2>1. sess[s].wpc = "select" /\ new # << >> /\ Writer(s, "write", new)
    BY <1>17 DEF Replay
  <2>2. sess[s].epoch \in Epochs
    BY <2>1 DEF SessInv, SessOK
  <2>3. new \in Seq(Frames)
    BY <2>2, OldestAreFrames DEF ProtoInv
  <2> HIDE DEF new
  <2> QED BY <2>1, <2>3 DEF Writer, SessInv, SessOK
<1>18. ASSUME NEW s \in Sessions, Rewrite(s) PROVE SessInv'
  <2> DEFINE seq == sess[s].rewrite
             log == proto[sess[s].epoch].down.log
             b == IF seq \in DOMAIN log THEN << << seq, log[seq] >> >> ELSE << >>
             w == IF seq \in DOMAIN log THEN "write" ELSE "top"
  <2>1. sess[s].wpc = "select" /\ sess' = [sess EXCEPT ![s].rewrite = 0, ![s].wpc = w, ![s].batch = b]
    BY <1>18 DEF Rewrite
  <2>2. sess[s].epoch \in Epochs
    BY <2>1 DEF SessInv, SessOK
  <2>3. \A q \in DOMAIN log : q \in 0 .. MaxSeq /\ log[q] \in Nat
    <3>1. PICK p : p = proto[sess[s].epoch]
      OBVIOUS
    <3>2. ProtoOK(p) /\ log = p.down.log
      BY <2>2, <3>1 DEF ProtoInv
    <3> HIDE DEF log
    <3>3. /\ DOMAIN log = (p.down.acked + 1) .. p.down.next /\ p.down.next \in 0 .. MaxSeq /\ p.down.acked \in 0 .. p.down.next
          /\ \A q \in DOMAIN log : log[q] \in Nat
      BY <3>2 DEF ProtoOK
    <3> QED BY <3>3, Bounds
  <2> HIDE DEF log, seq
  <2>4. b \in Seq(Frames) /\ (w = "write" => b # << >>) /\ w \in {"write", "top"}
    BY <2>3 DEF Frames
  <2> HIDE DEF b, w
  <2> QED BY <2>1, <2>4 DEF SessInv, SessOK
<1>19. ASSUME NEW s \in Sessions, Write(s) PROVE SessInv'
  <2>1. sess[s].wpc = "write" /\ (Writer(s, "done", << >>) \/ Writer(s, "note", sess[s].batch))
    BY <1>19 DEF Write
  <2>2. sess[s].batch \in Seq(Frames) /\ sess[s].batch # << >>
    BY <2>1 DEF SessInv, SessOK
  <2>3. << >> \in Seq(Frames) /\ sess[s].wpc # "none"
    BY <2>1
  <2>4. CASE Writer(s, "done", << >>)
    BY <2>3, <2>4, WriterChange
  <2>5. CASE Writer(s, "note", sess[s].batch)
    BY <2>2, <2>3, <2>5, WriterChange
  <2> QED BY <2>1, <2>4, <2>5
<1>20. ASSUME NEW s \in Sessions, Written(s) PROVE SessInv'
  <2> DEFINE f == Head(sess[s].batch)
             rest == Tail(sess[s].batch)
             w == IF f[1] > sess[s].written THEN f[1] ELSE sess[s].written
             pc == IF rest = << >> THEN "top" ELSE "write"
  <2>1. sess[s].wpc = "note" /\ sess' = [sess EXCEPT ![s].written = w, ![s].batch = rest, ![s].wpc = pc]
    BY <1>20 DEF Written
  <2>2. sess[s].batch \in Seq(Frames) /\ sess[s].batch # << >> /\ sess[s].written \in Nat
    BY <2>1 DEF SessInv, SessOK
  <2>3. f \in Frames /\ rest \in Seq(Frames)
    BY <2>2
  <2>4. f[1] \in Nat
    <3> HIDE DEF f
    <3> QED BY <2>3, Bounds DEF Frames
  <2> HIDE DEF f, rest
  <2>5. w \in Nat /\ pc \in {"top", "write"} /\ (pc = "write" => rest # << >>)
    BY <2>2, <2>4
  <2> HIDE DEF w, pc
  <2> QED BY <2>1, <2>3, <2>5 DEF SessInv, SessOK
<1>21. ASSUME NEW s \in Sessions, HostReceives(s) PROVE SessInv'
  <2>1. sess' = sess
    BY <1>21 DEF HostReceives, histVars
  <2> QED BY <2>1 DEF SessInv, SessOK
<1>22. ASSUME NEW s \in Sessions, HostAcks(s) PROVE SessInv'
  <2>1. sess' = sess
    BY <1>22 DEF HostAcks, histVars
  <2> QED BY <2>1 DEF SessInv, SessOK
<1>23. CASE UNCHANGED vars
  BY <1>23 DEF vars, SessInv, SessOK
<1> QED
  BY <1>1, <1>2, <1>3, <1>4, <1>5, <1>6, <1>7, <1>8, <1>9, <1>10, <1>11, <1>12, <1>13,
     <1>14, <1>15, <1>16, <1>17, <1>18, <1>19, <1>20, <1>21, <1>22, <1>23 DEF Next,
     LoopStep, WriterStep

\* A session that has attached stays so, in its epoch.
LEMMA AttachedStay ==
  ASSUME SessInv, [Next]_vars
  PROVE  \A t \in Sessions : sess[t].pc # "new" => sess'[t].pc # "new" /\ sess'[t].epoch = sess[t].epoch
<1>1. ASSUME ViewChange PROVE \A t \in Sessions : sess[t].pc # "new" => sess'[t].pc # "new" /\ sess'[t].epoch = sess[t].epoch
  BY <1>1 DEF ViewChange, histVars, SessInv, SessOK
<1>2. ASSUME Notify PROVE \A t \in Sessions : sess[t].pc # "new" => sess'[t].pc # "new" /\ sess'[t].epoch = sess[t].epoch
  BY <1>2 DEF Notify, histVars, SessInv, SessOK
<1>3. ASSUME HostLeaves PROVE \A t \in Sessions : sess[t].pc # "new" => sess'[t].pc # "new" /\ sess'[t].epoch = sess[t].epoch
  BY <1>3 DEF HostLeaves, histVars, SessInv, SessOK
<1>4. ASSUME HostRestarts PROVE \A t \in Sessions : sess[t].pc # "new" => sess'[t].pc # "new" /\ sess'[t].epoch = sess[t].epoch
  BY <1>4 DEF HostRestarts, histVars, SessInv, SessOK
<1>5. ASSUME NEW c \in pushes, Push(c) PROVE \A t \in Sessions : sess[t].pc # "new" => sess'[t].pc # "new" /\ sess'[t].epoch = sess[t].epoch
  BY <1>5 DEF Push, histVars, SessInv, SessOK
<1>6. ASSUME NEW c \in pushes, AskRewrite(c) PROVE \A t \in Sessions : sess[t].pc # "new" => sess'[t].pc # "new" /\ sess'[t].epoch = sess[t].epoch
  BY <1>6 DEF AskRewrite, histVars, SessInv, SessOK
<1>7. ASSUME NEW s \in Sessions, Attach(s) PROVE \A t \in Sessions : sess[t].pc # "new" => sess'[t].pc # "new" /\ sess'[t].epoch = sess[t].epoch
  BY <1>7 DEF Attach, histVars, SessInv, SessOK
<1>8. ASSUME NEW s \in Sessions, Start(s) PROVE \A t \in Sessions : sess[t].pc # "new" => sess'[t].pc # "new" /\ sess'[t].epoch = sess[t].epoch
  <2>1. \A t \in Sessions : \/ sess'[t] = sess[t] \/ sess'[t] = [sess[t] EXCEPT !.stop = TRUE]
                            \/ sess'[t].pc = "idle" /\ sess'[t].epoch = sess[t].epoch
    <3> SUFFICES ASSUME NEW t \in Sessions
                 PROVE  \/ sess'[t] = sess[t] \/ sess'[t] = [sess[t] EXCEPT !.stop = TRUE]
                        \/ sess'[t].pc = "idle" /\ sess'[t].epoch = sess[t].epoch
      OBVIOUS
    <3>1. CASE t = s
      BY <1>8, <3>1 DEF Start, SessInv, SessOK
    <3>2. CASE t # s /\ t = sess[s].old
      BY <1>8, <3>2 DEF Start
    <3>3. CASE t # s /\ t # sess[s].old
      BY <1>8, <3>3 DEF Start
    <3> QED BY <3>1, <3>2, <3>3
  <2>2. \A t \in Sessions : sess[t].pc # "new" => [sess[t] EXCEPT !.stop = TRUE].pc # "new" /\ [sess[t] EXCEPT !.stop = TRUE].epoch = sess[t].epoch
    BY DEF SessInv, SessOK
  <2> QED BY <2>1, <2>2
<1>9. ASSUME NEW s \in Sessions, HandleAck(s) PROVE \A t \in Sessions : sess[t].pc # "new" => sess'[t].pc # "new" /\ sess'[t].epoch = sess[t].epoch
  BY <1>9 DEF HandleAck, histVars, SessInv, SessOK
<1>10. ASSUME NEW s \in Sessions, TakeResend(s) PROVE \A t \in Sessions : sess[t].pc # "new" => sess'[t].pc # "new" /\ sess'[t].epoch = sess[t].epoch
  BY <1>10 DEF TakeResend, histVars, SessInv, SessOK
<1>11. ASSUME NEW s \in Sessions, Close(s) PROVE \A t \in Sessions : sess[t].pc # "new" => sess'[t].pc # "new" /\ sess'[t].epoch = sess[t].epoch
  BY <1>11 DEF Close, histVars, SessInv, SessOK
<1>12. ASSUME NEW s \in Sessions, Detach(s) PROVE \A t \in Sessions : sess[t].pc # "new" => sess'[t].pc # "new" /\ sess'[t].epoch = sess[t].epoch
  BY <1>12 DEF Detach, histVars, SessInv, SessOK
<1>13. ASSUME NEW s \in Sessions, SendRequest(s) PROVE \A t \in Sessions : sess[t].pc # "new" => sess'[t].pc # "new" /\ sess'[t].epoch = sess[t].epoch
  BY <1>13 DEF SendRequest, histVars, SessInv, SessOK
<1>14. ASSUME NEW s \in Sessions, NEW q \in 1 .. MaxSeq, ExpireRequest(s, q) PROVE \A t \in Sessions : sess[t].pc # "new" => sess'[t].pc # "new" /\ sess'[t].epoch = sess[t].epoch
  BY <1>14 DEF ExpireRequest, histVars, SessInv, SessOK
<1>15. ASSUME NEW s \in Sessions, WriterTop(s) PROVE \A t \in Sessions : sess[t].pc # "new" => sess'[t].pc # "new" /\ sess'[t].epoch = sess[t].epoch
  <2>1. \E w, b : Writer(s, w, b)
    BY <1>15 DEF WriterTop
  <2>2. PICK w, b : sess' = [sess EXCEPT ![s].wpc = w, ![s].batch = b]
    BY <2>1 DEF Writer
  <2> QED BY <2>2 DEF SessInv, SessOK
<1>16. ASSUME NEW s \in Sessions, WriterWakes(s) PROVE \A t \in Sessions : sess[t].pc # "new" => sess'[t].pc # "new" /\ sess'[t].epoch = sess[t].epoch
  BY <1>16 DEF WriterWakes, Writer, histVars, SessInv, SessOK
<1>17. ASSUME NEW s \in Sessions, Replay(s) PROVE \A t \in Sessions : sess[t].pc # "new" => sess'[t].pc # "new" /\ sess'[t].epoch = sess[t].epoch
  BY <1>17 DEF Replay, Writer, histVars, SessInv, SessOK
<1>18. ASSUME NEW s \in Sessions, Rewrite(s) PROVE \A t \in Sessions : sess[t].pc # "new" => sess'[t].pc # "new" /\ sess'[t].epoch = sess[t].epoch
  BY <1>18 DEF Rewrite, histVars, SessInv, SessOK
<1>19. ASSUME NEW s \in Sessions, Write(s) PROVE \A t \in Sessions : sess[t].pc # "new" => sess'[t].pc # "new" /\ sess'[t].epoch = sess[t].epoch
  <2>1. \E w, b : Writer(s, w, b)
    BY <1>19 DEF Write
  <2>2. PICK w, b : sess' = [sess EXCEPT ![s].wpc = w, ![s].batch = b]
    BY <2>1 DEF Writer
  <2> QED BY <2>2 DEF SessInv, SessOK
<1>20. ASSUME NEW s \in Sessions, Written(s) PROVE \A t \in Sessions : sess[t].pc # "new" => sess'[t].pc # "new" /\ sess'[t].epoch = sess[t].epoch
  BY <1>20 DEF Written, histVars, SessInv, SessOK
<1>21. ASSUME NEW s \in Sessions, HostReceives(s) PROVE \A t \in Sessions : sess[t].pc # "new" => sess'[t].pc # "new" /\ sess'[t].epoch = sess[t].epoch
  BY <1>21 DEF HostReceives, histVars, SessInv, SessOK
<1>22. ASSUME NEW s \in Sessions, HostAcks(s) PROVE \A t \in Sessions : sess[t].pc # "new" => sess'[t].pc # "new" /\ sess'[t].epoch = sess[t].epoch
  BY <1>22 DEF HostAcks, histVars, SessInv, SessOK
<1>23. CASE UNCHANGED vars
  BY <1>23 DEF vars
<1> QED
  BY <1>1, <1>2, <1>3, <1>4, <1>5, <1>6, <1>7, <1>8, <1>9, <1>10, <1>11, <1>12, <1>13,
     <1>14, <1>15, <1>16, <1>17, <1>18, <1>19, <1>20, <1>21, <1>22, <1>23 DEF Next,
     LoopStep, WriterStep

\* Registration and pushes, when nothing new is pushed.
LEMMA RegKept ==
  ASSUME RegInv, SessInv, [Next]_vars, pushes' \subseteq pushes,
         DOMAIN reg' = DOMAIN reg, reg'.gen \in Nat,
         reg'.session = reg.session \/ reg'.session = None \/ (reg'.session \in Sessions /\ sess'[reg'.session].pc # "new")
  PROVE  RegInv'
<1>1. \A t \in Sessions : sess[t].pc # "new" => sess'[t].pc # "new"
  BY AttachedStay
<1> QED BY <1>1 DEF RegInv, Attached

\* ... and when one push is.
LEMMA RegPushed ==
  ASSUME RegInv, SessInv, [Next]_vars, reg'.gen \in Nat, DOMAIN reg' = DOMAIN reg, reg'.session = reg.session,
         NEW b, NEW s, Attached(s), NEW g \in Nat \ {0}, NEW q,
         \A c \in pushes' : c \in pushes \/ c = [by |-> b, sess |-> s, gen |-> g, seq |-> q]
  PROVE  RegInv'
<1>1. \A t \in Sessions : sess[t].pc # "new" => sess'[t].pc # "new"
  BY AttachedStay
<1>2. LET c == [by |-> b, sess |-> s, gen |-> g, seq |-> q]
      IN  DOMAIN c = {"by", "sess", "gen", "seq"} /\ c.gen = g /\ c.sess = s
  OBVIOUS
<1> QED BY <1>1, <1>2 DEF RegInv, Attached

\* Every step keeps registration and pushes in order.
LEMMA RegStep ==
  ASSUME ProtoInv, SessInv, RegInv, LinkInv, [Next]_vars
  PROVE  RegInv'
<1>1. ASSUME ViewChange PROVE RegInv'
  <2>1. PICK b \in BOOLEAN : reg' = [reg EXCEPT !.stale = b] /\ pushes' = pushes
    BY <1>1 DEF ViewChange
  <2>2. DOMAIN reg' = DOMAIN reg /\ reg'.gen = reg.gen /\ reg'.session = reg.session
    BY <2>1 DEF RegInv
  <2> QED BY <2>1, <2>2, RegKept DEF RegInv
<1>2. ASSUME Notify PROVE RegInv'
  <2>1. CASE reg.session = None
    BY <1>2, <2>1, RegKept DEF Notify, RegInv
  <2>2. CASE reg.session # None
    <3> DEFINE g == AudienceGen
    <3>1. reg' = [reg EXCEPT !.gen = g, !.stale = FALSE]
      BY <1>2, <2>2 DEF Notify
    <3>2. g \in Nat \ {0} /\ Attached(reg.session)
      BY <2>2 DEF AudienceGen, RegInv
    <3>3. \A c \in pushes' : c \in pushes \/ c = [by |-> None, sess |-> reg.session, gen |-> g, seq |-> 0]
      BY <1>2, <2>2 DEF Notify
    <3> HIDE DEF g
    <3>4. reg'.gen = g /\ DOMAIN reg' = DOMAIN reg /\ reg'.session = reg.session
      BY <3>1 DEF RegInv
    <3> QED BY <3>2, <3>3, <3>4, RegPushed
  <2> QED BY <2>1, <2>2
<1>3. ASSUME HostLeaves PROVE RegInv'
  <2>1. reg' = reg /\ pushes' \subseteq pushes
    BY <1>3 DEF HostLeaves, histVars
  <2> QED BY <2>1, RegKept DEF RegInv
<1>4. ASSUME HostRestarts PROVE RegInv'
  <2>1. reg' = reg /\ pushes' \subseteq pushes
    BY <1>4 DEF HostRestarts, histVars
  <2> QED BY <2>1, RegKept DEF RegInv
<1>5. ASSUME NEW c \in pushes, Push(c) PROVE RegInv'
  <2>0. reg' = reg /\ DOMAIN reg = DOMAIN reg' /\ reg.gen \in Nat
    BY <1>5 DEF Push, RegInv
  <2>1. DOMAIN c = {"by", "sess", "gen", "seq"} /\ c.gen \in Nat \ {0} /\ Attached(c.sess)
    BY DEF RegInv
  <2>2. \E q : \A d \in pushes' : d \in pushes \/ d = [c EXCEPT !.seq = q]
    BY <1>5 DEF Push
  <2>3. PICK q : \A d \in pushes' : d \in pushes \/ d = [c EXCEPT !.seq = q]
    BY <2>2
  <2>4. \A t \in Sessions : sess[t].pc # "new" => sess'[t].pc # "new"
    BY AttachedStay
  <2>5. DOMAIN [c EXCEPT !.seq = q] = DOMAIN c /\ [c EXCEPT !.seq = q].gen = c.gen /\ [c EXCEPT !.seq = q].sess = c.sess
    BY <2>1
  <2> QED BY <2>0, <2>1, <2>3, <2>4, <2>5 DEF RegInv, Attached
<1>6. ASSUME NEW c \in pushes, AskRewrite(c) PROVE RegInv'
  <2>1. reg' = reg /\ pushes' \subseteq pushes
    BY <1>6 DEF AskRewrite, histVars
  <2> QED BY <2>1, RegKept DEF RegInv
<1>7. ASSUME NEW s \in Sessions, Attach(s) PROVE RegInv'
  <2>1. reg' = [session |-> s, epoch |-> host.epoch, gen |-> AudienceGen, stale |-> FALSE] /\ pushes' = pushes
    BY <1>7 DEF Attach
  <2>2. AudienceGen \in Nat
    BY DEF AudienceGen, RegInv
  <2>3. sess'[s].pc = "hello"
    BY <1>7 DEF Attach, SessInv, NewSession
  <2>4. DOMAIN reg' = DOMAIN reg /\ reg'.gen = AudienceGen /\ reg'.session = s
    BY <2>1 DEF RegInv
  <2> QED BY <2>1, <2>2, <2>3, <2>4, RegKept
<1>8. ASSUME NEW s \in Sessions, Start(s) PROVE RegInv'
  <2>1. reg' = reg /\ pushes' \subseteq pushes
    BY <1>8 DEF Start, histVars
  <2> QED BY <2>1, RegKept DEF RegInv
<1>9. ASSUME NEW s \in Sessions, HandleAck(s) PROVE RegInv'
  <2>1. reg' = reg /\ pushes' \subseteq pushes
    BY <1>9 DEF HandleAck, histVars
  <2> QED BY <2>1, RegKept DEF RegInv
<1>10. ASSUME NEW s \in Sessions, TakeResend(s) PROVE RegInv'
  <2>1. reg' = reg /\ sess[s].pc = "take"
    BY <1>10 DEF TakeResend
  <2>2. CASE proto[sess[s].epoch].resend = 0
    <3>1. pushes' = pushes
      BY <1>10, <2>2 DEF TakeResend
    <3> QED BY <2>1, <3>1, RegKept DEF RegInv
  <2>3. CASE proto[sess[s].epoch].resend # 0
    <3> DEFINE g == proto[sess[s].epoch].resend
    <3>1. \A c \in pushes' : c \in pushes \/ c = [by |-> s, sess |-> s, gen |-> g, seq |-> 0]
      BY <1>10, <2>3 DEF TakeResend
    <3>2. sess[s].epoch \in Epochs /\ Attached(s)
      BY <2>1 DEF SessInv, SessOK, Attached
    <3>3. g \in Nat \ {0}
      BY <2>3, <3>2 DEF ProtoInv, ProtoOK
    <3> HIDE DEF g
    <3> QED BY <2>1, <3>1, <3>2, <3>3, RegPushed DEF RegInv
  <2> QED BY <2>2, <2>3
<1>11. ASSUME NEW s \in Sessions, Close(s) PROVE RegInv'
  <2>1. reg' = reg /\ pushes' \subseteq pushes
    BY <1>11 DEF Close, histVars
  <2> QED BY <2>1, RegKept DEF RegInv
<1>12. ASSUME NEW s \in Sessions, Detach(s) PROVE RegInv'
  <2>1. pushes' = pushes /\ reg' = IF reg.session = s THEN [reg EXCEPT !.session = None] ELSE reg
    BY <1>12 DEF Detach
  <2>2. DOMAIN reg' = DOMAIN reg /\ reg'.gen = reg.gen /\ reg'.session \in {reg.session, None}
    BY <2>1 DEF RegInv
  <2> QED BY <2>1, <2>2, RegKept DEF RegInv
<1>13. ASSUME NEW s \in Sessions, SendRequest(s) PROVE RegInv'
  <2>1. reg' = reg /\ pushes' \subseteq pushes
    BY <1>13 DEF SendRequest, histVars
  <2> QED BY <2>1, RegKept DEF RegInv
<1>14. ASSUME NEW s \in Sessions, NEW q \in 1 .. MaxSeq, ExpireRequest(s, q) PROVE RegInv'
  <2>1. reg' = reg /\ pushes' \subseteq pushes
    BY <1>14 DEF ExpireRequest, histVars
  <2> QED BY <2>1, RegKept DEF RegInv
<1>15. ASSUME NEW s \in Sessions, WriterTop(s) PROVE RegInv'
  <2>1. reg' = reg /\ pushes' \subseteq pushes
    BY <1>15 DEF WriterTop, Writer, histVars
  <2> QED BY <2>1, RegKept DEF RegInv
<1>16. ASSUME NEW s \in Sessions, WriterWakes(s) PROVE RegInv'
  <2>1. reg' = reg /\ pushes' \subseteq pushes
    BY <1>16 DEF WriterWakes, Writer, histVars
  <2> QED BY <2>1, RegKept DEF RegInv
<1>17. ASSUME NEW s \in Sessions, Replay(s) PROVE RegInv'
  <2>1. reg' = reg /\ pushes' \subseteq pushes
    BY <1>17 DEF Replay, Writer, histVars
  <2> QED BY <2>1, RegKept DEF RegInv
<1>18. ASSUME NEW s \in Sessions, Rewrite(s) PROVE RegInv'
  <2>1. reg' = reg /\ pushes' \subseteq pushes
    BY <1>18 DEF Rewrite, histVars
  <2> QED BY <2>1, RegKept DEF RegInv
<1>19. ASSUME NEW s \in Sessions, Write(s) PROVE RegInv'
  <2>1. reg' = reg /\ pushes' \subseteq pushes
    BY <1>19 DEF Write, Writer, histVars
  <2> QED BY <2>1, RegKept DEF RegInv
<1>20. ASSUME NEW s \in Sessions, Written(s) PROVE RegInv'
  <2>1. reg' = reg /\ pushes' \subseteq pushes
    BY <1>20 DEF Written, histVars
  <2> QED BY <2>1, RegKept DEF RegInv
<1>21. ASSUME NEW s \in Sessions, HostReceives(s) PROVE RegInv'
  <2>1. reg' = reg /\ pushes' \subseteq pushes
    BY <1>21 DEF HostReceives, histVars
  <2> QED BY <2>1, RegKept DEF RegInv
<1>22. ASSUME NEW s \in Sessions, HostAcks(s) PROVE RegInv'
  <2>1. reg' = reg /\ pushes' \subseteq pushes
    BY <1>22 DEF HostAcks, histVars
  <2> QED BY <2>1, RegKept DEF RegInv
<1>23. CASE UNCHANGED vars
  BY <1>23 DEF vars, RegInv, Attached
<1> QED
  BY <1>1, <1>2, <1>3, <1>4, <1>5, <1>6, <1>7, <1>8, <1>9, <1>10, <1>11, <1>12, <1>13,
     <1>14, <1>15, <1>16, <1>17, <1>18, <1>19, <1>20, <1>21, <1>22, <1>23 DEF Next,
     LoopStep, WriterStep
\* A nonempty set of naturals has a least element.
LEMMA LeastElement ==
  ASSUME NEW T \in SUBSET Nat, T # {}
  PROVE  \E m \in T : \A k \in T : m <= k
<1> DEFINE R == OpToRel(<, Nat)
<1>1. IsWellFoundedOn(R, Nat)
  BY NatLessThanWellFounded
<1>2. \A x, y \in Nat : << y, x >> \in R <=> y < x
  BY DEF OpToRel
<1> HIDE DEF R
<1>3. PICK m \in T : \A k \in T : ~(<< k, m >> \in R)
  BY <1>1, WFMin
<1>4. \A k \in T : m \in Nat /\ k \in Nat /\ ~(k < m)
  BY <1>2, <1>3
<1> QED BY <1>4

\* RunEnd is well defined when the parked numbers are bounded: it is the end of
\* the contiguous parked run behind n.
LEMMA RunEndIsEndOfRun ==
  ASSUME NEW buf, NEW n \in Nat, NEW top \in Nat, n <= top, DOMAIN buf \subseteq 0 .. top
  PROVE  LET k == RunEnd(buf, n)
         IN  k \in Nat /\ n <= k /\ k <= top /\ (\A q \in (n + 1) .. k : q \in DOMAIN buf) /\ k + 1 \notin DOMAIN buf
<1> DEFINE Missing == {m \in Nat : m > n /\ m \notin DOMAIN buf}
           Good(k) == n <= k /\ (n + 1) .. k \subseteq DOMAIN buf /\ k + 1 \notin DOMAIN buf
<1>1. Missing \in SUBSET Nat /\ top + 1 \in Missing
  OBVIOUS
<1>2. PICK m \in Missing : \A j \in Missing : m <= j
  BY <1>1, LeastElement
<1>3. m \in Nat /\ n < m /\ m \notin DOMAIN buf
  BY <1>2
<1>4. (n + 1) .. (m - 1) \subseteq DOMAIN buf
  BY <1>2, <1>3
<1>5. m - 1 \in {n} \cup DOMAIN buf /\ Good(m - 1)
  BY <1>3, <1>4
<1>6. \E k \in {n} \cup DOMAIN buf : Good(k)
  BY <1>5
<1>7. RunEnd(buf, n) \in {n} \cup DOMAIN buf /\ Good(RunEnd(buf, n))
  BY <1>6 DEF RunEnd
<1> QED BY <1>7

\* The receiver stays within the bound on seqs.
LEMMA ReceiverOK ==
  ASSUME NEW r, DOMAIN r = {"acked", "window", "buf"}, r.acked \in 0 .. MaxSeq, DOMAIN r.buf \subseteq 0 .. MaxSeq,
         NEW q \in 0 .. MaxSeq, NEW x, NEW a, a = AcceptReceiver(r, q, x)
  PROVE  DOMAIN a = {"acked", "window", "buf"} /\ a.acked \in 0 .. MaxSeq /\ DOMAIN a.buf \subseteq 0 .. MaxSeq
<1>0. MaxSeq \in Nat
  BY Bounds
<1>1. CASE IsNext(r, q)
  <2> DEFINE k == RunEnd(r.buf, q)
  <2>1. k \in Nat /\ k <= MaxSeq
    BY <1>0, RunEndIsEndOfRun
  <2>2. a = [acked |-> k, window |-> r.window, buf |-> [z \in {d \in DOMAIN r.buf : d > k} |-> r.buf[z]]]
    BY <1>1 DEF AcceptReceiver, DrainBehind
  <2> HIDE DEF k
  <2>3. DOMAIN a = {"acked", "window", "buf"} /\ a.acked = k /\ DOMAIN a.buf = {d \in DOMAIN r.buf : d > k}
    BY <2>2
  <2> QED BY <1>0, <2>1, <2>3
<1>2. CASE ~IsNext(r, q) /\ IsGap(r, q) /\ ~Overflows(r, q)
  <2>1. a = [acked |-> r.acked, window |-> r.window,
             buf |-> [z \in DOMAIN r.buf \cup {q} |-> IF z = q THEN x ELSE r.buf[z]]]
    BY <1>2 DEF AcceptReceiver, Park
  <2>2. DOMAIN a = {"acked", "window", "buf"} /\ a.acked = r.acked /\ DOMAIN a.buf = DOMAIN r.buf \cup {q}
    BY <2>1
  <2> QED BY <2>2
<1>3. CASE ~IsNext(r, q) /\ ~(IsGap(r, q) /\ ~Overflows(r, q))
  BY <1>3 DEF AcceptReceiver
<1> QED BY <1>1, <1>2, <1>3

\* Every step keeps transports and host in order.
LEMMA LinkStep ==
  ASSUME ProtoInv, SessInv, RegInv, LinkInv, [Next]_vars
  PROVE  LinkInv'
<1>1. ASSUME ViewChange PROVE LinkInv'
  <2>1. UNCHANGED << link, acks, host >>
    BY <1>1 DEF ViewChange, histVars
  <2> QED BY <2>1 DEF LinkInv
<1>2. ASSUME Notify PROVE LinkInv'
  <2>1. UNCHANGED << link, acks, host >>
    BY <1>2 DEF Notify, histVars
  <2> QED BY <2>1 DEF LinkInv
<1>3. ASSUME HostLeaves PROVE LinkInv'
  <2>1. link' = [link EXCEPT ![host.link] = << >>] /\ host' = [host EXCEPT !.link = None] /\ acks' = acks
    BY <1>3 DEF HostLeaves
  <2>2. << >> \in Seq(Frames)
    OBVIOUS
  <2> QED BY <2>1, <2>2 DEF LinkInv
<1>4. ASSUME HostRestarts PROVE LinkInv'
  <2>1. /\ host' = [epoch |-> host.epoch + 1, link |-> None, rcv |-> NewReceiver(0, MaxSeq), gen |-> 0]
        /\ host.epoch < MaxEpoch /\ UNCHANGED << link, acks >>
    BY <1>4 DEF HostRestarts
  <2>2. /\ DOMAIN NewReceiver(0, MaxSeq) = {"acked", "window", "buf"} /\ NewReceiver(0, MaxSeq).acked = 0
        /\ DOMAIN NewReceiver(0, MaxSeq).buf = {}
    BY DEF NewReceiver
  <2>3. host.epoch + 1 \in Epochs
    BY <2>1, Bounds DEF LinkInv, Epochs
  <2>4. /\ DOMAIN host' = {"epoch", "link", "rcv", "gen"} /\ host'.epoch = host.epoch + 1
        /\ host'.rcv = NewReceiver(0, MaxSeq)
    BY <2>1
  <2> QED BY <2>1, <2>2, <2>3, <2>4, Bounds DEF LinkInv
<1>5. ASSUME NEW c \in pushes, Push(c) PROVE LinkInv'
  <2>1. UNCHANGED << link, acks, host >>
    BY <1>5 DEF Push, histVars
  <2> QED BY <2>1 DEF LinkInv
<1>6. ASSUME NEW c \in pushes, AskRewrite(c) PROVE LinkInv'
  <2>1. UNCHANGED << link, acks, host >>
    BY <1>6 DEF AskRewrite, histVars
  <2> QED BY <2>1 DEF LinkInv
<1>7. ASSUME NEW s \in Sessions, Attach(s) PROVE LinkInv'
  <2>1. host' = [host EXCEPT !.link = s] /\ UNCHANGED << link, acks >>
    BY <1>7 DEF Attach
  <2> QED BY <2>1 DEF LinkInv
<1>8. ASSUME NEW s \in Sessions, Start(s) PROVE LinkInv'
  <2>1. link' = (IF host.link = s THEN [link EXCEPT ![s] = << << 0, sess[s].aud >> >>] ELSE link) /\ UNCHANGED << host, acks >>
    BY <1>8 DEF Start
  <2>2. << 0, sess[s].aud >> \in Frames
    BY Bounds DEF SessInv, SessOK, Frames
  <2>3. << << 0, sess[s].aud >> >> \in Seq(Frames)
    BY <2>2
  <2> QED BY <2>1, <2>3 DEF LinkInv
<1>9. ASSUME NEW s \in Sessions, HandleAck(s) PROVE LinkInv'
  <2>1. UNCHANGED << link, acks, host >>
    BY <1>9 DEF HandleAck, histVars
  <2> QED BY <2>1 DEF LinkInv
<1>10. ASSUME NEW s \in Sessions, TakeResend(s) PROVE LinkInv'
  <2>1. UNCHANGED << link, acks, host >>
    BY <1>10 DEF TakeResend, histVars
  <2> QED BY <2>1 DEF LinkInv
<1>11. ASSUME NEW s \in Sessions, Close(s) PROVE LinkInv'
  <2>1. UNCHANGED << link, acks, host >>
    BY <1>11 DEF Close, histVars
  <2> QED BY <2>1 DEF LinkInv
<1>12. ASSUME NEW s \in Sessions, Detach(s) PROVE LinkInv'
  <2>1. /\ host' = (IF host.link = s THEN [host EXCEPT !.link = None] ELSE host)
        /\ link' = [link EXCEPT ![s] = << >>] /\ acks' = [acks EXCEPT ![s] = 0]
    BY <1>12 DEF Detach
  <2>2. << >> \in Seq(Frames)
    OBVIOUS
  <2> QED BY <2>1, <2>2 DEF LinkInv
<1>13. ASSUME NEW s \in Sessions, SendRequest(s) PROVE LinkInv'
  <2>1. UNCHANGED << link, acks, host >>
    BY <1>13 DEF SendRequest, histVars
  <2> QED BY <2>1 DEF LinkInv
<1>14. ASSUME NEW s \in Sessions, NEW q \in 1 .. MaxSeq, ExpireRequest(s, q) PROVE LinkInv'
  <2>1. UNCHANGED << link, acks, host >>
    BY <1>14 DEF ExpireRequest, histVars
  <2> QED BY <2>1 DEF LinkInv
<1>15. ASSUME NEW s \in Sessions, WriterTop(s) PROVE LinkInv'
  <2>1. UNCHANGED << link, acks, host >>
    BY <1>15 DEF WriterTop, Writer, histVars
  <2> QED BY <2>1 DEF LinkInv
<1>16. ASSUME NEW s \in Sessions, WriterWakes(s) PROVE LinkInv'
  <2>1. UNCHANGED << link, acks, host >>
    BY <1>16 DEF WriterWakes, Writer, histVars
  <2> QED BY <2>1 DEF LinkInv
<1>17. ASSUME NEW s \in Sessions, Replay(s) PROVE LinkInv'
  <2>1. UNCHANGED << link, acks, host >>
    BY <1>17 DEF Replay, Writer, histVars
  <2> QED BY <2>1 DEF LinkInv
<1>18. ASSUME NEW s \in Sessions, Rewrite(s) PROVE LinkInv'
  <2>1. UNCHANGED << link, acks, host >>
    BY <1>18 DEF Rewrite, histVars
  <2> QED BY <2>1 DEF LinkInv
<1>19. ASSUME NEW s \in Sessions, Write(s) PROVE LinkInv'
  <2>1. UNCHANGED << host, acks >> /\ (link' = link \/ link' = [link EXCEPT ![s] = Append(link[s], Head(sess[s].batch))]) /\ sess[s].wpc = "write"
    BY <1>19 DEF Write
  <2>2. sess[s].batch \in Seq(Frames) /\ sess[s].batch # << >>
    BY <2>1 DEF SessInv, SessOK
  <2>3. Head(sess[s].batch) \in Frames
    BY <2>2
  <2>4. Append(link[s], Head(sess[s].batch)) \in Seq(Frames)
    BY <2>3 DEF LinkInv
  <2> QED BY <2>1, <2>4 DEF LinkInv
<1>20. ASSUME NEW s \in Sessions, Written(s) PROVE LinkInv'
  <2>1. UNCHANGED << link, acks, host >>
    BY <1>20 DEF Written, histVars
  <2> QED BY <2>1 DEF LinkInv
<1>21. ASSUME NEW s \in Sessions, HostReceives(s) PROVE LinkInv'
  <2> DEFINE f == Head(link[s])
             r == AcceptReceiver(host.rcv, f[1], f[2])
  <2>1. link[s] # << >> /\ link' = [link EXCEPT ![s] = Tail(link[s])] /\ acks' = acks
    BY <1>21 DEF HostReceives
  <2>2. \E g : host' = [host EXCEPT !.rcv = r, !.gen = g]
    BY <1>21 DEF HostReceives
  <2>3. f \in Frames /\ Tail(link[s]) \in Seq(Frames)
    BY <2>1 DEF LinkInv
  <2>4. f[1] \in 0 .. MaxSeq
    <3> HIDE DEF f
    <3> QED BY <2>3 DEF Frames
  <2> HIDE DEF f
  <2>5. DOMAIN r = {"acked", "window", "buf"} /\ r.acked \in 0 .. MaxSeq /\ DOMAIN r.buf \subseteq 0 .. MaxSeq
    BY <2>4, ReceiverOK DEF LinkInv
  <2> HIDE DEF r
  <2> QED BY <2>1, <2>2, <2>3, <2>5 DEF LinkInv
<1>22. ASSUME NEW s \in Sessions, HostAcks(s) PROVE LinkInv'
  <2>1. acks' = [acks EXCEPT ![s] = host.rcv.acked] /\ UNCHANGED << link, host >>
    BY <1>22 DEF HostAcks
  <2> QED BY <2>1, Bounds DEF LinkInv
<1>23. CASE UNCHANGED vars
  BY <1>23 DEF vars, LinkInv
<1> QED
  BY <1>1, <1>2, <1>3, <1>4, <1>5, <1>6, <1>7, <1>8, <1>9, <1>10, <1>11, <1>12, <1>13,
     <1>14, <1>15, <1>16, <1>17, <1>18, <1>19, <1>20, <1>21, <1>22, <1>23 DEF Next,
     LoopStep, WriterStep

\* What every step does to what is written.
LEMMA WrittenChange ==
  ASSUME ProtoInv, SessInv, RegInv, LinkInv, WrittenInv, [Next]_vars
  PROVE  WrittenDelta
<1>1. ASSUME ViewChange PROVE WrittenDelta
  <2>1. UNCHANGED << proto, sess, handed, expired >>
    BY <1>1 DEF ViewChange, histVars
  <2> QED BY <2>1 DEF WrittenInv, WrittenDelta
<1>2. ASSUME Notify PROVE WrittenDelta
  <2>1. UNCHANGED << proto, sess, handed, expired >>
    BY <1>2 DEF Notify, histVars
  <2> QED BY <2>1 DEF WrittenInv, WrittenDelta
<1>3. ASSUME HostLeaves PROVE WrittenDelta
  <2>1. UNCHANGED << proto, sess, handed, expired >>
    BY <1>3 DEF HostLeaves, histVars
  <2> QED BY <2>1 DEF WrittenInv, WrittenDelta
<1>4. ASSUME HostRestarts PROVE WrittenDelta
  <2>1. UNCHANGED << proto, sess, handed, expired >>
    BY <1>4 DEF HostRestarts, histVars
  <2> QED BY <2>1 DEF WrittenInv, WrittenDelta
<1>5. ASSUME NEW c \in pushes, Push(c) PROVE WrittenDelta
  <2>1. CASE Finished(c.sess)
    BY <1>5, <2>1 DEF Push, WrittenInv, WrittenDelta, histVars
  <2>2. CASE ~Finished(c.sess)
    <3> DEFINE e == sess[c.sess].epoch
               p == PushProto(proto[e], c.gen)
    <3>1. proto' = [proto EXCEPT ![e] = p] /\ UNCHANGED << sess, handed, expired >>
      BY <1>5, <2>2 DEF Push, histVars
    <3>2. e \in Epochs /\ c.gen \in Nat \ {0}
      BY DEF RegInv, Attached, SessInv, SessOK
    <3>3. ProtoOK(proto[e]) /\ proto[e].down.next < MaxSeq
      BY <1>5, <3>2 DEF Push, RoomInLog, ProtoInv
    <3> HIDE DEF e
    <3>4. Armed(p) \subseteq Armed(proto[e])
      BY <3>2, <3>3, PushOK
    <3> HIDE DEF p
    <3>5. \A x \in Epochs : proto'[x] = IF x = e THEN p ELSE proto[x]
      BY <3>1 DEF ProtoInv
    <3>6. \A x \in Epochs : Armed(proto'[x]) \subseteq Armed(proto[x])
      BY <3>4, <3>5
    <3> QED BY <3>1, <3>6 DEF WrittenInv, WrittenDelta
  <2> QED BY <2>1, <2>2
<1>6. ASSUME NEW c \in pushes, AskRewrite(c) PROVE WrittenDelta
  <2>1. UNCHANGED << proto, handed, expired >>
    BY <1>6 DEF AskRewrite, histVars
  <2>2. \A t \in Sessions : /\ sess'[t].pc = "new" => sess[t].pc = "new"
                            /\ sess'[t].wpc = "note" => sess[t].wpc = "note" /\ sess'[t].batch = sess[t].batch
    <3>1. CASE sess' = sess
      BY <3>1
    <3>2. CASE sess' = [sess EXCEPT ![c.sess].rewrite = c.seq]
      BY <3>2 DEF SessInv, SessOK
    <3> QED BY <1>6, <3>1, <3>2 DEF AskRewrite
  <2> QED BY <2>1, <2>2 DEF WrittenInv, WrittenDelta
<1>7. ASSUME NEW s \in Sessions, Attach(s) PROVE WrittenDelta
  <2> DEFINE e == host.epoch
             p == IF reg.epoch = e THEN AttachProto(proto[e], host.rcv.acked) ELSE NewProto
  <2>1. proto' = [proto EXCEPT ![e] = p]
    BY <1>7 DEF Attach, histVars
  <2>2. e \in Epochs => Armed(p) \subseteq Armed(proto[e])
    <3> SUFFICES ASSUME e \in Epochs PROVE Armed(p) \subseteq Armed(proto[e])
      OBVIOUS
    <3>1. host.rcv.acked \in Nat
      BY Bounds DEF LinkInv
    <3>2. ProtoOK(proto[e])
      BY DEF ProtoInv
    <3>3. CASE reg.epoch = e
      <4> HIDE DEF e
      <4>1. p = AttachProto(proto[e], host.rcv.acked)
        BY <3>3
      <4> QED BY <3>1, <3>2, <4>1, AttachProtoOK
    <3>4. CASE reg.epoch # e
      <4> HIDE DEF e
      <4>1. p = NewProto
        BY <3>4
      <4> QED BY <4>1, NewProtoOK
    <3> QED BY <3>3, <3>4
  <2> HIDE DEF e, p
  <2>3. \A x \in Epochs : \A q \in Armed(proto'[x]) : q \in Armed(proto[x])
    <3> SUFFICES ASSUME NEW x \in Epochs, NEW q \in Armed(proto'[x]) PROVE q \in Armed(proto[x])
      OBVIOUS
    <3>1. proto'[x] = (IF x = e THEN p ELSE proto[x])
      BY <2>1 DEF ProtoInv
    <3> QED BY <2>2, <3>1
  <2>4. UNCHANGED << handed, expired >>
    BY <1>7 DEF Attach, histVars
  <2>5. \A t \in Sessions : /\ sess'[t].pc = "new" => sess[t].pc = "new"
                            /\ sess'[t].wpc = "note" => sess[t].wpc = "note" /\ sess'[t].batch = sess[t].batch
    BY <1>7 DEF Attach, histVars, SessInv, SessOK, NewSession
  <2> QED BY <2>3, <2>4, <2>5 DEF WrittenInv, WrittenDelta
<1>8. ASSUME NEW s \in Sessions, Start(s) PROVE WrittenDelta
  <2>1. UNCHANGED << proto, handed, expired >>
    BY <1>8 DEF Start, histVars
  <2>2. \A t \in Sessions : /\ sess'[t].pc = "new" => sess[t].pc = "new"
                            /\ sess'[t].wpc = "note" => sess[t].wpc = "note" /\ sess'[t].batch = sess[t].batch
    <3> SUFFICES ASSUME NEW t \in Sessions
                 PROVE  /\ sess'[t].pc = "new" => sess[t].pc = "new"
                        /\ sess'[t].wpc = "note" => sess[t].wpc = "note" /\ sess'[t].batch = sess[t].batch
      OBVIOUS
    <3>1. CASE t = s
      BY <1>8, <3>1 DEF Start, SessInv, SessOK
    <3>2. CASE t # s /\ t = sess[s].old
      <4>1. sess'[t] = [sess[t] EXCEPT !.stop = TRUE]
        BY <1>8, <3>2 DEF Start
      <4> QED BY <4>1 DEF SessInv, SessOK
    <3>3. CASE t # s /\ t # sess[s].old
      BY <1>8, <3>3 DEF Start
    <3> QED BY <3>1, <3>2, <3>3
  <2> QED BY <2>1, <2>2 DEF WrittenInv, WrittenDelta
<1>9. ASSUME NEW s \in Sessions, HandleAck(s) PROVE WrittenDelta
  <2> DEFINE e == sess[s].epoch
             p == AckDown(proto[e], acks[s])
  <2>1. proto' = [proto EXCEPT ![e] = p]
    BY <1>9 DEF HandleAck, histVars
  <2>2. e \in Epochs => Armed(p) \subseteq Armed(proto[e])
    BY AckDownOK DEF ProtoInv, LinkInv
  <2> HIDE DEF e, p
  <2>3. \A x \in Epochs : \A q \in Armed(proto'[x]) : q \in Armed(proto[x])
    <3> SUFFICES ASSUME NEW x \in Epochs, NEW q \in Armed(proto'[x]) PROVE q \in Armed(proto[x])
      OBVIOUS
    <3>1. proto'[x] = (IF x = e THEN p ELSE proto[x])
      BY <2>1 DEF ProtoInv
    <3> QED BY <2>2, <3>1
  <2>4. UNCHANGED << handed, expired >>
    BY <1>9 DEF HandleAck, histVars
  <2>5. \A t \in Sessions : /\ sess'[t].pc = "new" => sess[t].pc = "new"
                            /\ sess'[t].wpc = "note" => sess[t].wpc = "note" /\ sess'[t].batch = sess[t].batch
    BY <1>9 DEF HandleAck, histVars, SessInv, SessOK
  <2> QED BY <2>3, <2>4, <2>5 DEF WrittenInv, WrittenDelta
<1>10. ASSUME NEW s \in Sessions, TakeResend(s) PROVE WrittenDelta
  <2> DEFINE e == sess[s].epoch
             p == [proto[e] EXCEPT !.resend = 0]
  <2>1. proto' = [proto EXCEPT ![e] = p]
    BY <1>10 DEF TakeResend, histVars
  <2>2. e \in Epochs => Armed(p) \subseteq Armed(proto[e])
    BY ResendOK DEF ProtoInv
  <2> HIDE DEF e, p
  <2>3. \A x \in Epochs : \A q \in Armed(proto'[x]) : q \in Armed(proto[x])
    <3> SUFFICES ASSUME NEW x \in Epochs, NEW q \in Armed(proto'[x]) PROVE q \in Armed(proto[x])
      OBVIOUS
    <3>1. proto'[x] = (IF x = e THEN p ELSE proto[x])
      BY <2>1 DEF ProtoInv
    <3> QED BY <2>2, <3>1
  <2>4. UNCHANGED << handed, expired >>
    BY <1>10 DEF TakeResend, histVars
  <2>5. \A t \in Sessions : /\ sess'[t].pc = "new" => sess[t].pc = "new"
                            /\ sess'[t].wpc = "note" => sess[t].wpc = "note" /\ sess'[t].batch = sess[t].batch
    BY <1>10 DEF TakeResend, histVars, SessInv, SessOK
  <2> QED BY <2>3, <2>4, <2>5 DEF WrittenInv, WrittenDelta
<1>11. ASSUME NEW s \in Sessions, Close(s) PROVE WrittenDelta
  <2>1. UNCHANGED << proto, handed, expired >>
    BY <1>11 DEF Close, histVars
  <2>2. \A t \in Sessions : /\ sess'[t].pc = "new" => sess[t].pc = "new"
                            /\ sess'[t].wpc = "note" => sess[t].wpc = "note" /\ sess'[t].batch = sess[t].batch
    BY <1>11 DEF Close, histVars, SessInv, SessOK
  <2> QED BY <2>1, <2>2 DEF WrittenInv, WrittenDelta
<1>12. ASSUME NEW s \in Sessions, Detach(s) PROVE WrittenDelta
  <2>1. UNCHANGED << proto, handed, expired >>
    BY <1>12 DEF Detach, histVars
  <2>2. \A t \in Sessions : /\ sess'[t].pc = "new" => sess[t].pc = "new"
                            /\ sess'[t].wpc = "note" => sess[t].wpc = "note" /\ sess'[t].batch = sess[t].batch
    BY <1>12 DEF Detach, histVars, SessInv, SessOK
  <2> QED BY <2>1, <2>2 DEF WrittenInv, WrittenDelta
<1>13. ASSUME NEW s \in Sessions, SendRequest(s) PROVE WrittenDelta
  <2> DEFINE e == sess[s].epoch
             p == DispatchRequest(proto[e])
  <2>1. proto' = [proto EXCEPT ![e] = p] /\ RoomInLog(e)
    BY <1>13 DEF SendRequest, histVars
  <2>2. e \in Epochs => Armed(p) \subseteq Armed(proto[e])
    BY <2>1, DispatchRequestOK DEF ProtoInv, RoomInLog
  <2> HIDE DEF e, p
  <2>3. \A x \in Epochs : \A q \in Armed(proto'[x]) : q \in Armed(proto[x])
    <3> SUFFICES ASSUME NEW x \in Epochs, NEW q \in Armed(proto'[x]) PROVE q \in Armed(proto[x])
      OBVIOUS
    <3>1. proto'[x] = (IF x = e THEN p ELSE proto[x])
      BY <2>1 DEF ProtoInv
    <3> QED BY <2>2, <3>1
  <2>4. UNCHANGED << handed, expired >>
    BY <1>13 DEF SendRequest, histVars
  <2>5. \A t \in Sessions : /\ sess'[t].pc = "new" => sess[t].pc = "new"
                            /\ sess'[t].wpc = "note" => sess[t].wpc = "note" /\ sess'[t].batch = sess[t].batch
    BY <1>13 DEF SendRequest, histVars, SessInv, SessOK
  <2> QED BY <2>3, <2>4, <2>5 DEF WrittenInv, WrittenDelta
<1>14. ASSUME NEW s \in Sessions, NEW q \in 1 .. MaxSeq, ExpireRequest(s, q) PROVE WrittenDelta
  <2> DEFINE e == sess[s].epoch
             p == [proto[e] EXCEPT !.reqAcks = [x \in DOMAIN @ \ {q} |-> @[x]]]
  <2>1. sess[s].pc = "idle" /\ expired' = expired \cup {<< e, q >>} /\ UNCHANGED << sess, handed >>
    BY <1>14 DEF ExpireRequest
  <2>2. e \in Epochs
    BY <2>1 DEF SessInv, SessOK
  <2>3. proto' = [proto EXCEPT ![e] = p]
    BY <1>14, <2>2 DEF ExpireRequest, ProtoInv, ProtoOK
  <2>4. Armed(p) \subseteq Armed(proto[e])
    BY <2>2, ExpireOK DEF ProtoInv
  <2>5. q \in Armed(proto[e])
    BY <1>14 DEF ExpireRequest, Armed
  <2> HIDE DEF e, p
  <2>6. HasWritten(e, q)
    BY <2>2, <2>5 DEF WrittenInv
  <2>7. \A x \in Epochs : proto'[x] = IF x = e THEN p ELSE proto[x]
    BY <2>3 DEF ProtoInv
  <2>8. \A x \in Epochs : Armed(proto'[x]) \subseteq Armed(proto[x])
    BY <2>4, <2>7
  <2>9. \A x \in expired' : x \in expired \/ HasWritten(x[1], x[2])
    BY <2>1, <2>6
  <2> QED BY <2>1, <2>8, <2>9 DEF WrittenInv, WrittenDelta
<1>15. ASSUME NEW s \in Sessions, WriterTop(s) PROVE WrittenDelta
  <2>1. UNCHANGED << proto, handed, expired >>
    BY <1>15 DEF WriterTop, Writer, histVars
  <2>2. \A t \in Sessions : /\ sess'[t].pc = "new" => sess[t].pc = "new"
                            /\ sess'[t].wpc = "note" => sess[t].wpc = "note" /\ sess'[t].batch = sess[t].batch
    <3>1. PICK w, b : w # "note" /\ sess' = [sess EXCEPT ![s].wpc = w, ![s].batch = b]
      BY <1>15 DEF WriterTop, Writer, histVars
    <3> QED BY <3>1 DEF SessInv, SessOK
  <2> QED BY <2>1, <2>2 DEF WrittenInv, WrittenDelta
<1>16. ASSUME NEW s \in Sessions, WriterWakes(s) PROVE WrittenDelta
  <2>1. UNCHANGED << proto, handed, expired >>
    BY <1>16 DEF WriterWakes, Writer, histVars
  <2>2. \A t \in Sessions : /\ sess'[t].pc = "new" => sess[t].pc = "new"
                            /\ sess'[t].wpc = "note" => sess[t].wpc = "note" /\ sess'[t].batch = sess[t].batch
    <3>1. PICK w, b : w # "note" /\ sess' = [sess EXCEPT ![s].wpc = w, ![s].batch = b]
      BY <1>16 DEF WriterWakes, Writer, histVars
    <3> QED BY <3>1 DEF SessInv, SessOK
  <2> QED BY <2>1, <2>2 DEF WrittenInv, WrittenDelta
<1>17. ASSUME NEW s \in Sessions, Replay(s) PROVE WrittenDelta
  <2>1. UNCHANGED << proto, handed, expired >>
    BY <1>17 DEF Replay, Writer, histVars
  <2>2. \A t \in Sessions : /\ sess'[t].pc = "new" => sess[t].pc = "new"
                            /\ sess'[t].wpc = "note" => sess[t].wpc = "note" /\ sess'[t].batch = sess[t].batch
    <3>1. PICK w, b : w # "note" /\ sess' = [sess EXCEPT ![s].wpc = w, ![s].batch = b]
      BY <1>17 DEF Replay, Writer, histVars
    <3> QED BY <3>1 DEF SessInv, SessOK
  <2> QED BY <2>1, <2>2 DEF WrittenInv, WrittenDelta
<1>18. ASSUME NEW s \in Sessions, Rewrite(s) PROVE WrittenDelta
  <2>1. UNCHANGED << proto, handed, expired >>
    BY <1>18 DEF Rewrite, histVars
  <2>2. \A t \in Sessions : /\ sess'[t].pc = "new" => sess[t].pc = "new"
                            /\ sess'[t].wpc = "note" => sess[t].wpc = "note" /\ sess'[t].batch = sess[t].batch
    BY <1>18 DEF Rewrite, histVars, SessInv, SessOK
  <2> QED BY <2>1, <2>2 DEF WrittenInv, WrittenDelta
<1>19. ASSUME NEW s \in Sessions, Write(s) PROVE WrittenDelta
  <2>1. UNCHANGED << proto, expired >> /\ sess[s].wpc = "write"
    BY <1>19 DEF Write
  <2>2. sess[s].pc # "new" /\ DOMAIN sess = Sessions
    BY <2>1 DEF SessInv, SessOK
  <2>3. CASE sess[s].stop
    <3>1. handed' = handed /\ sess' = [sess EXCEPT ![s].wpc = "done", ![s].batch = << >>]
      BY <1>19, <2>3 DEF Write, Writer
    <3>2. \A t \in Sessions : /\ sess'[t].pc = "new" => sess[t].pc = "new"
                              /\ sess'[t].wpc = "note" => sess[t].wpc = "note" /\ sess'[t].batch = sess[t].batch
      BY <3>1 DEF SessInv, SessOK
    <3> QED BY <2>1, <3>1, <3>2 DEF WrittenInv, WrittenDelta
  <2>4. CASE ~sess[s].stop
    <3>1. /\ handed' = [handed EXCEPT ![s] = handed[s] \cup {Head(sess[s].batch)[1]}]
          /\ sess' = [sess EXCEPT ![s].wpc = "note", ![s].batch = sess[s].batch]
      BY <1>19, <2>4 DEF Write, Writer
    <3>2. /\ \A t \in Sessions : t # s => sess'[t] = sess[t] /\ handed'[t] = handed[t]
          /\ sess'[s].pc = sess[s].pc /\ sess'[s].batch = sess[s].batch
          /\ handed'[s] = handed[s] \cup {Head(sess[s].batch)[1]} /\ DOMAIN handed' = Sessions
      BY <3>1 DEF SessInv, SessOK, WrittenInv
    <3>3. \A t \in Sessions : /\ handed[t] \subseteq handed'[t]
                              /\ sess'[t].pc = "new" => handed'[t] = {}
                              /\ sess'[t].wpc = "note" => Head(sess'[t].batch)[1] \in handed'[t]
      <4> SUFFICES ASSUME NEW t \in Sessions
                   PROVE  /\ handed[t] \subseteq handed'[t]
                          /\ sess'[t].pc = "new" => handed'[t] = {}
                          /\ sess'[t].wpc = "note" => Head(sess'[t].batch)[1] \in handed'[t]
        OBVIOUS
      <4>1. CASE t = s
        BY <2>2, <3>2, <4>1
      <4>2. CASE t # s
        BY <3>2, <4>2 DEF WrittenInv
      <4> QED BY <4>1, <4>2
    <3> QED BY <2>1, <3>2, <3>3 DEF WrittenInv, WrittenDelta
  <2> QED BY <2>3, <2>4
<1>20. ASSUME NEW s \in Sessions, Written(s) PROVE WrittenDelta
  <2> DEFINE e == sess[s].epoch
             f == Head(sess[s].batch)
             p == NoteWritten(proto[e], f[1], f[2])
  <2>1. proto' = [proto EXCEPT ![e] = p] /\ sess[s].wpc = "note" /\ UNCHANGED << handed, expired >>
    BY <1>20 DEF Written, histVars
  <2>2. SessOK(sess[s])
    BY DEF SessInv
  <2>3. e \in Epochs /\ sess[s].batch \in Seq(Frames) /\ sess[s].batch # << >>
    BY <2>1, <2>2 DEF SessOK
  <2>4. f \in Frames
    BY <2>3
  <2>5. f[2] \in Nat
    BY <2>4 DEF Frames
  <2>6. HasWritten(e, f[1])
    BY <2>1 DEF HasWritten, WrittenInv
  <2>7. \A t \in Sessions : /\ sess'[t].pc = "new" => sess[t].pc = "new"
                            /\ sess'[t].wpc = "note" => sess[t].wpc = "note" /\ sess'[t].batch = sess[t].batch
    BY <1>20 DEF Written, SessInv, SessOK
  <2> HIDE DEF f
  <2>8. Armed(p) \subseteq Armed(proto[e]) \cup {f[1]}
    BY <2>3, <2>5, NoteWrittenOK DEF ProtoInv
  <2> HIDE DEF e, p
  <2>9. \A x \in Epochs : proto'[x] = IF x = e THEN p ELSE proto[x]
    BY <2>1 DEF ProtoInv
  <2>10. \A x \in Epochs : \A q \in Armed(proto'[x]) : q \in Armed(proto[x]) \/ HasWritten(x, q)
    BY <2>6, <2>8, <2>9
  <2> QED BY <2>1, <2>7, <2>10 DEF WrittenInv, WrittenDelta
<1>21. ASSUME NEW s \in Sessions, HostReceives(s) PROVE WrittenDelta
  <2>1. UNCHANGED << proto, sess, handed, expired >>
    BY <1>21 DEF HostReceives, histVars
  <2> QED BY <2>1 DEF WrittenInv, WrittenDelta
<1>22. ASSUME NEW s \in Sessions, HostAcks(s) PROVE WrittenDelta
  <2>1. UNCHANGED << proto, sess, handed, expired >>
    BY <1>22 DEF HostAcks, histVars
  <2> QED BY <2>1 DEF WrittenInv, WrittenDelta
<1>23. CASE UNCHANGED vars
  BY <1>23 DEF vars, histVars, WrittenInv, WrittenDelta
<1> QED
  BY <1>1, <1>2, <1>3, <1>4, <1>5, <1>6, <1>7, <1>8, <1>9, <1>10, <1>11, <1>12, <1>13,
     <1>14, <1>15, <1>16, <1>17, <1>18, <1>19, <1>20, <1>21, <1>22, <1>23 DEF Next,
     LoopStep, WriterStep

\* Every step keeps it that only written requests expire.
LEMMA WrittenStep ==
  ASSUME ProtoInv, SessInv, RegInv, LinkInv, WrittenInv, [Next]_vars
  PROVE  WrittenInv'
<1>1. WrittenDelta
  BY WrittenChange
<1>2. \A t \in Sessions : sess[t].pc # "new" => sess'[t].pc # "new" /\ sess'[t].epoch = sess[t].epoch
  BY AttachedStay
<1>3. ASSUME NEW e, NEW q, HasWritten(e, q) PROVE HasWritten(e, q)'
  <2>1. PICK s \in Sessions : sess[s].epoch = e /\ q \in handed[s]
    BY <1>3 DEF HasWritten
  <2>2. sess[s].pc # "new" /\ q \in handed'[s]
    BY <1>1, <2>1 DEF WrittenInv, WrittenDelta
  <2> QED BY <1>2, <2>1, <2>2 DEF HasWritten
<1>4. \A e \in Epochs : \A q \in Armed(proto'[e]) : HasWritten(e, q)'
  BY <1>1, <1>3 DEF WrittenInv, WrittenDelta
<1>5. \A x \in expired' : HasWritten(x[1], x[2])
  BY <1>1 DEF WrittenInv, WrittenDelta
<1>6. \A x \in expired' : HasWritten(x[1], x[2])'
  BY <1>3, <1>5
<1> QED BY <1>1, <1>4, <1>6 DEF WrittenInv, WrittenDelta, Armed

-----------------------------------------------------------------------------
(* The theorems. *)

\* All the parts together are inductive.
DownLinkInv == ProtoInv /\ SessInv /\ RegInv /\ LinkInv /\ WrittenInv

\* A hub without sessions has nothing logged.
LEMMA InitDownLink == Init => DownLinkInv
<1> SUFFICES ASSUME Init PROVE DownLinkInv
  OBVIOUS
<1>1. ProtoInv
  BY NewProtoOK DEF Init, ProtoInv
<1>2. SessInv
  <2>1. sess = [s \in Sessions |-> NewSession]
    BY DEF Init
  <2>2. /\ DOMAIN NewSession = {"pc", "epoch", "old", "aud", "stop", "lastAck", "wpc", "batch", "written", "rewrite"}
        /\ NewSession.pc = "new" /\ NewSession.wpc = "none" /\ NewSession.written = 0 /\ NewSession.aud = 0 /\ NewSession.batch = << >>
    BY DEF NewSession
  <2>3. SessOK(NewSession)
    BY <2>2 DEF SessOK
  <2> QED BY <2>1, <2>3 DEF SessInv
<1>3. RegInv
  BY DEF Init, RegInv, None
<1>4. LinkInv
  <2>1. /\ DOMAIN NewReceiver(0, MaxSeq) = {"acked", "window", "buf"} /\ NewReceiver(0, MaxSeq).acked = 0
        /\ DOMAIN NewReceiver(0, MaxSeq).buf = {}
    BY DEF NewReceiver
  <2>2. 1 \in Epochs /\ 0 \in 0 .. MaxSeq
    BY Bounds DEF Epochs
  <2>3. << >> \in Seq(Frames)
    OBVIOUS
  <2> QED BY <2>1, <2>2, <2>3 DEF Init, LinkInv
<1>5. WrittenInv
  <2>1. /\ handed = [s \in Sessions |-> {}] /\ expired = {} /\ proto = [e \in Epochs |-> NewProto]
        /\ sess = [s \in Sessions |-> NewSession]
    BY DEF Init
  <2>2. NewSession.wpc = "none"
    BY DEF NewSession
  <2> QED BY <2>1, <2>2, NewProtoOK DEF WrittenInv
<1> QED BY <1>1, <1>2, <1>3, <1>4, <1>5 DEF DownLinkInv

\* The invariant holds in every reachable state: in particular the log has no
\* holes, which entriesAfter and oldestUnacked rely on.
THEOREM DownLinkInvariant == Spec => []DownLinkInv
<1>1. DownLinkInv /\ [Next]_vars => DownLinkInv'
  <2> SUFFICES ASSUME DownLinkInv, [Next]_vars PROVE DownLinkInv'
    OBVIOUS
  <2>1. ProtoInv /\ SessInv /\ RegInv /\ LinkInv /\ WrittenInv
    BY DEF DownLinkInv
  <2> QED BY <2>1, ProtoStep, SessStep, RegStep, LinkStep, WrittenStep DEF DownLinkInv
<1> QED BY <1>1, InitDownLink, PTL DEF Spec

\* The log holds at most one audience frame, the one sessionProto knows, with the
\* newest generation pushed (pushAudience, ackDown).
THEOREM OneAudienceIsLogged == Spec => []OneAudienceFrame
<1>1. DownLinkInv => OneAudienceFrame
  <2> SUFFICES ASSUME DownLinkInv, NEW e \in Epochs
               PROVE  /\ AudienceSeqs(proto[e]) = IF proto[e].seq = 0 THEN {} ELSE {proto[e].seq}
                      /\ proto[e].seq # 0 => proto[e].down.log[proto[e].seq] = proto[e].gen /\ proto[e].gen = proto[e].latest
    BY DEF OneAudienceFrame
  <2>1. ProtoOK(proto[e])
    BY DEF DownLinkInv, ProtoInv
  <2>2. 0 \notin DOMAIN proto[e].down.log
    BY <2>1, Bounds DEF ProtoOK
  <2>3. AudienceSeqs(proto[e]) = {q \in DOMAIN proto[e].down.log : q = proto[e].seq}
    BY <2>1 DEF ProtoOK, AudienceSeqs
  <2> QED BY <2>1, <2>2, <2>3 DEF ProtoOK
<1> QED BY <1>1, DownLinkInvariant, PTL

\* A request is failed as unacked only after its frame was completely written, and
\* no deadline outlives the ack (dispatchRequest, noteWritten, ackDown,
\* expireRequests).
THEOREM OnlyWrittenExpire == Spec => []ExpiredWereWritten
<1>1. DownLinkInv => ExpiredWereWritten
  BY DEF DownLinkInv, WrittenInv, HasWritten, ProtoInv, ProtoOK, ExpiredWereWritten
<1> QED BY <1>1, DownLinkInvariant, PTL

\* What a sequence holds.
LEMMA SetOfSeq ==
  ASSUME NEW S, NEW b \in Seq(S)
  PROVE  /\ ToSet(b) \subseteq S
         /\ b = << >> => ToSet(b) = {}
         /\ b # << >> => /\ ToSet(b) = {Head(b)} \cup ToSet(Tail(b))
                         /\ Head(b) \in S /\ Tail(b) \in Seq(S)
         /\ \A x \in S : ToSet(Append(b, x)) = ToSet(b) \cup {x}
<1>1. ToSet(b) \subseteq S
  BY DEF ToSet
<1>2. b = << >> => ToSet(b) = {}
  BY DEF ToSet
<1>3. ASSUME b # << >> PROVE ToSet(b) = {Head(b)} \cup ToSet(Tail(b)) /\ Head(b) \in S /\ Tail(b) \in Seq(S)
  <2>1. /\ Len(b) \in Nat \ {0} /\ DOMAIN b = 1 .. Len(b) /\ Head(b) = b[1] /\ Tail(b) \in Seq(S)
        /\ DOMAIN Tail(b) = 1 .. (Len(b) - 1) /\ \A i \in 1 .. (Len(b) - 1) : Tail(b)[i] = b[i + 1]
    BY <1>3
  <2>2. ASSUME NEW i \in DOMAIN b PROVE b[i] \in {Head(b)} \cup ToSet(Tail(b))
    <3>1. CASE i = 1
      BY <2>1, <3>1
    <3>2. CASE i # 1
      <4>1. i - 1 \in 1 .. (Len(b) - 1) /\ Tail(b)[i - 1] = b[i]
        BY <2>1, <3>2
      <4> QED BY <2>1, <4>1 DEF ToSet
    <3> QED BY <3>1, <3>2
  <2>3. ASSUME NEW i \in DOMAIN Tail(b) PROVE Tail(b)[i] \in ToSet(b)
    BY <2>1 DEF ToSet
  <2>4. Head(b) \in ToSet(b)
    BY <2>1 DEF ToSet
  <2>5. ToSet(b) = {b[i] : i \in DOMAIN b} /\ ToSet(Tail(b)) = {Tail(b)[i] : i \in DOMAIN Tail(b)}
    BY DEF ToSet
  <2> QED BY <1>3, <2>2, <2>3, <2>4, <2>5
<1>4. ASSUME NEW x \in S PROVE ToSet(Append(b, x)) = ToSet(b) \cup {x}
  <2> DEFINE a == Append(b, x)
  <2>1. /\ Len(b) \in Nat /\ DOMAIN b = 1 .. Len(b) /\ DOMAIN a = 1 .. (Len(b) + 1)
        /\ a[Len(b) + 1] = x /\ \A i \in 1 .. Len(b) : a[i] = b[i]
    OBVIOUS
  <2>2. ToSet(b) = {b[i] : i \in DOMAIN b} /\ ToSet(a) = {a[i] : i \in DOMAIN a}
    BY DEF ToSet
  <2> HIDE DEF a
  <2>3. \A i \in DOMAIN a : i = Len(b) + 1 \/ i \in DOMAIN b
    BY <2>1
  <2>4. \A i \in DOMAIN b : i \in DOMAIN a
    BY <2>1
  <2>5. Len(b) + 1 \in DOMAIN a
    BY <2>1
  <2>6. ToSet(a) = ToSet(b) \cup {x}
    BY <2>1, <2>2, <2>3, <2>4, <2>5
  <2> QED BY <2>6 DEF a
<1> QED BY <1>1, <1>2, <1>3, <1>4

\* entriesAfter and oldestUnacked return entries as they are logged, and the
\* former all of them.
LEMMA EntriesAreLogged ==
  ASSUME NEW p, ProtoOK(p), NEW seq \in Nat
  PROVE  /\ \A x \in ToSet(EntriesAfter(p, seq)) : x[1] \in DOMAIN p.down.log /\ x[2] = p.down.log[x[1]]
         /\ \A q \in DOMAIN p.down.log : q > seq => << q, p.down.log[q] >> \in ToSet(EntriesAfter(p, seq))
<1> DEFINE from == IF seq > p.down.acked THEN seq ELSE p.down.acked
           n == p.down.next - from
           es == [i \in 1 .. n |-> << from + i, p.down.log[from + i] >>]
<1>1. /\ p.down.next \in Nat /\ p.down.acked \in Nat
      /\ DOMAIN p.down.log = (p.down.acked + 1) .. p.down.next
  BY Bounds DEF ProtoOK
<1>2. from \in Nat /\ from >= p.down.acked /\ from >= seq /\ (from = seq \/ from = p.down.acked)
  BY <1>1
<1> HIDE DEF from
<1>3. EntriesAfter(p, seq) = es
  BY DEF EntriesAfter, from
<1>4. ToSet(es) = {<< from + i, p.down.log[from + i] >> : i \in 1 .. n}
  BY DEF ToSet
<1>5. ASSUME NEW x \in ToSet(es) PROVE x[1] \in DOMAIN p.down.log /\ x[2] = p.down.log[x[1]]
  <2>1. PICK i \in 1 .. n : x = << from + i, p.down.log[from + i] >>
    BY <1>4
  <2>2. from + i \in DOMAIN p.down.log
    BY <1>1, <1>2
  <2> QED BY <2>1, <2>2
<1>6. ASSUME NEW q \in DOMAIN p.down.log, q > seq PROVE << q, p.down.log[q] >> \in ToSet(es)
  <2>1. q - from \in 1 .. n /\ from + (q - from) = q
    BY <1>1, <1>2, <1>6
  <2> QED BY <1>4, <2>1
<1> QED BY <1>3, <1>5, <1>6

LEMMA OldestAreLogged ==
  ASSUME NEW p, ProtoOK(p)
  PROVE  \A x \in ToSet(OldestUnacked(p)) : x[1] \in DOMAIN p.down.log /\ x[2] = p.down.log[x[1]]
<1> DEFINE all == EntriesAfter(p, p.down.acked)
           n == IF Len(all) < Batch THEN Len(all) ELSE Batch
<1>1. p.down.acked \in Nat
  BY Bounds DEF ProtoOK
<1>2. all \in Seq(Frames) /\ \A x \in ToSet(all) : x[1] \in DOMAIN p.down.log /\ x[2] = p.down.log[x[1]]
  BY <1>1, EntriesAreFrames, EntriesAreLogged
<1> HIDE DEF all
<1>3. n \in 0 .. Len(all)
  BY <1>2, Bounds
<1>4. /\ DOMAIN SubSeq(all, 1, n) = 1 .. n /\ \A i \in 1 .. n : SubSeq(all, 1, n)[i] = all[i]
      /\ DOMAIN all = 1 .. Len(all) /\ Len(all) \in Nat
  BY <1>2, <1>3
<1>5. \A i \in 1 .. n : all[i] \in ToSet(all)
  BY <1>3, <1>4 DEF ToSet
<1>6. ToSet(SubSeq(all, 1, n)) \subseteq ToSet(all)
  BY <1>4, <1>5 DEF ToSet
<1>7. OldestUnacked(p) = SubSeq(all, 1, n)
  BY DEF OldestUnacked, all
<1> QED BY <1>2, <1>6, <1>7

\* ackDown, field by field: an ack that covers the audience entry forgets it,
\* and arms a resend if the entry was replaced after its last write.
LEMMA AckDownDoes ==
  ASSUME NEW p, ProtoOK(p), NEW n \in Nat, NEW a, a = AckDown(p, n)
  PROVE  /\ a.down.next = p.down.next /\ a.down.acked \in Nat /\ a.down.acked >= p.down.acked
         /\ a.down.acked = p.down.acked \/ a.down.acked <= n
         /\ n <= p.down.next => a.down.acked >= n
         /\ n <= p.down.acked => a.down.acked = p.down.acked
         /\ a.latest = p.latest
         /\ \/ a.seq = p.seq /\ a.gen = p.gen /\ a.sentGen = p.sentGen /\ a.resend = p.resend
            \/ /\ a.seq = 0 /\ a.gen = 0 /\ a.sentGen = 0 /\ p.seq # 0 /\ p.seq <= a.down.acked
               /\ a.resend = IF p.sentGen < p.gen THEN p.latest ELSE p.resend
<1> DEFINE d == SenderAck(p.down, n)
           covered == p.seq # 0 /\ p.seq <= d.acked
<1>1. /\ DOMAIN d = {"next", "acked", "log"} /\ d.next = p.down.next
      /\ d.acked \in p.down.acked .. p.down.next
  BY SenderAckProperties
<1>2. DOMAIN p = {"down", "seq", "gen", "sentGen", "latest", "resend", "reqAcks"}
  BY DEF ProtoOK
<1>3. /\ a.down = d /\ a.latest = p.latest
      /\ a.resend = IF covered /\ p.sentGen < p.gen THEN p.latest ELSE p.resend
      /\ a.seq = (IF covered THEN 0 ELSE p.seq) /\ a.gen = (IF covered THEN 0 ELSE p.gen)
      /\ a.sentGen = IF covered THEN 0 ELSE p.sentGen
  BY <1>2 DEF AckDown
<1>4. p.down.next \in Nat /\ p.down.acked \in Nat /\ p.down.acked <= p.down.next
  BY Bounds DEF ProtoOK
<1>5. d = p.down \/ d.acked = IF n > p.down.next THEN p.down.next ELSE n
  BY DEF SenderAck
<1>6. n <= p.down.acked => d = p.down
  BY <1>4 DEF SenderAck
<1>7. n <= p.down.next => d.acked >= n
  BY <1>4 DEF SenderAck
<1> HIDE DEF d
<1>8. CASE covered
  BY <1>1, <1>3, <1>4, <1>5, <1>6, <1>7, <1>8
<1>9. CASE ~covered
  BY <1>1, <1>3, <1>4, <1>5, <1>6, <1>7, <1>9
<1> QED BY <1>8, <1>9

\* pushAudience, field by field: an older snapshot changes nothing, a newer one
\* goes under the unacked seq or a fresh one.
LEMMA PushDoes ==
  ASSUME NEW p, ProtoOK(p), NEW g \in Nat \ {0}, NEW a, a = PushProto(p, g)
  PROVE  /\ a.down.acked = p.down.acked
         /\ \/ g < p.latest /\ a = p
            \/ /\ g >= p.latest /\ a.latest = g /\ a.resend = 0 /\ a.gen = g /\ p.seq # 0 /\ a.seq = p.seq
               /\ a.sentGen = p.sentGen /\ a.down.next = p.down.next
            \/ /\ g >= p.latest /\ a.latest = g /\ a.resend = 0 /\ a.gen = g /\ p.seq = 0 /\ a.seq = p.down.next + 1
               /\ a.sentGen = 0 /\ a.down.next = p.down.next + 1
<1> DEFINE b == [p EXCEPT !.latest = g, !.resend = 0]
<1>1. /\ DOMAIN p = {"down", "seq", "gen", "sentGen", "latest", "resend", "reqAcks"}
      /\ p.latest \in Nat /\ p.gen \in Nat
      /\ p.seq # 0 => p.gen = p.latest
  BY DEF ProtoOK
<1>2. CASE g < p.latest
  BY <1>2 DEF PushProto, Replaces, Outdated
<1>3. CASE ~(g < p.latest) /\ Replaces(p, g)
  <2>1. a = [b EXCEPT !.down = SenderElide(b.down, p.seq, g), !.gen = g]
    BY <1>3 DEF PushProto
  <2>2. /\ a.latest = g /\ a.resend = 0 /\ a.gen = g /\ a.seq = p.seq /\ a.sentGen = p.sentGen
        /\ a.down = SenderElide(p.down, p.seq, g)
    BY <1>1, <2>1
  <2>3. a.down.next = p.down.next /\ a.down.acked = p.down.acked
    BY <2>2 DEF SenderElide
  <2>4. p.seq # 0
    BY <1>3 DEF Replaces
  <2> HIDE DEF b
  <2> QED BY <1>1, <1>3, <2>2, <2>3, <2>4
<1>4. CASE ~(g < p.latest) /\ ~Outdated(p, g) /\ ~Replaces(p, g)
  <2>1. a = [b EXCEPT !.down = SenderAppend(b.down, g), !.seq = p.down.next + 1, !.gen = g, !.sentGen = 0]
    BY <1>4 DEF PushProto
  <2>2. /\ a.latest = g /\ a.resend = 0 /\ a.gen = g /\ a.seq = p.down.next + 1 /\ a.sentGen = 0
        /\ a.down = SenderAppend(p.down, g)
    BY <1>1, <2>1
  <2>3. a.down.next = p.down.next + 1 /\ a.down.acked = p.down.acked
    BY <2>2 DEF SenderAppend, LogAppend
  <2>4. p.seq = 0
    BY <1>4 DEF Replaces
  <2> QED BY <1>1, <1>4, <2>2, <2>3, <2>4
<1>5. CASE ~(g < p.latest) /\ Outdated(p, g) /\ ~Replaces(p, g)
  <2>1. a = b
    BY <1>5 DEF PushProto, Replaces
  <2>2. p.seq # 0 /\ g = p.latest
    BY <1>1, <1>5 DEF Outdated
  <2>3. /\ a.latest = g /\ a.resend = 0 /\ a.gen = p.gen /\ a.seq = p.seq /\ a.sentGen = p.sentGen /\ a.down = p.down
    BY <1>1, <2>1
  <2> QED BY <1>1, <2>2, <2>3
<1> QED BY <1>2, <1>3, <1>4, <1>5 DEF Replaces

\* dispatch and noteWritten, field by field.
LEMMA DispatchDoes ==
  ASSUME NEW p, ProtoOK(p), NEW a, a = DispatchRequest(p)
  PROVE  /\ a.down.next = p.down.next + 1 /\ a.down.acked = p.down.acked
         /\ a.seq = p.seq /\ a.gen = p.gen /\ a.sentGen = p.sentGen /\ a.latest = p.latest /\ a.resend = p.resend
BY DEF ProtoOK, DispatchRequest, SenderAppend, LogAppend

LEMMA NoteDoes ==
  ASSUME NEW p, ProtoOK(p), NEW seq, NEW g \in Nat, NEW a, a = NoteWritten(p, seq, g)
  PROVE  /\ a.down = p.down
         /\ a.seq = p.seq /\ a.gen = p.gen /\ a.latest = p.latest /\ a.resend = p.resend
         /\ a.sentGen = p.sentGen \/ (seq = p.seq /\ a.sentGen = g)
BY DEF ProtoOK, NoteWritten

\* attach on a resume: what AckDown does, and no resend.
LEMMA AttachDoes ==
  ASSUME NEW p, ProtoOK(p), NEW n \in Nat, n <= p.down.next, p.down.acked <= n, p.resend # 0 => p.down.acked > 0,
         NEW a, a = AttachProto(p, n)
  PROVE  /\ a.down.next = p.down.next /\ a.down.acked = n /\ a.resend = 0 /\ a.latest = p.latest
         /\ \/ a.seq = p.seq /\ a.gen = p.gen /\ a.sentGen = p.sentGen
            \/ a.seq = 0 /\ a.gen = 0 /\ a.sentGen = 0
<1>1. p.down.acked \in Nat /\ p.down.next \in Nat /\ p.resend \in Nat
  BY Bounds DEF ProtoOK
<1>2. CASE n > 0
  <2> DEFINE b == AckDown(p, n)
  <2>1. a = [b EXCEPT !.resend = 0]
    BY <1>2 DEF AttachProto
  <2>2. ProtoOK(b)
    BY AckDownOK
  <2>3. /\ b.down.next = p.down.next /\ b.down.acked = n /\ b.latest = p.latest
        /\ \/ b.seq = p.seq /\ b.gen = p.gen /\ b.sentGen = p.sentGen
           \/ b.seq = 0 /\ b.gen = 0 /\ b.sentGen = 0
    <3>1. /\ b.down.next = p.down.next /\ b.down.acked \in Nat
          /\ b.down.acked = p.down.acked \/ b.down.acked <= n
          /\ n <= p.down.next => b.down.acked >= n
          /\ b.latest = p.latest
          /\ \/ b.seq = p.seq /\ b.gen = p.gen /\ b.sentGen = p.sentGen
             \/ b.seq = 0 /\ b.gen = 0 /\ b.sentGen = 0
      BY AckDownDoes
    <3> HIDE DEF b
    <3> QED BY <1>1, <3>1
  <2> HIDE DEF b
  <2>4. DOMAIN b = {"down", "seq", "gen", "sentGen", "latest", "resend", "reqAcks"}
    BY <2>2 DEF ProtoOK
  <2> QED BY <2>1, <2>3, <2>4
<1>3. CASE ~(n > 0)
  BY <1>1, <1>3 DEF AttachProto
<1> QED BY <1>2, <1>3

-----------------------------------------------------------------------------
(* The invariant behind HostHoldsNewest.                                     *)

\* Sessions attach in order and only the registered one can be the newest; a
\* writer runs from Start on; a change of the viewing set has its notification
\* coming; a loop that pushes a resend waits for it.
ServeInv ==
    /\ notifiers \in Nat /\ reg.epoch \in Nat /\ reg.epoch <= host.epoch
    /\ \A t \in Sessions :
           /\ sess[t].old \in Nat /\ sess[t].old < t
           /\ sess[t].wpc = "none" <=> sess[t].pc \in {"new", "hello"}
           /\ sess[t].pc # "new" => sess[t].epoch <= reg.epoch
           /\ sess[t].pc = "new" => sess[t].batch = << >> /\ \A u \in Sessions : u > t => sess[u].pc = "new"
    /\ reg.session # None =>
           /\ sess[reg.session].epoch = reg.epoch /\ reg.gen > 0
           /\ \A u \in Sessions : u > reg.session => sess[u].pc = "new"
           /\ sess[reg.session].pc \in {"hello", "idle", "take"} => ~sess[reg.session].stop
    /\ reg.stale /\ reg.session # None => notifiers > 0
    /\ host.link # None => /\ host.link \in Sessions /\ sess[host.link].pc # "new"
                           /\ sess[host.link].epoch = host.epoch
    /\ \A c \in pushes : c.by # None => c.by = c.sess /\ sess[c.sess].pc = "idle"

\* A frame that a writer holds was logged, and is not newer than the entry.
HeldOK(t, x) ==
    LET p == proto[sess[t].epoch]
    IN  x[1] \in 1 .. p.down.next /\ x[2] <= reg.gen /\ (x[1] = p.seq => x[2] <= p.gen)

\* No generation is newer than the registered one.
ProtoGen(p, n) == p.latest <= n /\ p.resend <= n /\ (p.seq # 0 => p.sentGen <= p.gen)

GenInv ==
    /\ \A e \in Epochs : ProtoGen(proto[e], reg.gen)
    /\ \A c \in pushes : c.gen <= reg.gen
    /\ \A t \in Sessions : /\ sess[t].aud <= reg.gen
                           /\ \A x \in ToSet(sess[t].batch) : HeldOK(t, x)

\* The same for what is on a transport, parked or applied; only the transport
\* the host is on carries anything, and only once a writer runs.
WireInv ==
    /\ host.gen \in Nat /\ host.gen <= reg.gen
    /\ \A t \in Sessions :
           /\ host.link # t \/ sess[t].wpc = "none" => link[t] = << >>
           /\ sess[t].wpc = "none" => handed[t] = {}
           /\ \A x \in ToSet(link[t]) : x[1] <= proto[sess[t].epoch].down.next /\ x[2] <= reg.gen
    /\ host.rcv.window = MaxSeq
    /\ \A q \in DOMAIN host.rcv.buf :
           /\ host.rcv.acked + 1 < q /\ q <= proto[host.epoch].down.next
           /\ host.rcv.buf[q] \in Nat /\ host.rcv.buf[q] <= reg.gen
    /\ reg.epoch # host.epoch => host.rcv.acked = 0 /\ DOMAIN host.rcv.buf = {}

\* The hub knows no more of the host's watermark than the host has.
AckInv ==
    /\ reg.epoch = host.epoch =>
           /\ proto[host.epoch].down.acked <= host.rcv.acked
           /\ host.rcv.acked <= proto[host.epoch].down.next
    /\ \A t \in Sessions :
           IF sess[t].pc = "new" THEN acks[t] = 0
           ELSE sess[t].epoch = host.epoch => acks[t] <= host.rcv.acked
    /\ \A e \in Epochs : proto[e].resend # 0 => proto[e].down.acked > 0

\* The host is on the transport of the registered session.
Conn(s) ==
    s # None /\ s = reg.session /\ s = host.link /\ sess[s].pc \in {"hello", "idle", "take"}

Cur == proto[reg.epoch]

\* Then only its loop can acknowledge something new, and until its writer has
\* written a frame the host cannot have received one of its seqs.
ConnInv ==
    \A s \in Sessions : Conn(s) =>
        /\ \A t \in Sessions : t # s /\ sess[t].epoch = reg.epoch => acks[t] <= Cur.down.acked
        /\ Cur.resend # 0 => sess[s].pc = "take"
        /\ handed[s] = {} => /\ \A x \in ToSet(link[s]) : x[1] = 0
                             /\ host.rcv.acked <= Cur.down.acked
                             /\ sess[s].wpc # "none" => sess[s].written <= Cur.down.acked

\* What is on its way to the host: on the transport, in the writer's hands, or
\* hello_ack's snapshot.
Rest(s) == CASE sess[s].wpc = "write" -> ToSet(sess[s].batch)
             [] sess[s].wpc = "note"  -> ToSet(Tail(sess[s].batch))
             [] OTHER                 -> {}

OnWay(s) == ToSet(link[s]) \cup Rest(s)
            \cup (IF sess[s].pc = "hello" THEN {<< 0, sess[s].aud >>} ELSE {})

\* The host has generation g, or applies it whatever else happens.
Has(s, g) == host.gen >= g \/ \E x \in OnWay(s) : x[2] >= g /\ x[1] <= host.rcv.acked

\* The writer has not looked at the log yet.
Fresh(s) == handed[s] = {} /\ (sess[s].pc = "hello" \/ sess[s].wpc = "top")

\* The host has generation g or will take it under seq q.
Sent(s, q, g) ==
    \/ Has(s, g)
    \/ \E x \in OnWay(s) : x[1] = q /\ x[2] >= g
    \/ q \in DOMAIN host.rcv.buf /\ host.rcv.buf[q] >= g
    \/ Fresh(s)

\* That is so of the generation that counts as written, and of every one that
\* a writer of the epoch is about to report.
SentInv(s) ==
    Cur.seq # 0 =>
        /\ Sent(s, Cur.seq, Cur.sentGen)
        /\ \A t \in Sessions : sess[t].epoch = reg.epoch /\ sess[t].wpc = "note"
                                   /\ Head(sess[t].batch)[1] = Cur.seq
               => Sent(s, Cur.seq, Head(sess[t].batch)[2])

\* A push of generation g that will not be dropped.
Coming(s, g) ==
    \E c \in pushes : /\ c.gen = g /\ c.seq = 0 /\ sess[c.sess].epoch = reg.epoch
                      /\ c.sess = s \/ c.by # None

\* The newest generation is with the host, on its way, about to be pushed,
\* logged, or to be sent again.
CoverInv(s) ==
    \/ Has(s, reg.gen)
    \/ Coming(s, reg.gen)
    \/ Cur.latest = reg.gen /\ (Cur.seq # 0 \/ Cur.resend = reg.gen)

HoldInv == missed \/ doubled \/ \A s \in Sessions : Conn(s) => SentInv(s) /\ CoverInv(s)

NewestInv == ServeInv /\ GenInv /\ WireInv /\ AckInv /\ ConnInv /\ HoldInv

-----------------------------------------------------------------------------
(* What the steps do to the sessions. *)

LEMMA SessionNumbers == Sessions \subseteq Nat \ {0}
BY Bounds DEF Sessions

\* The writer changes nothing of its session but its own fields.
SameButWriter(s) ==
    /\ \A t \in Sessions : t # s => sess'[t] = sess[t]
    /\ sess'[s].pc = sess[s].pc /\ sess'[s].epoch = sess[s].epoch /\ sess'[s].old = sess[s].old
    /\ sess'[s].aud = sess[s].aud /\ sess'[s].stop = sess[s].stop

LEMMA WriterFields ==
  ASSUME SessInv, NEW s \in Sessions, NEW w, NEW b, Writer(s, w, b)
  PROVE  /\ SameButWriter(s) /\ sess'[s].wpc = w /\ sess'[s].batch = b /\ sess'[s].written = sess[s].written
BY DEF Writer, SessInv, SessOK, SameButWriter

LEMMA WriterTopMoves ==
  ASSUME SessInv, NEW s \in Sessions, WriterTop(s)
  PROVE  LET new == EntriesAfter(proto[sess[s].epoch], sess[s].written)
         IN  /\ UNCHANGED << reg, notifiers, proto, pushes, link, acks, host, histVars >>
             /\ SameButWriter(s) /\ sess[s].wpc = "top" /\ sess'[s].written = sess[s].written
             /\ \/ sess[s].stop /\ sess'[s].wpc = "done" /\ sess'[s].batch = << >>
                \/ new # << >> /\ sess'[s].wpc = "write" /\ sess'[s].batch = new
                \/ ~sess[s].stop /\ new = << >> /\ sess'[s].wpc = "select" /\ sess'[s].batch = << >>
<1> DEFINE new == EntriesAfter(proto[sess[s].epoch], sess[s].written)
<1>1. /\ UNCHANGED << reg, notifiers, proto, pushes, link, acks, host, histVars >> /\ sess[s].wpc = "top"
      /\ CASE sess[s].stop -> Writer(s, "done", << >>)
             [] ~sess[s].stop /\ new # << >> -> Writer(s, "write", new)
             [] OTHER -> Writer(s, "select", << >>)
  BY DEF WriterTop
<1> HIDE DEF new
<1>2. CASE sess[s].stop
  BY <1>1, <1>2, WriterFields DEF new
<1>3. CASE ~sess[s].stop /\ new # << >>
  BY <1>1, <1>3, WriterFields DEF new
<1>4. CASE ~sess[s].stop /\ new = << >>
  BY <1>1, <1>4, WriterFields DEF new
<1> QED BY <1>2, <1>3, <1>4

LEMMA WriterWakesMoves ==
  ASSUME SessInv, NEW s \in Sessions, WriterWakes(s)
  PROVE  /\ UNCHANGED << reg, notifiers, proto, pushes, link, acks, host, histVars >>
         /\ SameButWriter(s) /\ sess[s].wpc = "select" /\ sess'[s].written = sess[s].written
         /\ sess'[s].wpc = "top" /\ sess'[s].batch = << >>
BY WriterFields DEF WriterWakes

LEMMA ReplayMoves ==
  ASSUME SessInv, NEW s \in Sessions, Replay(s)
  PROVE  /\ UNCHANGED << reg, notifiers, proto, pushes, link, acks, host, histVars >>
         /\ SameButWriter(s) /\ sess[s].wpc = "select" /\ sess'[s].written = sess[s].written
         /\ sess'[s].wpc = "write" /\ sess'[s].batch = OldestUnacked(proto[sess[s].epoch])
BY WriterFields DEF Replay

LEMMA RewriteMoves ==
  ASSUME SessInv, NEW s \in Sessions, Rewrite(s)
  PROVE  /\ UNCHANGED << reg, notifiers, proto, pushes, link, acks, host, histVars >>
         /\ SameButWriter(s) /\ sess[s].wpc = "select" /\ sess'[s].written = sess[s].written
         /\ \/ sess'[s].wpc = "top" /\ sess'[s].batch = << >>
            \/ /\ sess'[s].wpc = "write"
               /\ \E q \in DOMAIN proto[sess[s].epoch].down.log :
                      sess'[s].batch = << << q, proto[sess[s].epoch].down.log[q] >> >>
<1> DEFINE q == sess[s].rewrite
           log == proto[sess[s].epoch].down.log
           w == IF q \in DOMAIN log THEN "write" ELSE "top"
           b == IF q \in DOMAIN log THEN << << q, log[q] >> >> ELSE << >>
<1>1. /\ UNCHANGED << reg, notifiers, proto, pushes, link, acks, host, histVars >> /\ sess[s].wpc = "select"
      /\ sess' = [sess EXCEPT ![s].rewrite = 0, ![s].wpc = w, ![s].batch = b]
  BY DEF Rewrite
<1> HIDE DEF w, b
<1>2. /\ SameButWriter(s) /\ sess'[s].written = sess[s].written /\ sess'[s].wpc = w /\ sess'[s].batch = b
  BY <1>1 DEF SessInv, SessOK, SameButWriter
<1>3. CASE q \in DOMAIN log
  BY <1>1, <1>2, <1>3 DEF w, b
<1>4. CASE q \notin DOMAIN log
  BY <1>1, <1>2, <1>4 DEF w, b
<1> QED BY <1>3, <1>4

LEMMA WriteMoves ==
  ASSUME SessInv, NEW s \in Sessions, Write(s)
  PROVE  /\ UNCHANGED << reg, notifiers, proto, pushes, acks, host, missed, expired >>
         /\ SameButWriter(s) /\ sess[s].wpc = "write" /\ sess'[s].written = sess[s].written
         /\ \/ /\ sess[s].stop /\ sess'[s].wpc = "done" /\ sess'[s].batch = << >>
               /\ UNCHANGED << link, handed, doubled >>
            \/ /\ sess'[s].wpc = "note" /\ sess'[s].batch = sess[s].batch
               /\ link' = IF host.link = s THEN [link EXCEPT ![s] = Append(link[s], Head(sess[s].batch))] ELSE link
               /\ handed' = [handed EXCEPT ![s] = handed[s] \cup {Head(sess[s].batch)[1]}]
               /\ doubled' = (doubled \/ Outlived(s))
BY WriterFields DEF Write

LEMMA WrittenMoves ==
  ASSUME SessInv, NEW s \in Sessions, Written(s)
  PROVE  LET f == Head(sess[s].batch)
         IN  /\ UNCHANGED << reg, notifiers, pushes, link, acks, host, histVars >>
             /\ SameButWriter(s) /\ sess[s].wpc = "note" /\ sess'[s].batch = Tail(sess[s].batch)
             /\ sess'[s].wpc = IF Tail(sess[s].batch) = << >> THEN "top" ELSE "write"
             /\ proto' = [proto EXCEPT ![sess[s].epoch] = NoteWritten(proto[sess[s].epoch], f[1], f[2])]
<1> DEFINE f == Head(sess[s].batch)
           w == IF Tail(sess[s].batch) = << >> THEN "top" ELSE "write"
           n == IF f[1] > sess[s].written THEN f[1] ELSE sess[s].written
           b == Tail(sess[s].batch)
<1>1. /\ UNCHANGED << reg, notifiers, pushes, link, acks, host, histVars >> /\ sess[s].wpc = "note"
      /\ proto' = [proto EXCEPT ![sess[s].epoch] = NoteWritten(proto[sess[s].epoch], f[1], f[2])]
      /\ sess' = [sess EXCEPT ![s].written = n, ![s].batch = b, ![s].wpc = w]
  BY DEF Written
<1> HIDE DEF f, w, n, b
<1>2. SameButWriter(s) /\ sess'[s].wpc = w /\ sess'[s].batch = b
  BY <1>1 DEF SessInv, SessOK, SameButWriter
<1> QED BY <1>1, <1>2 DEF f, w, b

LEMMA WriterMoves ==
  ASSUME SessInv, NEW s \in Sessions, WriterStep(s)
  PROVE  /\ UNCHANGED << reg, notifiers, pushes, acks, host >> /\ SameButWriter(s)
         /\ sess[s].wpc # "none" /\ sess'[s].wpc # "none"
<1>1. CASE WriterTop(s)
  BY <1>1, WriterTopMoves, Zenon
<1>2. CASE WriterWakes(s)
  BY <1>2, WriterWakesMoves
<1>3. CASE Replay(s)
  BY <1>3, ReplayMoves
<1>4. CASE Rewrite(s)
  BY <1>4, RewriteMoves
<1>5. CASE Write(s)
  BY <1>5, WriteMoves
<1>6. CASE Written(s)
  BY <1>6, WrittenMoves
<1> QED BY <1>1, <1>2, <1>3, <1>4, <1>5, <1>6 DEF WriterStep

\* What a step of the loop leaves alone in its session.
SameButPc(s) ==
    /\ \A t \in Sessions : t # s => sess'[t] = sess[t]
    /\ sess'[s].epoch = sess[s].epoch /\ sess'[s].old = sess[s].old /\ sess'[s].aud = sess[s].aud
    /\ sess'[s].wpc = sess[s].wpc /\ sess'[s].batch = sess[s].batch /\ sess'[s].written = sess[s].written

LEMMA HandleAckMoves ==
  ASSUME SessInv, NEW s \in Sessions, HandleAck(s)
  PROVE  /\ SameButPc(s) /\ UNCHANGED << reg, notifiers, pushes, link, acks, host, histVars >>
         /\ sess[s].pc = "idle" /\ sess'[s].pc = "take" /\ sess'[s].stop = sess[s].stop
         /\ \A c \in pushes : c.by # s
         /\ proto' = [proto EXCEPT ![sess[s].epoch] = AckDown(proto[sess[s].epoch], acks[s])]
BY DEF HandleAck, SessInv, SessOK, SameButPc, Busy

LEMMA TakeResendMoves ==
  ASSUME SessInv, NEW s \in Sessions, TakeResend(s)
  PROVE  /\ SameButPc(s) /\ UNCHANGED << reg, notifiers, link, acks, host, histVars >>
         /\ sess[s].pc = "take" /\ sess'[s].pc = "idle" /\ sess'[s].stop = sess[s].stop
         /\ proto' = [proto EXCEPT ![sess[s].epoch].resend = 0]
         /\ LET g == proto[sess[s].epoch].resend
            IN  pushes' = IF g = 0 THEN pushes ELSE pushes \cup {[by |-> s, sess |-> s, gen |-> g, seq |-> 0]}
BY DEF TakeResend, SessInv, SessOK, SameButPc

LEMMA CloseMoves ==
  ASSUME SessInv, NEW s \in Sessions, Close(s)
  PROVE  /\ SameButPc(s) /\ UNCHANGED << reg, notifiers, proto, pushes, link, acks, host, histVars >>
         /\ sess[s].pc = "idle" /\ sess'[s].pc = "closing" /\ \A c \in pushes : c.by # s
BY DEF Close, SessInv, SessOK, SameButPc, Busy

LEMMA DetachMoves ==
  ASSUME SessInv, NEW s \in Sessions, Detach(s)
  PROVE  /\ SameButPc(s) /\ UNCHANGED << notifiers, proto, pushes, histVars >>
         /\ sess[s].pc = "closing" /\ sess'[s].pc = "done"
         /\ reg' = IF reg.session = s THEN [reg EXCEPT !.session = None] ELSE reg
         /\ host' = IF host.link = s THEN [host EXCEPT !.link = None] ELSE host
         /\ link' = [link EXCEPT ![s] = << >>] /\ acks' = [acks EXCEPT ![s] = 0]
BY DEF Detach, SessInv, SessOK, SameButPc

LEMMA AskRewriteMoves ==
  ASSUME SessInv, RegInv, NEW c \in pushes, AskRewrite(c)
  PROVE  /\ UNCHANGED << reg, notifiers, proto, link, acks, host, histVars >>
         /\ pushes' = pushes \ {c} /\ c.seq # 0
         /\ \A t \in Sessions : SameButPc(t) \/ sess'[t] = sess[t]
         /\ \A t \in Sessions : /\ sess'[t].pc = sess[t].pc /\ sess'[t].epoch = sess[t].epoch
                                /\ sess'[t].old = sess[t].old /\ sess'[t].aud = sess[t].aud
                                /\ sess'[t].wpc = sess[t].wpc /\ sess'[t].batch = sess[t].batch
                                /\ sess'[t].written = sess[t].written /\ sess'[t].stop = sess[t].stop
BY DEF AskRewrite, SessInv, SessOK, SameButPc

LEMMA StartMoves ==
  ASSUME SessInv, NEW s \in Sessions, sess[s].old # s, Start(s)
  PROVE  /\ UNCHANGED << reg, notifiers, proto, pushes, acks, host, histVars >>
         /\ sess[s].pc = "hello" /\ sess'[s].pc = "idle" /\ sess'[s].wpc = "top"
         /\ sess'[s].epoch = sess[s].epoch /\ sess'[s].stop = sess[s].stop /\ sess'[s].batch = sess[s].batch
         /\ sess'[s].old = 0 /\ sess'[s].aud = 0 /\ sess'[s].written = proto[sess[s].epoch].down.acked
         /\ \A t \in Sessions : t # s =>
                /\ sess'[t].pc = sess[t].pc /\ sess'[t].epoch = sess[t].epoch
                /\ sess'[t].old = sess[t].old /\ sess'[t].aud = sess[t].aud
                /\ sess'[t].wpc = sess[t].wpc /\ sess'[t].batch = sess[t].batch
                /\ sess'[t].written = sess[t].written
                /\ t # sess[s].old => sess'[t].stop = sess[t].stop
         /\ link' = IF host.link = s THEN [link EXCEPT ![s] = << << 0, sess[s].aud >> >>] ELSE link
<1>1. DOMAIN sess = Sessions /\ \A t \in Sessions : SessOK(sess[t])
  BY DEF SessInv
<1> DEFINE me == [sess[s] EXCEPT !.pc = "idle", !.wpc = "top", !.aud = 0, !.old = None,
                                 !.written = proto[sess[s].epoch].down.acked,
                                 !.lastAck = proto[sess[s].epoch].down.acked]
           F(t) == CASE t = s -> me
                     [] t = sess[s].old -> [sess[t] EXCEPT !.stop = TRUE]
                     [] OTHER -> sess[t]
<1>2. sess' = [t \in Sessions |-> F(t)] /\ sess[s].pc = "hello"
  BY DEF Start
<1>3. sess'[s] = me
  <2> HIDE DEF me
  <2>1. F(s) = me
    OBVIOUS
  <2> HIDE DEF F
  <2> QED BY <1>2, <2>1
<1>4. \A t \in Sessions : t # s => sess'[t] = [sess[t] EXCEPT !.stop = TRUE] \/ sess'[t] = sess[t]
  <2> HIDE DEF me
  <2>1. \A t \in Sessions : t # s => F(t) = [sess[t] EXCEPT !.stop = TRUE] \/ F(t) = sess[t]
    OBVIOUS
  <2> HIDE DEF F
  <2> QED BY <1>2, <2>1
<1>5. \A t \in Sessions : t # s /\ t # sess[s].old => sess'[t] = sess[t]
  <2> HIDE DEF me
  <2>1. \A t \in Sessions : t # s /\ t # sess[s].old => F(t) = sess[t]
    OBVIOUS
  <2> HIDE DEF F
  <2> QED BY <1>2, <2>1
<1>6. /\ UNCHANGED << reg, notifiers, proto, pushes, acks, host, histVars >>
      /\ link' = IF host.link = s THEN [link EXCEPT ![s] = << << 0, sess[s].aud >> >>] ELSE link
  BY DEF Start
<1>7. /\ sess'[s].pc = "idle" /\ sess'[s].wpc = "top"
      /\ sess'[s].epoch = sess[s].epoch /\ sess'[s].stop = sess[s].stop /\ sess'[s].batch = sess[s].batch
      /\ sess'[s].old = 0 /\ sess'[s].aud = 0 /\ sess'[s].written = proto[sess[s].epoch].down.acked
  BY <1>1, <1>3 DEF SessOK, None
<1>8. \A t \in Sessions : t # s =>
                /\ sess'[t].pc = sess[t].pc /\ sess'[t].epoch = sess[t].epoch
                /\ sess'[t].old = sess[t].old /\ sess'[t].aud = sess[t].aud
                /\ sess'[t].wpc = sess[t].wpc /\ sess'[t].batch = sess[t].batch
                /\ sess'[t].written = sess[t].written
                /\ t # sess[s].old => sess'[t].stop = sess[t].stop
  BY <1>1, <1>4, <1>5 DEF SessOK
<1> QED BY <1>2, <1>6, <1>7, <1>8

\* attach: the new session is the first one not used yet.
LEMMA AttachMoves ==
  ASSUME SessInv, RegInv, LinkInv, NEW s \in Sessions, Attach(s)
  PROVE  /\ host.link = None /\ sess[s].pc = "new" /\ \A t \in Sessions : t < s => sess[t].pc # "new"
         /\ \A t \in Sessions : t # s => sess'[t] = sess[t]
         /\ sess'[s] = [NewSession EXCEPT !.pc = "hello", !.epoch = host.epoch, !.old = reg.session, !.aud = reg'.gen]
         /\ sess'[s].pc = "hello" /\ sess'[s].epoch = host.epoch /\ sess'[s].old = reg.session
         /\ sess'[s].aud = reg'.gen /\ ~sess'[s].stop /\ sess'[s].wpc = "none" /\ sess'[s].batch = << >>
         /\ reg'.session = s /\ reg'.epoch = host.epoch /\ reg'.gen >= reg.gen /\ reg'.gen \in Nat \ {0} /\ ~reg'.stale
         /\ host'.epoch = host.epoch /\ host'.link = s /\ host'.rcv = host.rcv /\ host'.gen = host.gen
         /\ UNCHANGED << notifiers, pushes, link, acks, histVars >>
         /\ proto' = [proto EXCEPT ![host.epoch] = IF reg.epoch = host.epoch
                                                    THEN AttachProto(proto[host.epoch], host.rcv.acked)
                                                    ELSE NewProto]
<1>1. AudienceGen \in Nat \ {0} /\ AudienceGen >= reg.gen
  BY DEF AudienceGen, RegInv
<1>2. /\ host.link = None /\ sess[s].pc = "new" /\ \A t \in Sessions : t < s => sess[t].pc # "new"
      /\ sess' = [sess EXCEPT ![s] = [NewSession EXCEPT !.pc = "hello", !.epoch = host.epoch,
                                              !.old = reg.session, !.aud = AudienceGen]]
      /\ reg' = [session |-> s, epoch |-> host.epoch, gen |-> AudienceGen, stale |-> FALSE]
      /\ host' = [host EXCEPT !.link = s]
      /\ UNCHANGED << notifiers, pushes, link, acks, histVars >>
      /\ proto' = [proto EXCEPT ![host.epoch] = IF reg.epoch = host.epoch
                                                 THEN AttachProto(proto[host.epoch], host.rcv.acked)
                                                 ELSE NewProto]
  BY DEF Attach
<1>3. /\ sess'[s] = [NewSession EXCEPT !.pc = "hello", !.epoch = host.epoch, !.old = reg.session, !.aud = AudienceGen]
      /\ \A t \in Sessions : t # s => sess'[t] = sess[t]
  BY <1>2 DEF SessInv
<1>4. /\ sess'[s].pc = "hello" /\ sess'[s].epoch = host.epoch /\ sess'[s].old = reg.session
      /\ sess'[s].aud = AudienceGen /\ ~sess'[s].stop /\ sess'[s].wpc = "none" /\ sess'[s].batch = << >>
  BY <1>3 DEF NewSession
<1>5. reg'.session = s /\ reg'.epoch = host.epoch /\ reg'.gen = AudienceGen /\ ~reg'.stale
  BY <1>2
<1>6. host'.epoch = host.epoch /\ host'.link = s /\ host'.rcv = host.rcv /\ host'.gen = host.gen
  BY <1>2 DEF LinkInv
<1> QED BY <1>1, <1>2, <1>3, <1>4, <1>5, <1>6

\* notifyAudience: a changed set gets the next generation and a push to the
\* registered session.
LEMMA NotifyMoves ==
  ASSUME RegInv, Notify, reg.session # None => reg.gen > 0
  PROVE  /\ UNCHANGED << proto, sess, link, acks, host, histVars >>
         /\ notifiers > 0 /\ notifiers' = notifiers - 1
         /\ reg'.session = reg.session /\ reg'.epoch = reg.epoch /\ reg'.gen \in Nat
         /\ \/ reg' = reg /\ pushes' = pushes /\ reg.session = None
            \/ reg'.gen = reg.gen /\ pushes' = pushes /\ ~reg'.stale
            \/ /\ reg.session # None /\ reg'.gen = reg.gen + 1 /\ ~reg'.stale
               /\ pushes' = pushes \cup {[by |-> None, sess |-> reg.session, gen |-> reg.gen + 1, seq |-> 0]}
<1>1. CASE reg.session = None
  BY <1>1 DEF Notify, RegInv
<1>2. CASE reg.session # None
  <2>1. /\ reg' = [reg EXCEPT !.gen = AudienceGen, !.stale = FALSE] /\ notifiers > 0 /\ notifiers' = notifiers - 1
        /\ UNCHANGED << proto, sess, link, acks, host, histVars >>
        /\ pushes' = IF reg.gen # 0 /\ reg.stale
                         THEN pushes \cup {[by |-> None, sess |-> reg.session, gen |-> AudienceGen, seq |-> 0]}
                         ELSE pushes
    BY <1>2 DEF Notify
  <2>2. reg'.session = reg.session /\ reg'.epoch = reg.epoch /\ reg'.gen = AudienceGen /\ ~reg'.stale
    BY <2>1 DEF RegInv
  <2>3. AudienceGen = IF reg.stale THEN reg.gen + 1 ELSE reg.gen
    BY <1>2 DEF AudienceGen, RegInv
  <2> QED BY <1>2, <2>1, <2>2, <2>3 DEF RegInv
<1> QED BY <1>1, <1>2

\* A step that neither attaches nor starts a session keeps them in that order.
LEMMA ServeKept ==
  ASSUME DownLinkInv, ServeInv,
         notifiers' = notifiers, reg'.epoch = reg.epoch, reg'.gen = reg.gen, reg'.stale = reg.stale,
         reg'.session \in {None, reg.session}, host'.epoch = host.epoch, host'.link \in {None, host.link},
         \A t \in Sessions :
             /\ sess'[t].old = sess[t].old /\ sess'[t].epoch = sess[t].epoch
             /\ sess'[t].wpc = "none" <=> sess[t].wpc = "none"
             /\ sess[t].wpc = "none" => sess'[t].batch = sess[t].batch
             /\ sess'[t].pc = sess[t].pc \/ (sess'[t].pc \notin {"new", "hello"} /\ sess[t].pc \notin {"new", "hello"})
             /\ sess'[t].pc \in {"hello", "idle", "take"} =>
                    sess[t].pc \in {"hello", "idle", "take"} /\ sess'[t].stop = sess[t].stop,
         \A c \in pushes' : c.by # None => c.by = c.sess /\ sess'[c.sess].pc = "idle"
  PROVE  ServeInv'
<1>1. notifiers' \in Nat /\ reg'.epoch \in Nat /\ reg'.epoch <= host'.epoch
  BY DEF ServeInv
<1>2. ASSUME NEW t \in Sessions
      PROVE  /\ sess'[t].old \in Nat /\ sess'[t].old < t
             /\ sess'[t].wpc = "none" <=> sess'[t].pc \in {"new", "hello"}
             /\ sess'[t].pc # "new" => sess'[t].epoch <= reg'.epoch
             /\ sess'[t].pc = "new" => sess'[t].batch = << >> /\ \A u \in Sessions : u > t => sess'[u].pc = "new"
  <2>1. /\ sess[t].old \in Nat /\ sess[t].old < t
        /\ sess[t].wpc = "none" <=> sess[t].pc \in {"new", "hello"}
        /\ sess[t].pc # "new" => sess[t].epoch <= reg.epoch
        /\ sess[t].pc = "new" => sess[t].batch = << >> /\ \A u \in Sessions : u > t => sess[u].pc = "new"
    BY DEF ServeInv
  <2>2. \A u \in Sessions : sess'[u].pc = "new" <=> sess[u].pc = "new"
    OBVIOUS
  <2>3. sess'[t].pc \in {"new", "hello"} <=> sess[t].pc \in {"new", "hello"}
    OBVIOUS
  <2> QED BY <2>1, <2>2, <2>3
<1>3. ASSUME reg'.session # None
      PROVE  /\ sess'[reg'.session].epoch = reg'.epoch /\ reg'.gen > 0
             /\ \A u \in Sessions : u > reg'.session => sess'[u].pc = "new"
             /\ sess'[reg'.session].pc \in {"hello", "idle", "take"} => ~sess'[reg'.session].stop
  <2>1. reg'.session = reg.session /\ reg.session \in Sessions
    BY <1>3 DEF DownLinkInv, RegInv, Attached
  <2>2. /\ sess[reg.session].epoch = reg.epoch /\ reg.gen > 0
        /\ \A u \in Sessions : u > reg.session => sess[u].pc = "new"
        /\ sess[reg.session].pc \in {"hello", "idle", "take"} => ~sess[reg.session].stop
    BY <1>3, <2>1 DEF ServeInv
  <2> DEFINE r == reg.session
  <2>3. /\ sess'[r].epoch = sess[r].epoch
        /\ sess'[r].pc \in {"hello", "idle", "take"} =>
               sess[r].pc \in {"hello", "idle", "take"} /\ sess'[r].stop = sess[r].stop
    BY <2>1
  <2>4. \A u \in Sessions : u > r => sess'[u].pc = "new"
    BY <2>2
  <2> HIDE DEF r
  <2>5. reg'.session = r
    BY <2>1 DEF r
  <2> QED BY <2>2, <2>3, <2>4, <2>5 DEF r
<1>4. reg'.stale /\ reg'.session # None => notifiers' > 0
  BY DEF ServeInv
<1>5. ASSUME host'.link # None
      PROVE  host'.link \in Sessions /\ sess'[host'.link].pc # "new" /\ sess'[host'.link].epoch = host'.epoch
  <2>1. host'.link = host.link /\ host.link \in Sessions /\ sess[host.link].pc # "new" /\ sess[host.link].epoch = host.epoch
    BY <1>5 DEF ServeInv
  <2> DEFINE r == host.link
  <2>2. sess'[r].epoch = sess[r].epoch /\ sess'[r].pc # "new"
    BY <2>1
  <2> HIDE DEF r
  <2>3. host'.link = r
    BY <2>1 DEF r
  <2> QED BY <2>1, <2>2, <2>3 DEF r
<1> HIDE DEF ServeInv
<1> QED BY <1>1, <1>2, <1>3, <1>4, <1>5 DEF ServeInv

\* Every step keeps the sessions, the registry and the pushes in that order.
LEMMA ServeStep ==
  ASSUME DownLinkInv, ServeInv, [Next]_vars
  PROVE  ServeInv'
<1>0. SessInv /\ RegInv /\ LinkInv /\ ProtoInv /\ Sessions \subseteq Nat \ {0} /\ None = 0
  BY SessionNumbers DEF DownLinkInv, None
<1>1. ASSUME ViewChange PROVE ServeInv'
  <2>1. /\ UNCHANGED << sess, pushes, host >> /\ notifiers' = notifiers + 1
        /\ \E b \in BOOLEAN : reg' = [reg EXCEPT !.stale = b]
    BY <1>1 DEF ViewChange
  <2>2. reg'.session = reg.session /\ reg'.epoch = reg.epoch /\ reg'.gen = reg.gen
    BY <1>0, <2>1 DEF RegInv
  <2> QED BY <2>1, <2>2 DEF ServeInv
<1>2. ASSUME Notify PROVE ServeInv'
  <2>1. reg.session # None => reg.gen > 0
    BY DEF ServeInv
  <2>2. /\ UNCHANGED << sess, host >>
        /\ notifiers > 0 /\ notifiers' = notifiers - 1
        /\ reg'.session = reg.session /\ reg'.epoch = reg.epoch /\ reg'.gen \in Nat
        /\ \/ reg' = reg /\ pushes' = pushes /\ reg.session = None
           \/ reg'.gen = reg.gen /\ pushes' = pushes /\ ~reg'.stale
           \/ /\ reg.session # None /\ reg'.gen = reg.gen + 1 /\ ~reg'.stale
              /\ pushes' = pushes \cup {[by |-> None, sess |-> reg.session, gen |-> reg.gen + 1, seq |-> 0]}
    BY <1>0, <1>2, <2>1, NotifyMoves
  <2>3. \A c \in pushes' : c \in pushes \/ c.by = None
    BY <2>2
  <2> QED BY <1>0, <2>2, <2>3 DEF ServeInv, RegInv
<1>3. ASSUME HostLeaves PROVE ServeInv'
  <2>1. UNCHANGED << reg, notifiers, sess, pushes >> /\ host' = [host EXCEPT !.link = None]
    BY <1>3 DEF HostLeaves
  <2> QED BY <1>0, <2>1 DEF ServeInv, LinkInv
<1>4. ASSUME HostRestarts PROVE ServeInv'
  <2>1. UNCHANGED << reg, notifiers, sess, pushes >> /\ host'.epoch = host.epoch + 1 /\ host'.link = None
    BY <1>4 DEF HostRestarts
  <2>2. host.epoch \in Nat
    BY <1>0, Bounds DEF LinkInv, Epochs
  <2> QED BY <2>1, <2>2 DEF ServeInv
<1>5. ASSUME NEW c \in pushes, Push(c) PROVE ServeInv'
  <2>1. UNCHANGED << reg, notifiers, sess, host >>
    BY <1>5 DEF Push
  <2>2. pushes' = pushes \ {c} \/ \E q : pushes' = (pushes \ {c}) \cup {[c EXCEPT !.seq = q]} \/ pushes' = (pushes \ {c}) \cup {}
    BY <1>5 DEF Push
  <2>3. DOMAIN c = {"by", "sess", "gen", "seq"}
    BY <1>0 DEF RegInv
  <2>4. \A q : [c EXCEPT !.seq = q].by = c.by /\ [c EXCEPT !.seq = q].sess = c.sess
    BY <2>3
  <2>5. \A d \in pushes' : d \in pushes \/ (d.by = c.by /\ d.sess = c.sess)
    BY <2>2, <2>4
  <2> QED BY <2>1, <2>5 DEF ServeInv
<1>6. ASSUME NEW c \in pushes, AskRewrite(c) PROVE ServeInv'
  <2>1. /\ UNCHANGED << reg, notifiers, host >> /\ pushes' = pushes \ {c}
        /\ \A t \in Sessions : /\ sess'[t].pc = sess[t].pc /\ sess'[t].epoch = sess[t].epoch
                               /\ sess'[t].old = sess[t].old /\ sess'[t].wpc = sess[t].wpc
                               /\ sess'[t].batch = sess[t].batch /\ sess'[t].stop = sess[t].stop
    BY <1>0, <1>6, AskRewriteMoves
  <2>2. /\ reg.session # None => reg.session \in Sessions
        /\ \A d \in pushes : d.sess \in Sessions
    BY <1>0 DEF RegInv, Attached
  <2>7. \A d \in pushes : d.by # None => d.by = d.sess /\ sess[d.sess].pc = "idle"
    BY DEF ServeInv
  <2>8. \A d \in pushes' : d.by # None => d.by = d.sess /\ sess'[d.sess].pc = "idle"
    BY <2>1, <2>2, <2>7
  <2> QED BY <2>1, <2>2, <2>8, ServeKept
<1>7. ASSUME NEW s \in Sessions, Attach(s) PROVE ServeInv'
  <2>1. /\ host.link = None /\ sess[s].pc = "new" /\ \A t \in Sessions : t < s => sess[t].pc # "new"
        /\ \A t \in Sessions : t # s => sess'[t] = sess[t]
        /\ sess'[s].pc = "hello" /\ sess'[s].epoch = host.epoch /\ sess'[s].old = reg.session
        /\ ~sess'[s].stop /\ sess'[s].wpc = "none" /\ sess'[s].batch = << >>
        /\ reg'.session = s /\ reg'.epoch = host.epoch /\ reg'.gen >= reg.gen /\ reg'.gen \in Nat \ {0} /\ ~reg'.stale
        /\ host'.epoch = host.epoch /\ host'.link = s
        /\ UNCHANGED << notifiers, pushes >>
    BY <1>0, <1>7, AttachMoves
  <2>2. host.epoch \in Nat
    BY <1>0, Bounds DEF LinkInv, Epochs
  <2>3. \A u \in Sessions : u > s => sess[u].pc = "new"
    BY <2>1 DEF ServeInv
  <2>4. reg.session \in Nat /\ reg.session < s
    <3>1. CASE reg.session = None
      BY <1>0, <3>1
    <3>2. CASE reg.session # None
      <4>1. reg.session \in Sessions /\ sess[reg.session].pc # "new"
        BY <1>0, <3>2 DEF RegInv, Attached
      <4> QED BY <1>0, <2>1, <2>3, <4>1
    <3> QED BY <3>1, <3>2
  <2>5. \A c \in pushes : c.sess \in Sessions /\ c.sess # s
    BY <1>0, <2>1 DEF RegInv, Attached
  <2>6. notifiers' \in Nat /\ reg'.epoch \in Nat /\ reg'.epoch <= host'.epoch
    BY <2>1, <2>2 DEF ServeInv
  <2>7. ASSUME NEW t \in Sessions
        PROVE  /\ sess'[t].old \in Nat /\ sess'[t].old < t
               /\ sess'[t].wpc = "none" <=> sess'[t].pc \in {"new", "hello"}
               /\ sess'[t].pc # "new" => sess'[t].epoch <= reg'.epoch
               /\ sess'[t].pc = "new" => sess'[t].batch = << >> /\ \A u \in Sessions : u > t => sess'[u].pc = "new"
    <3>1. CASE t = s
      BY <2>1, <2>2, <2>4, <3>1
    <3>2. CASE t # s
      <4>1. /\ sess[t].old \in Nat /\ sess[t].old < t
            /\ sess[t].wpc = "none" <=> sess[t].pc \in {"new", "hello"}
            /\ sess[t].pc # "new" => sess[t].epoch <= reg.epoch
            /\ sess[t].pc = "new" => sess[t].batch = << >> /\ \A u \in Sessions : u > t => sess[u].pc = "new"
            /\ reg.epoch <= host.epoch /\ reg.epoch \in Nat
        BY DEF ServeInv
      <4>2. sess[t].pc # "new" => sess[t].epoch \in Nat
        BY <1>0, Bounds DEF SessInv, SessOK, Epochs
      <4>3. sess[t].pc = "new" => s < t
        BY <1>0, <2>1, <3>2
      <4> QED BY <1>0, <2>1, <2>2, <3>2, <4>1, <4>2, <4>3
    <3> QED BY <3>1, <3>2
  <2>8. /\ reg'.session = s /\ sess'[s].epoch = reg'.epoch /\ reg'.gen > 0 /\ ~sess'[s].stop
        /\ \A u \in Sessions : u > s => sess'[u].pc = "new"
    BY <1>0, <2>1, <2>3
  <2>9. \A c \in pushes' : c.by # None => c.by = c.sess /\ sess'[c.sess].pc = "idle"
    BY <2>1, <2>5 DEF ServeInv
  <2>10. host'.link = s /\ sess'[s].pc # "new" /\ sess'[s].epoch = host'.epoch /\ ~reg'.stale
    BY <2>1
  <2> HIDE DEF ServeInv
  <2> QED BY <2>6, <2>7, <2>8, <2>9, <2>10 DEF ServeInv
<1>8. ASSUME NEW s \in Sessions, Start(s) PROVE ServeInv'
  <2>0. sess[s].old \in Nat /\ sess[s].old < s /\ sess[s].old # s
    BY <1>0 DEF ServeInv
  <2>1. /\ UNCHANGED << reg, notifiers, pushes, host >>
        /\ sess[s].pc = "hello" /\ sess'[s].pc = "idle" /\ sess'[s].wpc = "top"
        /\ sess'[s].epoch = sess[s].epoch /\ sess'[s].stop = sess[s].stop /\ sess'[s].old = 0
        /\ \A t \in Sessions : t # s =>
               /\ sess'[t].pc = sess[t].pc /\ sess'[t].epoch = sess[t].epoch
               /\ sess'[t].old = sess[t].old /\ sess'[t].wpc = sess[t].wpc /\ sess'[t].batch = sess[t].batch
               /\ t # sess[s].old => sess'[t].stop = sess[t].stop
    <3>1. /\ UNCHANGED << reg, notifiers, proto, pushes, acks, host, histVars >>
          /\ sess[s].pc = "hello" /\ sess'[s].pc = "idle" /\ sess'[s].wpc = "top"
          /\ sess'[s].epoch = sess[s].epoch /\ sess'[s].stop = sess[s].stop /\ sess'[s].old = 0
      BY <1>0, <1>8, <2>0, StartMoves
    <3>2. \A t \in Sessions : t # s =>
                /\ sess'[t].pc = sess[t].pc /\ sess'[t].epoch = sess[t].epoch
                /\ sess'[t].old = sess[t].old /\ sess'[t].aud = sess[t].aud
                /\ sess'[t].wpc = sess[t].wpc /\ sess'[t].batch = sess[t].batch
                /\ sess'[t].written = sess[t].written
                /\ t # sess[s].old => sess'[t].stop = sess[t].stop
      BY <1>0, <1>8, <2>0, StartMoves
    <3> QED BY <3>1, <3>2
  <2>2. /\ reg.session # None => reg.session \in Sessions
        /\ \A c \in pushes : c.sess \in Sessions
    BY <1>0 DEF RegInv, Attached
  <2>3. reg.session # None => reg.session # sess[s].old
    <3>1. reg.session # None => ~(s > reg.session)
      BY <2>1 DEF ServeInv
    <3> QED BY <1>0, <2>0, <2>2, <3>1
  <2>4. ASSUME NEW t \in Sessions
        PROVE  /\ sess'[t].old \in Nat /\ sess'[t].old < t
               /\ sess'[t].wpc = "none" <=> sess'[t].pc \in {"new", "hello"}
               /\ sess'[t].pc # "new" => sess'[t].epoch <= reg'.epoch
               /\ sess'[t].pc = "new" => sess'[t].batch = << >> /\ \A u \in Sessions : u > t => sess'[u].pc = "new"
    BY <1>0, <2>1 DEF ServeInv
  <2>5. reg'.session # None =>
           /\ sess'[reg'.session].epoch = reg'.epoch /\ reg'.gen > 0
           /\ \A u \in Sessions : u > reg'.session => sess'[u].pc = "new"
           /\ sess'[reg'.session].pc \in {"hello", "idle", "take"} => ~sess'[reg'.session].stop
    <3> SUFFICES ASSUME reg.session # None
        PROVE  /\ sess'[reg.session].epoch = reg.epoch /\ reg.gen > 0
               /\ \A u \in Sessions : u > reg.session => sess'[u].pc = "new"
               /\ sess'[reg.session].pc \in {"hello", "idle", "take"} => ~sess'[reg.session].stop
      BY <2>1
    <3>1. /\ sess[reg.session].epoch = reg.epoch /\ reg.gen > 0
          /\ \A u \in Sessions : u > reg.session => sess[u].pc = "new"
          /\ sess[reg.session].pc \in {"hello", "idle", "take"} => ~sess[reg.session].stop
      BY DEF ServeInv
    <3>2. \A u \in Sessions : u > reg.session => u # s
      BY <2>1, <3>1
    <3>3. CASE reg.session = s
      BY <2>1, <2>2, <2>3, <3>1, <3>2, <3>3
    <3>4. CASE reg.session # s
      BY <2>1, <2>2, <2>3, <3>1, <3>2, <3>4
    <3> QED BY <3>3, <3>4
  <2>6. notifiers' \in Nat /\ reg'.epoch \in Nat /\ reg'.epoch <= host'.epoch
    BY <2>1 DEF ServeInv
  <2>7. reg'.stale /\ reg'.session # None => notifiers' > 0
    BY <2>1 DEF ServeInv
  <2>8. host'.link # None => host'.link \in Sessions /\ sess'[host'.link].pc # "new" /\ sess'[host'.link].epoch = host'.epoch
    <3>1. host.link # None => host.link \in Sessions /\ sess[host.link].pc # "new" /\ sess[host.link].epoch = host.epoch
      BY DEF ServeInv
    <3>2. CASE host.link = s
      BY <2>1, <3>1, <3>2
    <3>3. CASE host.link # s
      BY <2>1, <3>1, <3>3
    <3> QED BY <3>2, <3>3
  <2>9. \A c \in pushes' : c.by # None => c.by = c.sess /\ sess'[c.sess].pc = "idle"
    <3>1. \A c \in pushes : c.by # None => c.by = c.sess /\ sess[c.sess].pc = "idle"
      BY DEF ServeInv
    <3> QED BY <2>1, <2>2, <3>1
  <2> HIDE DEF ServeInv
  <2> QED BY <2>4, <2>5, <2>6, <2>7, <2>8, <2>9 DEF ServeInv
<1>9. ASSUME NEW s \in Sessions, HandleAck(s) PROVE ServeInv'
  <2>1. /\ SameButPc(s) /\ UNCHANGED << reg, notifiers, pushes, host >>
        /\ sess[s].pc = "idle" /\ sess'[s].pc = "take" /\ sess'[s].stop = sess[s].stop
        /\ \A c \in pushes : c.by # s
    BY <1>0, <1>9, HandleAckMoves
  <2>2. \A t \in Sessions : /\ sess'[t].old = sess[t].old /\ sess'[t].wpc = sess[t].wpc /\ sess'[t].epoch = sess[t].epoch
                            /\ sess'[t].batch = sess[t].batch /\ sess'[t].stop = sess[t].stop
                            /\ t # s => sess'[t].pc = sess[t].pc
    BY <2>1 DEF SameButPc
  <2>3. /\ reg.session # None => reg.session \in Sessions
        /\ \A c \in pushes : c.sess \in Sessions
    BY <1>0 DEF RegInv, Attached
  <2>7. \A d \in pushes : d.by # None => d.by = d.sess /\ sess[d.sess].pc = "idle"
    BY DEF ServeInv
  <2>8. \A d \in pushes' : d.by # None => d.by = d.sess /\ sess'[d.sess].pc = "idle"
    BY <1>0, <2>1, <2>2, <2>3, <2>7
  <2> QED BY <1>0, <2>1, <2>2, <2>3, <2>8, ServeKept
<1>10. ASSUME NEW s \in Sessions, TakeResend(s) PROVE ServeInv'
  <2>1. /\ SameButPc(s) /\ UNCHANGED << reg, notifiers, host >>
        /\ sess[s].pc = "take" /\ sess'[s].pc = "idle" /\ sess'[s].stop = sess[s].stop
        /\ \E g : pushes' = pushes \/ pushes' = pushes \cup {[by |-> s, sess |-> s, gen |-> g, seq |-> 0]}
    BY <1>0, <1>10, TakeResendMoves
  <2>2. \A t \in Sessions : /\ sess'[t].old = sess[t].old /\ sess'[t].wpc = sess[t].wpc /\ sess'[t].epoch = sess[t].epoch
                            /\ sess'[t].batch = sess[t].batch /\ sess'[t].stop = sess[t].stop
                            /\ t # s => sess'[t].pc = sess[t].pc
    BY <2>1 DEF SameButPc
  <2>3. /\ reg.session # None => reg.session \in Sessions
        /\ \A c \in pushes : c.sess \in Sessions
    BY <1>0 DEF RegInv, Attached
  <2>6. \A d \in pushes' : d \in pushes \/ (d.by = s /\ d.sess = s)
    BY <2>1
  <2>7. \A d \in pushes : d.by # None => d.by = d.sess /\ sess[d.sess].pc = "idle"
    BY DEF ServeInv
  <2>8. \A d \in pushes' : d.by # None => d.by = d.sess /\ sess'[d.sess].pc = "idle"
    BY <1>0, <2>1, <2>2, <2>3, <2>7, <2>6
  <2> QED BY <1>0, <2>1, <2>2, <2>3, <2>8, ServeKept
<1>11. ASSUME NEW s \in Sessions, Close(s) PROVE ServeInv'
  <2>1. /\ SameButPc(s) /\ UNCHANGED << reg, notifiers, pushes, host >>
        /\ sess[s].pc = "idle" /\ sess'[s].pc = "closing" /\ \A c \in pushes : c.by # s
    BY <1>0, <1>11, CloseMoves
  <2>2. \A t \in Sessions : /\ sess'[t].old = sess[t].old /\ sess'[t].wpc = sess[t].wpc /\ sess'[t].epoch = sess[t].epoch
                            /\ sess'[t].batch = sess[t].batch
                            /\ t # s => sess'[t].pc = sess[t].pc /\ sess'[t].stop = sess[t].stop
    BY <2>1 DEF SameButPc
  <2>3. /\ reg.session # None => reg.session \in Sessions
        /\ \A c \in pushes : c.sess \in Sessions
    BY <1>0 DEF RegInv, Attached
  <2>7. \A d \in pushes : d.by # None => d.by = d.sess /\ sess[d.sess].pc = "idle"
    BY DEF ServeInv
  <2>8. \A d \in pushes' : d.by # None => d.by = d.sess /\ sess'[d.sess].pc = "idle"
    BY <1>0, <2>1, <2>2, <2>3, <2>7
  <2> QED BY <1>0, <2>1, <2>2, <2>3, <2>8, ServeKept
<1>12. ASSUME NEW s \in Sessions, Detach(s) PROVE ServeInv'
  <2>1. /\ SameButPc(s) /\ UNCHANGED << notifiers, pushes >>
        /\ sess[s].pc = "closing" /\ sess'[s].pc = "done"
        /\ reg' = IF reg.session = s THEN [reg EXCEPT !.session = None] ELSE reg
        /\ host' = IF host.link = s THEN [host EXCEPT !.link = None] ELSE host
    BY <1>0, <1>12, DetachMoves
  <2>2. \A t \in Sessions : /\ sess'[t].old = sess[t].old /\ sess'[t].wpc = sess[t].wpc /\ sess'[t].epoch = sess[t].epoch
                            /\ sess'[t].batch = sess[t].batch
                            /\ t # s => sess'[t].pc = sess[t].pc /\ sess'[t].stop = sess[t].stop
    BY <2>1 DEF SameButPc
  <2>3. /\ reg.session # None => reg.session \in Sessions
        /\ \A c \in pushes : c.sess \in Sessions
    BY <1>0 DEF RegInv, Attached
  <2>4. /\ reg'.epoch = reg.epoch /\ reg'.gen = reg.gen /\ reg'.stale = reg.stale
        /\ reg'.session # None => reg'.session = reg.session /\ reg.session # s
        /\ host'.epoch = host.epoch
        /\ host'.link # None => host'.link = host.link /\ host.link # s
    BY <1>0, <2>1 DEF RegInv, LinkInv
  <2>7. \A d \in pushes : d.by # None => d.by = d.sess /\ sess[d.sess].pc = "idle"
    BY DEF ServeInv
  <2>8. \A d \in pushes' : d.by # None => d.by = d.sess /\ sess'[d.sess].pc = "idle"
    BY <1>0, <2>1, <2>2, <2>3, <2>4, <2>7
  <2> QED BY <1>0, <2>1, <2>2, <2>3, <2>4, <2>8, ServeKept
<1>13. ASSUME NEW s \in Sessions, SendRequest(s) PROVE ServeInv'
  <2>1. UNCHANGED << reg, notifiers, sess, pushes, host >>
    BY <1>13 DEF SendRequest
  <2> QED BY <2>1 DEF ServeInv
<1>14. ASSUME NEW s \in Sessions, NEW q \in 1 .. MaxSeq, ExpireRequest(s, q) PROVE ServeInv'
  <2>1. UNCHANGED << reg, notifiers, sess, pushes, host >>
    BY <1>14 DEF ExpireRequest
  <2> QED BY <2>1 DEF ServeInv
<1>15. ASSUME NEW s \in Sessions, WriterStep(s) PROVE ServeInv'
  <2>1. /\ UNCHANGED << reg, notifiers, pushes, host >> /\ SameButWriter(s)
        /\ sess[s].wpc # "none" /\ sess'[s].wpc # "none"
    BY <1>0, <1>15, WriterMoves
  <2>2. \A t \in Sessions : /\ sess'[t].old = sess[t].old /\ sess'[t].epoch = sess[t].epoch
                            /\ sess'[t].pc = sess[t].pc /\ sess'[t].stop = sess[t].stop
                            /\ t # s => sess'[t].wpc = sess[t].wpc /\ sess'[t].batch = sess[t].batch
    BY <2>1 DEF SameButWriter
  <2>3. /\ reg.session # None => reg.session \in Sessions
        /\ \A c \in pushes : c.sess \in Sessions
    BY <1>0 DEF RegInv, Attached
  <2>7. \A d \in pushes : d.by # None => d.by = d.sess /\ sess[d.sess].pc = "idle"
    BY DEF ServeInv
  <2>8. \A d \in pushes' : d.by # None => d.by = d.sess /\ sess'[d.sess].pc = "idle"
    BY <1>0, <2>1, <2>2, <2>3, <2>7
  <2> QED BY <1>0, <2>1, <2>2, <2>3, <2>8, ServeKept
<1>16. ASSUME NEW s \in Sessions, HostReceives(s) PROVE ServeInv'
  <2>1. UNCHANGED << reg, notifiers, sess, pushes >>
        /\ \E r, g : host' = [host EXCEPT !.rcv = r, !.gen = g]
    BY <1>16 DEF HostReceives
  <2> QED BY <1>0, <2>1 DEF ServeInv, LinkInv
<1>17. ASSUME NEW s \in Sessions, HostAcks(s) PROVE ServeInv'
  <2>1. UNCHANGED << reg, notifiers, sess, pushes, host >>
    BY <1>17 DEF HostAcks
  <2> QED BY <2>1 DEF ServeInv
<1>18. CASE UNCHANGED vars
  BY <1>18 DEF vars, ServeInv
<1> QED
  BY <1>1, <1>2, <1>3, <1>4, <1>5, <1>6, <1>7, <1>8, <1>9, <1>10, <1>11, <1>12, <1>13,
     <1>14, <1>15, <1>16, <1>17, <1>18 DEF Next, LoopStep

\* The seqs of a space and its watermark grow; the audience entry keeps its
\* seq and gets newer, or goes, or is a new entry.
Grows(p, a) ==
    /\ a.down.next >= p.down.next /\ a.down.acked >= p.down.acked
    /\ a.seq = 0 \/ (a.seq = p.seq /\ a.gen >= p.gen) \/ a.seq = p.down.next + 1

LEMMA Unchanged ==
  ASSUME NEW p, ProtoOK(p)
  PROVE  Grows(p, p)
BY Bounds DEF ProtoOK, Grows

LEMMA SpaceStep ==
  ASSUME ProtoInv, GenInv, reg.gen \in Nat, reg'.gen \in Nat, reg'.gen >= reg.gen, NEW e \in Epochs, NEW a,
         proto' = [proto EXCEPT ![e] = a], Grows(proto[e], a), ProtoGen(a, reg'.gen)
  PROVE  \A f \in Epochs : Grows(proto[f], proto'[f]) /\ ProtoGen(proto'[f], reg'.gen)
<1> SUFFICES ASSUME NEW f \in Epochs PROVE Grows(proto[f], proto'[f]) /\ ProtoGen(proto'[f], reg'.gen)
  OBVIOUS
<1>1. CASE f = e
  BY <1>1 DEF ProtoInv
<1>2. CASE f # e
  <2>1. proto'[f] = proto[f] /\ ProtoOK(proto[f]) /\ ProtoGen(proto[f], reg.gen)
    BY <1>2 DEF ProtoInv, GenInv
  <2>2. proto[f].latest \in Nat /\ proto[f].resend \in Nat
    BY <2>1 DEF ProtoOK
  <2> QED BY <2>1, <2>2, Unchanged DEF ProtoGen
<1> QED BY <1>1, <1>2

\* The registered generation never goes back.
LEMMA RegGrows ==
  ASSUME DownLinkInv, ServeInv, [Next]_vars
  PROVE  reg.gen \in Nat /\ reg'.gen \in Nat /\ reg'.gen >= reg.gen
<1>0. SessInv /\ RegInv /\ LinkInv /\ reg.gen \in Nat /\ DOMAIN reg = {"session", "epoch", "gen", "stale"}
  BY DEF DownLinkInv, RegInv
<1>1. CASE reg'.gen = reg.gen
  BY <1>0, <1>1
<1>2. ASSUME NEW s \in Sessions, Attach(s) PROVE reg'.gen \in Nat /\ reg'.gen >= reg.gen
  BY <1>0, <1>2, AttachMoves
<1>3. ASSUME Notify PROVE reg'.gen \in Nat /\ reg'.gen >= reg.gen
  <2>1. reg.session # None => reg.gen > 0
    BY DEF ServeInv
  <2> QED BY <1>0, <1>3, <2>1, NotifyMoves
<1>4. ASSUME ViewChange PROVE reg'.gen = reg.gen
  BY <1>0, <1>4 DEF ViewChange
<1>5. ASSUME NEW s \in Sessions, Detach(s) PROVE reg'.gen = reg.gen
  BY <1>0, <1>5 DEF Detach
<1>6. ASSUME UNCHANGED reg PROVE reg'.gen = reg.gen
  BY <1>6
<1>7. ASSUME NEW s \in Sessions, WriterStep(s) PROVE UNCHANGED reg
  BY <1>7 DEF WriterStep, WriterTop, WriterWakes, Replay, Rewrite, Write, Written
<1>8. ASSUME NEW s \in Sessions,
             Start(s) \/ HandleAck(s) \/ TakeResend(s) \/ Close(s) \/ SendRequest(s) \/ HostReceives(s) \/ HostAcks(s)
      PROVE  UNCHANGED reg
  BY <1>8 DEF Start, HandleAck, TakeResend, Close, SendRequest, HostReceives, HostAcks
<1>9. ASSUME NEW s \in Sessions, NEW q \in 1 .. MaxSeq, ExpireRequest(s, q) PROVE UNCHANGED reg
  BY <1>9 DEF ExpireRequest
<1>10. ASSUME NEW c \in pushes, Push(c) \/ AskRewrite(c) PROVE UNCHANGED reg
  BY <1>10 DEF Push, AskRewrite
<1>11. ASSUME HostLeaves \/ HostRestarts \/ UNCHANGED vars PROVE UNCHANGED reg
  BY <1>11 DEF HostLeaves, HostRestarts, vars
<1> QED
  BY <1>0, <1>1, <1>2, <1>3, <1>4, <1>5, <1>6, <1>7, <1>8, <1>9, <1>10, <1>11 DEF Next, LoopStep

\* What a step may do to the sequence spaces; only an attach of a new epoch
\* starts one over.
LEMMA SpacesGrow ==
  ASSUME DownLinkInv, ServeInv, GenInv, [Next]_vars
  PROVE  /\ \A e \in Epochs : ProtoGen(proto'[e], reg'.gen)
         /\ \/ \A e \in Epochs : Grows(proto[e], proto'[e])
            \/ /\ \E s \in Sessions : Attach(s)
               /\ reg.epoch # host.epoch /\ proto'[host.epoch] = NewProto
               /\ \A e \in Epochs \ {host.epoch} : Grows(proto[e], proto'[e])
<1> DEFINE Steps == \A e \in Epochs : Grows(proto[e], proto'[e]) /\ ProtoGen(proto'[e], reg'.gen)
<1>0. SessInv /\ RegInv /\ LinkInv /\ ProtoInv /\ reg.gen \in Nat /\ reg'.gen \in Nat /\ reg'.gen >= reg.gen
  BY RegGrows DEF DownLinkInv
<1>a. \A e \in Epochs : ProtoOK(proto[e]) /\ ProtoGen(proto[e], reg.gen)
  BY <1>0 DEF ProtoInv, GenInv
<1>b. \A e \in Epochs : /\ {proto[e].seq, proto[e].gen, proto[e].sentGen, proto[e].latest, proto[e].resend} \subseteq Nat
                        /\ proto[e].down.next \in Nat /\ proto[e].down.acked \in Nat
                        /\ proto[e].seq # 0 => proto[e].gen = proto[e].latest
  BY <1>a, Bounds DEF ProtoOK
<1>1. ASSUME UNCHANGED proto PROVE Steps
  BY <1>0, <1>1, <1>a, <1>b, Unchanged DEF ProtoGen
<1>2. ASSUME NEW c \in pushes, Push(c) PROVE Steps
  <2>1. CASE Finished(c.sess)
    BY <1>1, <1>2, <2>1 DEF Push
  <2>2. CASE ~Finished(c.sess)
    <3> DEFINE e == sess[c.sess].epoch
               a == PushProto(proto[e], c.gen)
    <3>1. e \in Epochs /\ c.gen \in Nat \ {0} /\ c.gen <= reg.gen
      BY <1>0, <2>2 DEF RegInv, Attached, SessInv, SessOK, Finished, GenInv
    <3>2. proto' = [proto EXCEPT ![e] = a]
      BY <1>2, <2>2 DEF Push
    <3>3. /\ a.down.acked = proto[e].down.acked
          /\ \/ c.gen < proto[e].latest /\ a = proto[e]
             \/ /\ c.gen >= proto[e].latest /\ a.latest = c.gen /\ a.resend = 0 /\ a.gen = c.gen
                /\ proto[e].seq # 0 /\ a.seq = proto[e].seq
                /\ a.sentGen = proto[e].sentGen /\ a.down.next = proto[e].down.next
             \/ /\ c.gen >= proto[e].latest /\ a.latest = c.gen /\ a.resend = 0 /\ a.gen = c.gen
                /\ proto[e].seq = 0 /\ a.seq = proto[e].down.next + 1
                /\ a.sentGen = 0 /\ a.down.next = proto[e].down.next + 1
      BY <1>a, <3>1, PushDoes
    <3> HIDE DEF a, e
    <3>4. ProtoGen(proto[e], reg.gen) /\ ProtoOK(proto[e])
      BY <1>a, <3>1
    <3>5. Grows(proto[e], a)
      BY <1>b, <3>1, <3>3 DEF Grows
    <3>6. ProtoGen(a, reg'.gen)
      BY <1>0, <1>b, <3>1, <3>3, <3>4 DEF ProtoGen
    <3> QED BY <1>0, <3>1, <3>2, <3>5, <3>6, SpaceStep
  <2> QED BY <2>1, <2>2
<1>3. ASSUME NEW s \in Sessions, SendRequest(s) PROVE Steps
  <2> DEFINE e == sess[s].epoch
             a == DispatchRequest(proto[e])
  <2>1. e \in Epochs
    BY <1>0, <1>3 DEF SendRequest, SessInv, SessOK, Finished
  <2>2. proto' = [proto EXCEPT ![e] = a]
    BY <1>3 DEF SendRequest
  <2>3. /\ a.down.next = proto[e].down.next + 1 /\ a.down.acked = proto[e].down.acked
        /\ a.seq = proto[e].seq /\ a.gen = proto[e].gen /\ a.sentGen = proto[e].sentGen
        /\ a.latest = proto[e].latest /\ a.resend = proto[e].resend
    BY <1>a, <2>1, DispatchDoes
  <2> HIDE DEF a, e
  <2>4. Grows(proto[e], a)
    BY <1>b, <2>1, <2>3 DEF Grows
  <2>5. ProtoGen(a, reg'.gen)
    BY <1>0, <1>a, <1>b, <2>1, <2>3 DEF ProtoGen
  <2> QED BY <1>0, <2>1, <2>2, <2>4, <2>5, SpaceStep
<1>4. ASSUME NEW s \in Sessions, HandleAck(s) PROVE Steps
  <2> DEFINE e == sess[s].epoch
             a == AckDown(proto[e], acks[s])
  <2>1. proto' = [proto EXCEPT ![e] = a] /\ sess[s].pc = "idle"
    BY <1>0, <1>4, HandleAckMoves
  <2>2. e \in Epochs /\ acks[s] \in Nat
    BY <1>0, <2>1 DEF SessInv, SessOK, LinkInv
  <2>3. /\ a.down.next = proto[e].down.next /\ a.down.acked \in Nat /\ a.down.acked >= proto[e].down.acked
        /\ a.latest = proto[e].latest
        /\ \/ a.seq = proto[e].seq /\ a.gen = proto[e].gen /\ a.sentGen = proto[e].sentGen /\ a.resend = proto[e].resend
           \/ /\ a.seq = 0 /\ a.resend = IF proto[e].sentGen < proto[e].gen THEN proto[e].latest ELSE proto[e].resend
    BY <1>a, <2>2, AckDownDoes
  <2> HIDE DEF a, e
  <2>4. Grows(proto[e], a)
    BY <1>b, <2>2, <2>3 DEF Grows
  <2>5. ProtoGen(a, reg'.gen)
    BY <1>0, <1>a, <1>b, <2>2, <2>3 DEF ProtoGen
  <2> QED BY <1>0, <2>1, <2>2, <2>4, <2>5, SpaceStep
<1>5. ASSUME NEW s \in Sessions, TakeResend(s) PROVE Steps
  <2> DEFINE e == sess[s].epoch
             a == [proto[e] EXCEPT !.resend = 0]
  <2>1. proto' = [proto EXCEPT ![e].resend = 0] /\ sess[s].pc = "take"
    BY <1>0, <1>5, TakeResendMoves
  <2>2. e \in Epochs
    BY <1>0, <2>1 DEF SessInv, SessOK
  <2>3. /\ a.down = proto[e].down /\ a.seq = proto[e].seq /\ a.gen = proto[e].gen /\ a.sentGen = proto[e].sentGen
        /\ a.latest = proto[e].latest /\ a.resend = 0
    BY <1>a, <2>2 DEF ProtoOK
  <2>4. proto' = [proto EXCEPT ![e] = a]
    BY <2>1
  <2> HIDE DEF a, e
  <2>5. Grows(proto[e], a)
    BY <1>b, <2>2, <2>3 DEF Grows
  <2>6. ProtoGen(a, reg'.gen)
    BY <1>0, <1>a, <1>b, <2>2, <2>3 DEF ProtoGen
  <2> QED BY <1>0, <2>2, <2>4, <2>5, <2>6, SpaceStep
<1>6. ASSUME NEW s \in Sessions, NEW q \in 1 .. MaxSeq, ExpireRequest(s, q) PROVE Steps
  <2> DEFINE e == sess[s].epoch
  <2>1. sess[s].pc = "idle" /\ \E r : proto' = [proto EXCEPT ![e].reqAcks = r]
    BY <1>6 DEF ExpireRequest
  <2>2. e \in Epochs
    BY <1>0, <2>1 DEF SessInv, SessOK
  <2>3. PICK r : proto' = [proto EXCEPT ![e].reqAcks = r]
    BY <2>1
  <2> DEFINE a == [proto[e] EXCEPT !.reqAcks = r]
  <2>4. /\ a.down = proto[e].down /\ a.seq = proto[e].seq /\ a.gen = proto[e].gen /\ a.sentGen = proto[e].sentGen
        /\ a.latest = proto[e].latest /\ a.resend = proto[e].resend
    BY <1>a, <2>2 DEF ProtoOK
  <2>5. proto' = [proto EXCEPT ![e] = a]
    BY <2>3
  <2> HIDE DEF a, e
  <2>6. Grows(proto[e], a)
    BY <1>b, <2>2, <2>4 DEF Grows
  <2>7. ProtoGen(a, reg'.gen)
    BY <1>0, <1>a, <1>b, <2>2, <2>4 DEF ProtoGen
  <2> QED BY <1>0, <2>2, <2>5, <2>6, <2>7, SpaceStep
<1>7. ASSUME NEW s \in Sessions, Written(s) PROVE Steps
  <2> DEFINE e == sess[s].epoch
             f == Head(sess[s].batch)
             a == NoteWritten(proto[e], f[1], f[2])
  <2>1. proto' = [proto EXCEPT ![e] = a] /\ sess[s].wpc = "note"
    BY <1>0, <1>7, WrittenMoves
  <2>2. e \in Epochs /\ sess[s].batch \in Seq(Frames) /\ sess[s].batch # << >>
    BY <1>0, <2>1 DEF SessInv, SessOK
  <2>3. f \in ToSet(sess[s].batch) /\ f \in Frames
    BY <2>2, SetOfSeq
  <2>4. HeldOK(s, f) /\ f[2] \in Nat
    BY <2>3 DEF GenInv, Frames
  <2>5. /\ a.down = proto[e].down
        /\ a.seq = proto[e].seq /\ a.gen = proto[e].gen /\ a.latest = proto[e].latest /\ a.resend = proto[e].resend
        /\ a.sentGen = proto[e].sentGen \/ (f[1] = proto[e].seq /\ a.sentGen = f[2])
    BY <1>a, <2>2, <2>4, NoteDoes
  <2>6. f[1] = proto[e].seq => f[2] <= proto[e].gen
    BY <2>4 DEF HeldOK
  <2> HIDE DEF a, e, f
  <2>7. Grows(proto[e], a)
    BY <1>b, <2>2, <2>5 DEF Grows
  <2>8. ProtoGen(a, reg'.gen)
    BY <1>0, <1>a, <1>b, <2>2, <2>4, <2>5, <2>6 DEF ProtoGen
  <2> QED BY <1>0, <2>1, <2>2, <2>7, <2>8, SpaceStep
<1>8. ASSUME NEW s \in Sessions, Attach(s)
      PROVE  Steps \/ (/\ \A e \in Epochs : ProtoGen(proto'[e], reg'.gen)
                       /\ reg.epoch # host.epoch /\ proto'[host.epoch] = NewProto
                       /\ \A e \in Epochs \ {host.epoch} : Grows(proto[e], proto'[e]))
  <2> DEFINE e == host.epoch
  <2>1. /\ e \in Epochs /\ host.rcv.acked \in Nat
        /\ proto' = [proto EXCEPT ![e] = IF reg.epoch = e THEN AttachProto(proto[e], host.rcv.acked) ELSE NewProto]
    <3>1. host.epoch \in Epochs /\ host.rcv.acked \in Nat
      BY <1>0, Bounds DEF LinkInv
    <3> QED BY <1>0, <1>8, <3>1, AttachMoves
  <2>2. CASE reg.epoch = e
    <3> DEFINE b == AckDown(proto[e], host.rcv.acked)
               a == AttachProto(proto[e], host.rcv.acked)
    <3>1. /\ b.down.next = proto[e].down.next /\ b.down.acked \in Nat /\ b.down.acked >= proto[e].down.acked
          /\ b.latest = proto[e].latest
          /\ \/ b.seq = proto[e].seq /\ b.gen = proto[e].gen /\ b.sentGen = proto[e].sentGen
             \/ b.seq = 0
      BY <1>a, <2>1, AckDownDoes
    <3>2. ProtoOK(b)
      BY <1>a, <2>1, AckDownOK
    <3>3. a = [b EXCEPT !.resend = 0] \/ a = proto[e]
      BY DEF AttachProto
    <3>4. proto' = [proto EXCEPT ![e] = a]
      BY <2>1, <2>2
    <3> HIDE DEF a, b, e
    <3>5. DOMAIN b = {"down", "seq", "gen", "sentGen", "latest", "resend", "reqAcks"}
      BY <3>2 DEF ProtoOK
    <3>6. /\ a.down.next = proto[e].down.next /\ a.down.acked \in Nat /\ a.down.acked >= proto[e].down.acked
          /\ a.latest = proto[e].latest /\ (a.resend = 0 \/ a.resend = proto[e].resend)
          /\ \/ a.seq = proto[e].seq /\ a.gen = proto[e].gen /\ a.sentGen = proto[e].sentGen
             \/ a.seq = 0
      BY <1>b, <2>1, <3>1, <3>3, <3>5
    <3>7. Grows(proto[e], a)
      BY <1>b, <2>1, <3>6 DEF Grows
    <3>8. ProtoGen(a, reg'.gen)
      BY <1>0, <1>a, <1>b, <2>1, <3>6 DEF ProtoGen
    <3>9. Steps
      BY <1>0, <2>1, <3>4, <3>7, <3>8, SpaceStep
    <3> QED BY <3>9
  <2>3. CASE reg.epoch # e
    <3>1. proto' = [proto EXCEPT ![e] = NewProto]
      BY <2>1, <2>3
    <3>2. proto'[e] = NewProto /\ \A f \in Epochs : f # e => proto'[f] = proto[f]
      BY <1>0, <2>1, <3>1 DEF ProtoInv
    <3>3. ProtoGen(NewProto, reg'.gen)
      BY <1>0 DEF ProtoGen, NewProto
    <3>4. ASSUME NEW f \in Epochs, f # e PROVE Grows(proto[f], proto'[f]) /\ ProtoGen(proto'[f], reg'.gen)
      BY <1>0, <1>a, <1>b, <3>2, <3>4, Unchanged DEF ProtoGen
    <3> QED BY <2>3, <3>2, <3>3, <3>4
  <2> QED BY <2>2, <2>3
<1>9. ASSUME NEW s \in Sessions,
             WriterTop(s) \/ WriterWakes(s) \/ Replay(s) \/ Rewrite(s) \/ Write(s)
      PROVE  UNCHANGED proto
  BY <1>9 DEF WriterTop, WriterWakes, Replay, Rewrite, Write
<1>10. ASSUME NEW s \in Sessions,
              Start(s) \/ Close(s) \/ Detach(s) \/ HostReceives(s) \/ HostAcks(s)
       PROVE  UNCHANGED proto
  BY <1>10 DEF Start, Close, Detach, HostReceives, HostAcks
<1>11. ASSUME NEW c \in pushes, AskRewrite(c) PROVE UNCHANGED proto
  BY <1>11 DEF AskRewrite
<1>12. ASSUME ViewChange \/ Notify \/ HostLeaves \/ HostRestarts \/ UNCHANGED vars PROVE UNCHANGED proto
  BY <1>12 DEF ViewChange, Notify, HostLeaves, HostRestarts, vars
<1> HIDE DEF Steps
<1>13. \/ Steps
       \/ /\ \E s \in Sessions : Attach(s)
          /\ \A e \in Epochs : ProtoGen(proto'[e], reg'.gen)
          /\ reg.epoch # host.epoch /\ proto'[host.epoch] = NewProto
          /\ \A e \in Epochs \ {host.epoch} : Grows(proto[e], proto'[e])
  BY <1>1, <1>2, <1>3, <1>4, <1>5, <1>6, <1>7, <1>8, <1>9, <1>10, <1>11, <1>12 DEF Next, LoopStep, WriterStep
<1> QED BY <1>13 DEF Steps

\* A frame taken from the log.
LEMMA LoggedHeld ==
  ASSUME ProtoInv, GenInv, reg.gen \in Nat, NEW t \in Sessions, sess[t].epoch \in Epochs,
         NEW x, x[1] \in DOMAIN proto[sess[t].epoch].down.log, x[2] = proto[sess[t].epoch].down.log[x[1]]
  PROVE  HeldOK(t, x)
<1> DEFINE p == proto[sess[t].epoch]
<1>1. ProtoOK(p) /\ ProtoGen(p, reg.gen)
  BY DEF ProtoInv, GenInv
<1> HIDE DEF p
<1>2. x[1] \in DOMAIN p.down.log /\ x[2] = p.down.log[x[1]]
  BY DEF p
<1>3. x[1] \in 1 .. p.down.next
  BY <1>1, <1>2, Bounds DEF ProtoOK
<1>4. x[1] = p.seq => x[2] = p.gen /\ p.gen = p.latest
  BY <1>1, <1>2, <1>3 DEF ProtoOK
<1>5. x[1] # p.seq => x[2] = 0
  BY <1>1, <1>2 DEF ProtoOK, Request
<1>6. {p.gen, p.latest} \subseteq Nat /\ p.latest <= reg.gen
  BY <1>1 DEF ProtoOK, ProtoGen
<1>7. x[2] <= reg.gen /\ (x[1] = p.seq => x[2] <= p.gen)
  BY <1>4, <1>5, <1>6
<1> QED BY <1>3, <1>7 DEF HeldOK, p

\* A frame stays what HeldOK says of it as its space grows.
LEMMA HeldKept ==
  ASSUME DownLinkInv, ServeInv, GenInv, [Next]_vars,
         NEW t \in Sessions, sess[t].pc # "new", sess'[t].epoch = sess[t].epoch,
         NEW x \in Frames, HeldOK(t, x)
  PROVE  HeldOK(t, x)'
<1> DEFINE e == sess[t].epoch
           p == proto[e]
           a == proto'[e]
<1>1. e \in Epochs /\ e \in Nat
  BY Bounds DEF DownLinkInv, SessInv, SessOK, Epochs
<1>2. Grows(p, a)
  <2>1. e <= reg.epoch /\ reg.epoch <= host.epoch /\ reg.epoch \in Nat
    BY DEF ServeInv
  <2>2. host.epoch \in Nat
    BY Bounds DEF DownLinkInv, LinkInv, Epochs
  <2>3. reg.epoch # host.epoch => e # host.epoch
    BY <1>1, <2>1, <2>2
  <2> HIDE DEF e
  <2>4. \/ \A f \in Epochs : Grows(proto[f], proto'[f])
        \/ reg.epoch # host.epoch /\ \A f \in Epochs \ {host.epoch} : Grows(proto[f], proto'[f])
    BY SpacesGrow
  <2> QED BY <1>1, <2>3, <2>4
<1>3. reg.gen \in Nat /\ reg'.gen \in Nat /\ reg'.gen >= reg.gen
  BY RegGrows
<1>4. ProtoOK(p) /\ p.seq \in Nat /\ p.gen \in Nat /\ p.down.next \in Nat
  <2>1. ProtoOK(p)
    BY <1>1 DEF DownLinkInv, ProtoInv
  <2> HIDE DEF p
  <2> QED BY <2>1, Bounds DEF ProtoOK
<1>5. ProtoOK(a) /\ a.seq \in Nat /\ a.gen \in Nat /\ a.down.next \in Nat
  <2>1. ProtoInv'
    BY ProtoStep DEF DownLinkInv
  <2>2. ProtoOK(a)
    BY <1>1, <2>1 DEF ProtoInv
  <2> HIDE DEF a
  <2> QED BY <2>2, Bounds DEF ProtoOK
<1>6. x[1] \in 1 .. p.down.next /\ x[2] <= reg.gen /\ (x[1] = p.seq => x[2] <= p.gen) /\ x[2] \in Nat
  BY DEF HeldOK, Frames
<1> HIDE DEF p, a
<1>7. x[1] \in 1 .. a.down.next /\ x[2] <= reg'.gen
  BY <1>2, <1>3, <1>4, <1>5, <1>6 DEF Grows
<1>8. x[1] = a.seq => x[2] <= a.gen
  BY <1>2, <1>4, <1>5, <1>6 DEF Grows
<1> QED BY <1>7, <1>8 DEF HeldOK, a

\* What a writer holds after a step it held before, or took from the log.
LEMMA BatchMoves ==
  ASSUME DownLinkInv, ServeInv, [Next]_vars, NEW t \in Sessions, NEW x \in ToSet(sess'[t].batch)
  PROVE  LET log == proto[sess[t].epoch].down.log
         IN  sess[t].pc # "new" /\ (x \in ToSet(sess[t].batch) \/ (x[1] \in DOMAIN log /\ x[2] = log[x[1]]))
<1> DEFINE log == proto[sess[t].epoch].down.log
           Goal == sess[t].pc # "new" /\ (x \in ToSet(sess[t].batch) \/ (x[1] \in DOMAIN log /\ x[2] = log[x[1]]))
<1>0. /\ SessInv /\ RegInv /\ LinkInv /\ SessOK(sess[t]) /\ sess[t].batch \in Seq(Frames)
      /\ sess[t].pc = "new" => sess[t].batch = << >>
      /\ sess[t].wpc # "none" => sess[t].pc # "new"
      /\ \A s \in Sessions : sess[s].old # s
  BY SessionNumbers DEF DownLinkInv, SessInv, SessOK, ServeInv
<1>a. ToSet(<< >>) = {}
  BY DEF ToSet
<1>1. ASSUME sess'[t].batch = sess[t].batch PROVE Goal
  BY <1>0, <1>1, <1>a
<1>2. ASSUME sess[t].wpc # "none",
             \/ sess'[t].batch = << >>
             \/ \E seq \in Nat : sess'[t].batch = EntriesAfter(proto[sess[t].epoch], seq)
             \/ sess'[t].batch = OldestUnacked(proto[sess[t].epoch])
             \/ \E q \in DOMAIN log : sess'[t].batch = << << q, log[q] >> >>
      PROVE  Goal
  <2>1. sess[t].pc # "new" /\ ProtoOK(proto[sess[t].epoch])
    BY <1>0, <1>2 DEF SessOK, DownLinkInv, ProtoInv
  <2>2. CASE sess'[t].batch = << >>
    BY <1>a, <2>2
  <2>3. ASSUME NEW seq \in Nat, sess'[t].batch = EntriesAfter(proto[sess[t].epoch], seq) PROVE Goal
    BY <2>1, <2>3, EntriesAreLogged
  <2>4. CASE sess'[t].batch = OldestUnacked(proto[sess[t].epoch])
    BY <2>1, <2>4, OldestAreLogged
  <2>5. ASSUME NEW q \in DOMAIN log, sess'[t].batch = << << q, log[q] >> >> PROVE Goal
    <3>1. x = << q, log[q] >>
      BY <2>5 DEF ToSet
    <3> HIDE DEF log
    <3> QED BY <2>1, <2>5, <3>1
  <2> QED BY <1>2, <2>2, <2>3, <2>4, <2>5
<1>3. ASSUME UNCHANGED sess PROVE Goal
  BY <1>1, <1>3
<1>4. ASSUME NEW s \in Sessions, WriterStep(s) PROVE Goal
  <2>1. CASE t # s
    <3>1. SameButWriter(s)
      BY <1>0, <1>4, WriterMoves
    <3> QED BY <1>1, <2>1, <3>1 DEF SameButWriter
  <2>2. CASE t = s
    <3>1. CASE WriterTop(s)
      <4>1. sess[s].written \in Nat
        BY <1>0, <2>2 DEF SessOK
      <4>2. /\ sess[s].wpc = "top"
            /\ sess'[s].batch = << >> \/ sess'[s].batch = EntriesAfter(proto[sess[s].epoch], sess[s].written)
        BY <1>0, <3>1, WriterTopMoves
      <4> QED BY <1>2, <2>2, <4>1, <4>2
    <3>2. CASE WriterWakes(s)
      <4>1. sess[s].wpc = "select" /\ sess'[s].batch = << >>
        BY <1>0, <3>2, WriterWakesMoves
      <4> QED BY <1>2, <2>2, <4>1
    <3>3. CASE Replay(s)
      <4>1. sess[s].wpc = "select" /\ sess'[s].batch = OldestUnacked(proto[sess[s].epoch])
        BY <1>0, <3>3, ReplayMoves
      <4> QED BY <1>2, <2>2, <4>1
    <3>4. CASE Rewrite(s)
      <4>1. /\ sess[s].wpc = "select"
            /\ \/ sess'[s].batch = << >>
               \/ \E q \in DOMAIN proto[sess[s].epoch].down.log :
                      sess'[s].batch = << << q, proto[sess[s].epoch].down.log[q] >> >>
        BY <1>0, <3>4, RewriteMoves
      <4> QED BY <1>2, <2>2, <4>1
    <3>5. CASE Write(s)
      <4>1. sess[s].wpc = "write" /\ (sess'[s].batch = << >> \/ sess'[s].batch = sess[s].batch)
        BY <1>0, <3>5, WriteMoves
      <4> QED BY <1>1, <1>2, <2>2, <4>1
    <3>6. CASE Written(s)
      <4>1. sess[s].wpc = "note" /\ sess'[s].batch = Tail(sess[s].batch)
        BY <1>0, <3>6, WrittenMoves
      <4>2. sess[s].batch # << >> /\ sess[s].pc # "new"
        BY <1>0, <2>2, <4>1 DEF SessOK
      <4>3. x \in ToSet(sess[s].batch)
        BY <1>0, <2>2, <4>1, <4>2, SetOfSeq
      <4> QED BY <2>2, <4>2, <4>3
    <3> QED BY <1>4, <3>1, <3>2, <3>3, <3>4, <3>5, <3>6 DEF WriterStep
  <2> QED BY <2>1, <2>2
<1>5. ASSUME NEW s \in Sessions, HandleAck(s) \/ TakeResend(s) \/ Close(s) \/ Detach(s) PROVE Goal
  <2>1. SameButPc(s)
    BY <1>0, <1>5, HandleAckMoves, TakeResendMoves, CloseMoves, DetachMoves
  <2>2. sess'[t].batch = sess[t].batch
    BY <2>1 DEF SameButPc
  <2> QED BY <1>1, <2>2
<1>6. ASSUME NEW s \in Sessions, Start(s) PROVE Goal
  <2>1. sess'[s].batch = sess[s].batch
    BY <1>0, <1>6, StartMoves
  <2>2. \A u \in Sessions : u # s =>
                /\ sess'[u].pc = sess[u].pc /\ sess'[u].epoch = sess[u].epoch
                /\ sess'[u].old = sess[u].old /\ sess'[u].aud = sess[u].aud
                /\ sess'[u].wpc = sess[u].wpc /\ sess'[u].batch = sess[u].batch
                /\ sess'[u].written = sess[u].written
                /\ u # sess[s].old => sess'[u].stop = sess[u].stop
    BY <1>0, <1>6, StartMoves
  <2> QED BY <1>1, <2>1, <2>2
<1>7. ASSUME NEW s \in Sessions, Attach(s) PROVE Goal
  <2>1. sess[s].pc = "new" /\ sess'[s].batch = << >> /\ \A u \in Sessions : u # s => sess'[u] = sess[u]
    BY <1>0, <1>7, AttachMoves
  <2> QED BY <1>1, <1>a, <2>1
<1>8. ASSUME NEW c \in pushes, AskRewrite(c) PROVE Goal
  <2>1. sess'[t].batch = sess[t].batch
    BY <1>0, <1>8, AskRewriteMoves
  <2> QED BY <1>1, <2>1
<1>9. ASSUME NEW s \in Sessions, SendRequest(s) \/ HostReceives(s) \/ HostAcks(s) PROVE UNCHANGED sess
  BY <1>9 DEF SendRequest, HostReceives, HostAcks
<1>10. ASSUME NEW s \in Sessions, NEW q \in 1 .. MaxSeq, ExpireRequest(s, q) PROVE UNCHANGED sess
  BY <1>10 DEF ExpireRequest
<1>11. ASSUME NEW c \in pushes, Push(c) PROVE UNCHANGED sess
  BY <1>11 DEF Push
<1>12. ASSUME ViewChange \/ Notify \/ HostLeaves \/ HostRestarts \/ UNCHANGED vars PROVE UNCHANGED sess
  BY <1>12 DEF ViewChange, Notify, HostLeaves, HostRestarts, vars
<1> HIDE DEF Goal
<1>13. Goal
  BY <1>3, <1>4, <1>5, <1>6, <1>7, <1>8, <1>9, <1>10, <1>11, <1>12 DEF Next, LoopStep
<1> QED BY <1>13 DEF Goal

\* No step brings a generation newer than the registered one.
LEMMA GenStep ==
  ASSUME DownLinkInv, ServeInv, GenInv, [Next]_vars
  PROVE  GenInv'
<1> DEFINE PushGens == \A c \in pushes' : c.gen <= reg'.gen
           Auds == \A t \in Sessions : sess'[t].aud <= reg'.gen
<1>0. SessInv /\ RegInv /\ LinkInv /\ ProtoInv /\ \A s \in Sessions : SessOK(sess[s]) /\ sess[s].old # s
  BY SessionNumbers DEF DownLinkInv, SessInv, ServeInv
<1>a. reg.gen \in Nat /\ reg'.gen \in Nat /\ reg'.gen >= reg.gen
  BY RegGrows
<1>b. /\ \A c \in pushes : c.gen \in Nat /\ c.gen <= reg'.gen
      /\ \A t \in Sessions : sess[t].aud \in Nat /\ sess[t].aud <= reg'.gen
  BY <1>0, <1>a DEF GenInv, RegInv, SessOK
<1>1. ASSUME UNCHANGED pushes PROVE PushGens
  BY <1>1, <1>b
<1>2. ASSUME \A t \in Sessions : sess'[t].aud = sess[t].aud PROVE Auds
  BY <1>2, <1>b
<1>3. ASSUME Notify PROVE PushGens /\ UNCHANGED sess
  <2>1. reg.session # None => reg.gen > 0
    BY DEF ServeInv
  <2>2. /\ UNCHANGED << proto, sess, link, acks, host, histVars >>
        /\ \/ reg' = reg /\ pushes' = pushes /\ reg.session = None
           \/ reg'.gen = reg.gen /\ pushes' = pushes /\ ~reg'.stale
           \/ /\ reg.session # None /\ reg'.gen = reg.gen + 1 /\ ~reg'.stale
              /\ pushes' = pushes \cup {[by |-> None, sess |-> reg.session, gen |-> reg.gen + 1, seq |-> 0]}
    BY <1>0, <1>3, <2>1, NotifyMoves
  <2> QED BY <1>1, <1>a, <1>b, <2>2
<1>4. ASSUME NEW c \in pushes, Push(c) PROVE PushGens /\ UNCHANGED sess
  <2>1. \/ pushes' = pushes \ {c}
        \/ \E q : pushes' = (pushes \ {c}) \cup {[c EXCEPT !.seq = q]}
        \/ pushes' = (pushes \ {c}) \cup {}
    BY <1>4 DEF Push
  <2>2. \A q : [c EXCEPT !.seq = q].gen = c.gen
    BY <1>0 DEF RegInv
  <2>3. \A d \in pushes' : d \in pushes \/ d.gen = c.gen
    <3>1. ASSUME NEW q, pushes' = (pushes \ {c}) \cup {[c EXCEPT !.seq = q]}, NEW d \in pushes'
          PROVE  d \in pushes \/ d.gen = c.gen
      <4>1. d \in pushes \/ d = [c EXCEPT !.seq = q]
        BY <3>1
      <4> QED BY <2>2, <4>1
    <3> QED BY <2>1, <3>1
  <2> QED BY <1>4, <1>b, <2>3 DEF Push
<1>5. ASSUME NEW c \in pushes, AskRewrite(c) PROVE PushGens /\ Auds
  <2>1. pushes' = pushes \ {c} /\ \A t \in Sessions : sess'[t].aud = sess[t].aud
    BY <1>0, <1>5, AskRewriteMoves
  <2> QED BY <1>2, <1>b, <2>1
<1>6. ASSUME NEW s \in Sessions, Attach(s) PROVE PushGens /\ Auds
  <2>1. /\ \A t \in Sessions : t # s => sess'[t] = sess[t]
        /\ sess'[s].aud = reg'.gen /\ UNCHANGED << notifiers, pushes, link, acks, histVars >>
    BY <1>0, <1>6, AttachMoves
  <2> QED BY <1>1, <1>a, <1>b, <2>1
<1>7. ASSUME NEW s \in Sessions, Start(s) PROVE PushGens /\ Auds
  <2>1. sess'[s].aud = 0 /\ UNCHANGED << reg, notifiers, proto, pushes, acks, host, histVars >>
    BY <1>0, <1>7, StartMoves
  <2>2. \A u \in Sessions : u # s =>
                /\ sess'[u].pc = sess[u].pc /\ sess'[u].epoch = sess[u].epoch
                /\ sess'[u].old = sess[u].old /\ sess'[u].aud = sess[u].aud
                /\ sess'[u].wpc = sess[u].wpc /\ sess'[u].batch = sess[u].batch
                /\ sess'[u].written = sess[u].written
                /\ u # sess[s].old => sess'[u].stop = sess[u].stop
    BY <1>0, <1>7, StartMoves
  <2> QED BY <1>1, <1>a, <1>b, <2>1, <2>2
<1>8. ASSUME NEW s \in Sessions, HandleAck(s) \/ Close(s) \/ Detach(s) PROVE PushGens /\ Auds
  <2>1. SameButPc(s) /\ UNCHANGED pushes
    BY <1>0, <1>8, HandleAckMoves, CloseMoves, DetachMoves
  <2> QED BY <1>1, <1>2, <2>1 DEF SameButPc
<1>9. ASSUME NEW s \in Sessions, TakeResend(s) PROVE PushGens /\ Auds
  <2> DEFINE g == proto[sess[s].epoch].resend
  <2>1. SameButPc(s) /\ sess[s].pc = "take"
    BY <1>0, <1>9, TakeResendMoves
  <2>2. pushes' = IF g = 0 THEN pushes ELSE pushes \cup {[by |-> s, sess |-> s, gen |-> g, seq |-> 0]}
    BY <1>0, <1>9, TakeResendMoves
  <2>3. g \in Nat /\ g <= reg.gen
    BY <1>0, <2>1 DEF SessOK, ProtoInv, ProtoOK, GenInv, ProtoGen
  <2> HIDE DEF g
  <2>4. PushGens
    BY <1>a, <1>b, <2>2, <2>3
  <2> QED BY <1>2, <2>1, <2>4 DEF SameButPc
<1>10. ASSUME NEW s \in Sessions, WriterStep(s) PROVE PushGens /\ Auds
  <2>1. SameButWriter(s) /\ UNCHANGED pushes
    BY <1>0, <1>10, WriterMoves
  <2> QED BY <1>1, <1>2, <2>1 DEF SameButWriter
<1>11. ASSUME UNCHANGED sess PROVE Auds
  BY <1>2, <1>11
<1>12. ASSUME NEW s \in Sessions, SendRequest(s) \/ HostReceives(s) \/ HostAcks(s) PROVE UNCHANGED << sess, pushes >>
  BY <1>12 DEF SendRequest, HostReceives, HostAcks
<1>13. ASSUME NEW s \in Sessions, NEW q \in 1 .. MaxSeq, ExpireRequest(s, q) PROVE UNCHANGED << sess, pushes >>
  BY <1>13 DEF ExpireRequest
<1>14. ASSUME ViewChange \/ HostLeaves \/ HostRestarts \/ UNCHANGED vars PROVE UNCHANGED << sess, pushes >>
  BY <1>14 DEF ViewChange, HostLeaves, HostRestarts, vars
<1> HIDE DEF PushGens, Auds
<1>15. PushGens /\ Auds
  BY <1>1, <1>3, <1>4, <1>5, <1>6, <1>7, <1>8, <1>9, <1>10, <1>11, <1>12, <1>13, <1>14 DEF Next, LoopStep
<1>16. ASSUME NEW t \in Sessions, NEW x \in ToSet(sess'[t].batch) PROVE HeldOK(t, x)'
  <2>1. /\ sess[t].pc # "new"
        /\ \/ x \in ToSet(sess[t].batch)
           \/ x[1] \in DOMAIN proto[sess[t].epoch].down.log /\ x[2] = proto[sess[t].epoch].down.log[x[1]]
    BY BatchMoves
  <2>2. SessInv'
    BY SessStep DEF DownLinkInv
  <2>3. x \in Frames
    BY <2>2, SetOfSeq DEF SessInv, SessOK
  <2>4. HeldOK(t, x)
    <3>1. CASE x \in ToSet(sess[t].batch)
      BY <3>1 DEF GenInv
    <3>2. CASE x[1] \in DOMAIN proto[sess[t].epoch].down.log /\ x[2] = proto[sess[t].epoch].down.log[x[1]]
      <4>1. sess[t].epoch \in Epochs
        BY <1>0, <2>1 DEF SessOK
      <4> QED BY <1>0, <1>a, <3>2, <4>1, LoggedHeld
    <3> QED BY <2>1, <3>1, <3>2
  <2>5. sess'[t].epoch = sess[t].epoch
    BY <1>0, <2>1, AttachedStay
  <2> QED BY <2>1, <2>3, <2>4, <2>5, HeldKept
<1>17. \A e \in Epochs : ProtoGen(proto'[e], reg'.gen)
  BY SpacesGrow
<1> QED BY <1>15, <1>16, <1>17 DEF GenInv, PushGens, Auds

LEMMA GreatestElement ==
  ASSUME NEW T \in SUBSET Nat, T # {}, NEW n \in Nat, \A k \in T : k <= n
  PROVE  \E m \in T : \A k \in T : k <= m
<1> DEFINE D == {j \in Nat : \E k \in T : j = n - k}
<1>1. D \in SUBSET Nat /\ D # {}
  <2>1. PICK k \in T : TRUE
    OBVIOUS
  <2>2. n - k \in D
    BY <2>1
  <2> QED BY <2>2
<1>2. PICK j \in D : \A i \in D : j <= i
  BY <1>1, LeastElement
<1>3. PICK m \in T : j = n - m
  BY <1>2
<1>4. \A k \in T : n - k \in D
  OBVIOUS
<1> QED BY <1>2, <1>3, <1>4

\* Receiver.Accept of a receiver whose window is as wide as the seqs: nothing
\* overflows.
LEMMA ReceiverDoes ==
  ASSUME NEW r, DOMAIN r = {"acked", "window", "buf"}, r.acked \in Nat, r.window = MaxSeq,
         NEW n \in 0 .. MaxSeq, \A q \in DOMAIN r.buf : q \in Nat /\ r.acked + 1 < q /\ q <= n,
         NEW seq \in 0 .. n, NEW x, NEW a, a = AcceptReceiver(r, seq, x)
  PROVE  /\ a.window = MaxSeq
         /\ seq <= r.acked => a = r /\ seq \notin DOMAIN r.buf
         /\ seq > r.acked + 1 =>
                /\ ToSet(AcceptReady(r, seq, x)) = {} /\ a.acked = r.acked
                /\ seq \in DOMAIN r.buf => a = r
                /\ seq \notin DOMAIN r.buf => /\ DOMAIN a.buf = DOMAIN r.buf \cup {seq} /\ a.buf[seq] = x
                                              /\ \A q \in DOMAIN r.buf : a.buf[q] = r.buf[q]
         /\ seq = r.acked + 1 =>
                /\ seq \notin DOMAIN r.buf /\ a.acked \in seq .. n
                /\ ToSet(AcceptReady(r, seq, x)) = {x} \cup {r.buf[q] : q \in {d \in DOMAIN r.buf : d <= a.acked}}
                /\ DOMAIN a.buf = {d \in DOMAIN r.buf : d > a.acked} /\ \A q \in DOMAIN a.buf : a.buf[q] = r.buf[q]
                /\ \A q \in DOMAIN a.buf : a.acked + 1 < q
<1>0. MaxSeq \in Nat \ {0} /\ n \in Nat /\ seq \in Nat
  BY Bounds
<1>1. CASE seq <= r.acked
  <2>1. ~IsNext(r, seq) /\ ~IsGap(r, seq)
    BY <1>0, <1>1 DEF IsNext, IsGap
  <2>2. a = r
    BY <2>1 DEF AcceptReceiver
  <2> QED BY <1>0, <1>1, <2>2
<1>2. CASE seq > r.acked + 1 /\ seq \in DOMAIN r.buf
  <2>1. ~IsNext(r, seq) /\ ~IsGap(r, seq)
    BY <1>0, <1>2 DEF IsNext, IsGap
  <2>2. a = r
    BY <2>1 DEF AcceptReceiver
  <2>3. ToSet(AcceptReady(r, seq, x)) = {}
    BY <2>1 DEF AcceptReady, ToSet
  <2> QED BY <1>0, <1>2, <2>2, <2>3
<1>3. CASE seq > r.acked + 1 /\ seq \notin DOMAIN r.buf
  <2>1. ~IsNext(r, seq) /\ IsGap(r, seq)
    BY <1>0, <1>3 DEF IsNext, IsGap
  <2>2. IsFiniteSet(2 .. MaxSeq) /\ Cardinality(2 .. MaxSeq) < MaxSeq
    <3>1. 2 \in Int /\ MaxSeq \in Int
      BY <1>0
    <3>2. IsFiniteSet(2 .. MaxSeq) /\ Cardinality(2 .. MaxSeq) = IF 2 > MaxSeq THEN 0 ELSE MaxSeq - 2 + 1
      BY <3>1, FS_Interval
    <3> QED BY <1>0, <3>2
  <2>3. DOMAIN r.buf \in SUBSET (2 .. MaxSeq)
    BY <1>0
  <2>4. Cardinality(DOMAIN r.buf) <= Cardinality(2 .. MaxSeq) /\ IsFiniteSet(DOMAIN r.buf)
    BY <2>2, <2>3, FS_Subset
  <2>5. Cardinality(DOMAIN r.buf) \in Nat /\ Cardinality(2 .. MaxSeq) \in Nat
    BY <2>2, <2>4, FS_CardinalityType
  <2>6. ~Overflows(r, seq)
    BY <1>0, <2>2, <2>4, <2>5 DEF Overflows
  <2>7. a = [acked |-> r.acked, window |-> r.window,
             buf |-> [q \in DOMAIN r.buf \cup {seq} |-> IF q = seq THEN x ELSE r.buf[q]]]
    BY <2>1, <2>6 DEF AcceptReceiver, Park
  <2>8. a.acked = r.acked /\ a.window = MaxSeq /\ DOMAIN a.buf = DOMAIN r.buf \cup {seq} /\ a.buf[seq] = x
        /\ \A q \in DOMAIN r.buf : q # seq => a.buf[q] = r.buf[q]
    BY <2>7
  <2>9. ToSet(AcceptReady(r, seq, x)) = {}
    BY <2>1 DEF AcceptReady, ToSet
  <2> QED BY <1>0, <1>3, <2>8, <2>9
<1>4. CASE seq = r.acked + 1
  <2> DEFINE k == RunEnd(r.buf, seq)
             ready == [i \in 1 .. (k - seq + 1) |-> IF i = 1 THEN x ELSE r.buf[seq + i - 1]]
  <2>1. IsNext(r, seq) /\ seq \notin DOMAIN r.buf
    BY <1>0, <1>4 DEF IsNext
  <2>2. DOMAIN r.buf \subseteq 0 .. n
    BY <1>0
  <2>3. k \in Nat /\ seq <= k /\ k <= n /\ (\A q \in (seq + 1) .. k : q \in DOMAIN r.buf) /\ k + 1 \notin DOMAIN r.buf
    BY <1>0, <2>2, RunEndIsEndOfRun
  <2>4. a = [acked |-> k, window |-> r.window, buf |-> [q \in {d \in DOMAIN r.buf : d > k} |-> r.buf[q]]]
    BY <2>1 DEF AcceptReceiver, DrainBehind
  <2>5. AcceptReady(r, seq, x) = ready
    BY <2>1 DEF AcceptReady
  <2> HIDE DEF k
  <2>6. a.acked = k /\ a.window = MaxSeq /\ DOMAIN a.buf = {d \in DOMAIN r.buf : d > k} /\ \A q \in DOMAIN a.buf : a.buf[q] = r.buf[q]
    BY <2>4
  <2>7. ToSet(ready) = {ready[i] : i \in 1 .. (k - seq + 1)}
    BY DEF ToSet
  <2>8. ASSUME NEW i \in 1 .. (k - seq + 1) PROVE ready[i] \in {x} \cup {r.buf[q] : q \in {d \in DOMAIN r.buf : d <= k}}
    <3>1. CASE i = 1
      BY <3>1
    <3>2. CASE i # 1
      <4>1. seq + i - 1 \in (seq + 1) .. k
        BY <1>0, <2>3, <3>2
      <4>2. ready[i] = r.buf[seq + i - 1]
        BY <3>2
      <4>3. seq + i - 1 \in {d \in DOMAIN r.buf : d <= k}
        BY <1>0, <2>3, <4>1
      <4> QED BY <4>2, <4>3
    <3> QED BY <3>1, <3>2
  <2>9. x \in ToSet(ready)
    <3>1. 1 \in 1 .. (k - seq + 1)
      BY <1>0, <2>3
    <3>2. ready[1] = x
      BY <3>1
    <3> HIDE DEF ready
    <3> QED BY <2>7, <3>1, <3>2
  <2>10. ASSUME NEW q \in DOMAIN r.buf, q <= k PROVE r.buf[q] \in ToSet(ready)
    <3> DEFINE i == q - seq + 1
    <3>1. i \in 1 .. (k - seq + 1) /\ i # 1 /\ seq + i - 1 = q
      BY <1>0, <1>4, <2>3, <2>10
    <3>2. ready[i] = r.buf[seq + i - 1]
      BY <3>1
    <3> HIDE DEF ready, i
    <3> QED BY <2>7, <3>1, <3>2
  <2>11. ToSet(ready) = {x} \cup {r.buf[q] : q \in {d \in DOMAIN r.buf : d <= k}}
    BY <2>7, <2>8, <2>9, <2>10
  <2> HIDE DEF ready
  <2>12. \A q \in DOMAIN a.buf : a.acked + 1 < q
    BY <2>3, <2>6
  <2> QED BY <1>0, <1>4, <2>1, <2>3, <2>5, <2>6, <2>11, <2>12
<1> QED BY <1>0, <1>1, <1>2, <1>3, <1>4

\* What the host does with the oldest frame on its transport.
LEMMA ReceiveMoves ==
  ASSUME DownLinkInv, ServeInv, WireInv, NEW s \in Sessions, HostReceives(s)
  PROVE  LET f   == Head(link[s])
             A   == host.rcv.acked
             B   == host'.rcv.acked
             buf == host.rcv.buf
             new == host'.rcv.buf
         IN  /\ UNCHANGED << reg, notifiers, proto, sess, pushes, acks, handed, doubled >>
             /\ host.link = s /\ sess[s].epoch = host.epoch /\ reg.epoch = host.epoch
             /\ f \in Frames /\ f[1] \in Nat /\ f[2] \in Nat /\ f \in ToSet(link[s])
             /\ link' = [link EXCEPT ![s] = Tail(link[s])] /\ ToSet(link[s]) = {f} \cup ToSet(Tail(link[s]))
             /\ host'.epoch = host.epoch /\ host'.link = host.link /\ host'.rcv.window = MaxSeq
             /\ host'.gen \in Nat /\ host'.gen >= host.gen /\ host'.gen <= reg.gen
             /\ A \in Nat /\ B \in Nat /\ B >= A
             /\ missed => missed'
             /\ \/ f[1] <= A /\ host'.rcv = host.rcv /\ host'.gen >= f[2]
                \/ f[1] > A + 1 /\ f[1] \in DOMAIN buf /\ host'.rcv = host.rcv /\ (missed' \/ f[2] <= buf[f[1]])
                \/ /\ f[1] > A + 1 /\ f[1] \notin DOMAIN buf /\ B = A
                   /\ DOMAIN new = DOMAIN buf \cup {f[1]} /\ new[f[1]] = f[2] /\ \A q \in DOMAIN buf : new[q] = buf[q]
                \/ /\ f[1] = A + 1 /\ B >= f[1] /\ B <= proto[host.epoch].down.next
                   /\ host'.gen >= f[2] /\ \A q \in DOMAIN buf : q <= B => host'.gen >= buf[q]
                   /\ DOMAIN new = {d \in DOMAIN buf : d > B} /\ \A q \in DOMAIN new : B + 1 < q /\ new[q] = buf[q]
<1> DEFINE f == Head(link[s])
           A == host.rcv.acked
           B == host'.rcv.acked
           buf == host.rcv.buf
           new == host'.rcv.buf
           n == proto[host.epoch].down.next
           ready == ToSet(AcceptReady(host.rcv, f[1], f[2]))
           seen == IF f[1] <= A THEN {f[2]} ELSE ready
           newer == {g \in seen : g > host.gen}
<1>0. /\ SessInv /\ RegInv /\ LinkInv /\ ProtoInv /\ MaxSeq \in Nat /\ Sessions \subseteq Nat \ {0} /\ None = 0
      /\ DOMAIN host = {"epoch", "link", "rcv", "gen"} /\ DOMAIN host.rcv = {"acked", "window", "buf"}
      /\ A \in Nat /\ link[s] \in Seq(Frames) /\ reg.gen \in Nat /\ host.epoch \in Epochs
  BY Bounds, SessionNumbers DEF DownLinkInv, LinkInv, RegInv, None
<1>1. /\ host.link = s /\ link[s] # << >> /\ link' = [link EXCEPT ![s] = Tail(link[s])]
      /\ host' = [host EXCEPT !.rcv = AcceptReceiver(host.rcv, f[1], f[2]),
                              !.gen = IF newer = {} THEN host.gen ELSE CHOOSE g \in newer : \A h \in newer : h <= g]
      /\ missed' = (missed \/ (f[1] \in DOMAIN buf /\ f[2] > buf[f[1]]))
      /\ UNCHANGED << reg, notifiers, proto, sess, pushes, acks, handed, doubled >>
  BY DEF HostReceives
<1>2. /\ f \in Frames /\ f \in ToSet(link[s]) /\ ToSet(link[s]) = {f} \cup ToSet(Tail(link[s]))
  BY <1>0, <1>1, SetOfSeq
<1>3. /\ sess[s].epoch = host.epoch /\ reg.epoch = host.epoch
  <2>1. /\ sess[s].pc # "new" /\ sess[s].epoch = host.epoch /\ sess[s].epoch <= reg.epoch
        /\ reg.epoch \in Nat /\ reg.epoch <= host.epoch
    BY <1>0, <1>1 DEF ServeInv
  <2>2. host.epoch \in Nat
    BY <1>0, Bounds DEF Epochs
  <2> QED BY <2>1, <2>2
<1>4. n \in 0 .. MaxSeq
  BY <1>0 DEF ProtoInv, ProtoOK
<1>5. f[1] \in 0 .. n /\ f[2] \in Nat /\ f[2] <= reg.gen
  <2>1. f[1] <= n /\ f[2] <= reg.gen
    BY <1>2, <1>3 DEF WireInv
  <2> QED BY <1>0, <1>2, <1>4, <2>1 DEF Frames
<1>6. /\ host.gen \in Nat /\ host.gen <= reg.gen /\ host.rcv.window = MaxSeq
      /\ \A q \in DOMAIN buf : A + 1 < q /\ q <= n /\ buf[q] \in Nat /\ buf[q] <= reg.gen
  BY DEF WireInv
<1>7. \A q \in DOMAIN buf : q \in Nat
  BY <1>0 DEF LinkInv
<1>8. /\ host'.epoch = host.epoch /\ host'.link = host.link /\ host'.rcv = AcceptReceiver(host.rcv, f[1], f[2])
      /\ host'.gen = IF newer = {} THEN host.gen ELSE CHOOSE g \in newer : \A h \in newer : h <= g
  BY <1>0, <1>1
<1> HIDE DEF f, n
<1>9. /\ host'.rcv.window = MaxSeq
      /\ f[1] <= A => host'.rcv = host.rcv /\ f[1] \notin DOMAIN buf
      /\ f[1] > A + 1 =>
                /\ ready = {} /\ B = A
                /\ f[1] \in DOMAIN buf => host'.rcv = host.rcv
                /\ f[1] \notin DOMAIN buf => /\ DOMAIN new = DOMAIN buf \cup {f[1]} /\ new[f[1]] = f[2]
                                             /\ \A q \in DOMAIN buf : new[q] = buf[q]
      /\ f[1] = A + 1 =>
                /\ f[1] \notin DOMAIN buf /\ B \in f[1] .. n
                /\ ready = {f[2]} \cup {buf[q] : q \in {d \in DOMAIN buf : d <= B}}
                /\ DOMAIN new = {d \in DOMAIN buf : d > B} /\ \A q \in DOMAIN new : new[q] = buf[q]
                /\ \A q \in DOMAIN new : B + 1 < q
  <2> DEFINE r == host.rcv
             a == host'.rcv
             k == f[1]
             x == f[2]
  <2>1. /\ DOMAIN r = {"acked", "window", "buf"} /\ r.acked \in Nat /\ r.window = MaxSeq
        /\ \A q \in DOMAIN r.buf : q \in Nat /\ r.acked + 1 < q /\ q <= n
        /\ a = AcceptReceiver(r, k, x) /\ k \in 0 .. n /\ n \in 0 .. MaxSeq
    BY <1>0, <1>4, <1>5, <1>6, <1>7, <1>8
  <2>2. /\ ready = ToSet(AcceptReady(r, k, x)) /\ A = r.acked /\ B = a.acked /\ buf = r.buf /\ new = a.buf
    OBVIOUS
  <2> HIDE DEF r, a, k, x, ready, A, B, buf, new
  <2>3. /\ a.window = MaxSeq
        /\ k <= r.acked => a = r /\ k \notin DOMAIN r.buf
        /\ k > r.acked + 1 =>
                /\ ToSet(AcceptReady(r, k, x)) = {} /\ a.acked = r.acked
                /\ k \in DOMAIN r.buf => a = r
                /\ k \notin DOMAIN r.buf => /\ DOMAIN a.buf = DOMAIN r.buf \cup {k} /\ a.buf[k] = x
                                            /\ \A q \in DOMAIN r.buf : a.buf[q] = r.buf[q]
        /\ k = r.acked + 1 =>
                /\ k \notin DOMAIN r.buf /\ a.acked \in k .. n
                /\ ToSet(AcceptReady(r, k, x)) = {x} \cup {r.buf[q] : q \in {d \in DOMAIN r.buf : d <= a.acked}}
                /\ DOMAIN a.buf = {d \in DOMAIN r.buf : d > a.acked} /\ \A q \in DOMAIN a.buf : a.buf[q] = r.buf[q]
                /\ \A q \in DOMAIN a.buf : a.acked + 1 < q
    BY <2>1, ReceiverDoes
  <2>4. /\ a.window = MaxSeq
        /\ k <= A => a = r /\ k \notin DOMAIN buf
        /\ k > A + 1 =>
                /\ ready = {} /\ B = A
                /\ k \in DOMAIN buf => a = r
                /\ k \notin DOMAIN buf => /\ DOMAIN new = DOMAIN buf \cup {k} /\ new[k] = x
                                          /\ \A q \in DOMAIN buf : new[q] = buf[q]
        /\ k = A + 1 =>
                /\ k \notin DOMAIN buf /\ B \in k .. n
                /\ ready = {x} \cup {buf[q] : q \in {d \in DOMAIN buf : d <= B}}
                /\ DOMAIN new = {d \in DOMAIN buf : d > B} /\ \A q \in DOMAIN new : new[q] = buf[q]
                /\ \A q \in DOMAIN new : B + 1 < q
    BY <2>2, <2>3
  <2> QED BY <2>4 DEF r, a, k, x, A, B, buf, new
<1>10. /\ B \in Nat /\ B >= A
  BY <1>0, <1>4, <1>5, <1>9
<1>11. \A g \in seen : g \in Nat /\ g <= reg.gen
  <2>1. CASE f[1] <= A
    BY <1>5, <2>1
  <2>2. CASE f[1] > A + 1
    BY <1>0, <1>5, <1>9, <2>2
  <2>3. CASE f[1] = A + 1
    <3>1. seen = {f[2]} \cup {buf[q] : q \in {d \in DOMAIN buf : d <= B}}
      BY <1>0, <1>9, <2>3
    <3> HIDE DEF seen
    <3> QED BY <1>5, <1>6, <3>1
  <2> QED BY <1>0, <1>4, <1>5, <2>1, <2>2, <2>3
<1> HIDE DEF seen
<1>12. host'.gen \in Nat /\ host'.gen >= host.gen /\ host'.gen <= reg.gen /\ \A g \in seen : g <= host'.gen
  <2>1. CASE newer = {}
    BY <1>6, <1>8, <1>11, <2>1
  <2>2. CASE newer # {}
    <3>1. newer \in SUBSET Nat /\ \A k \in newer : k <= reg.gen
      BY <1>11
    <3>2. \E m \in newer : \A k \in newer : k <= m
      BY <1>0, <2>2, <3>1, GreatestElement
    <3>3. host'.gen \in newer /\ \A k \in newer : k <= host'.gen
      BY <1>8, <2>2, <3>2
    <3> QED BY <1>6, <1>11, <3>1, <3>3
  <2> QED BY <2>1, <2>2
<1>13. f[1] <= A => host'.rcv = host.rcv /\ host'.gen >= f[2]
  BY <1>9, <1>12 DEF seen
<1>14. f[1] = A + 1 => host'.gen >= f[2] /\ \A q \in DOMAIN buf : q <= B => host'.gen >= buf[q]
  <2> SUFFICES ASSUME f[1] = A + 1 PROVE host'.gen >= f[2] /\ \A q \in DOMAIN buf : q <= B => host'.gen >= buf[q]
    OBVIOUS
  <2>1. seen = {f[2]} \cup {buf[q] : q \in {d \in DOMAIN buf : d <= B}}
    BY <1>0, <1>9 DEF seen
  <2>2. \A q \in DOMAIN buf : q <= B => buf[q] \in seen
    BY <2>1
  <2>3. f[2] \in seen
    BY <2>1
  <2> QED BY <1>5, <1>6, <1>12, <2>2, <2>3
<1>15. f[1] \in DOMAIN buf => missed' \/ f[2] <= buf[f[1]]
  <2>1. f[1] \in DOMAIN buf /\ f[2] > buf[f[1]] => missed'
    BY <1>1, Zenon DEF f
  <2>2. f[1] \in DOMAIN buf => buf[f[1]] \in Nat
    BY <1>6
  <2> QED BY <1>5, <2>1, <2>2
<1>16. \/ f[1] <= A /\ host'.rcv = host.rcv /\ host'.gen >= f[2]
       \/ f[1] > A + 1 /\ f[1] \in DOMAIN buf /\ host'.rcv = host.rcv /\ (missed' \/ f[2] <= buf[f[1]])
       \/ /\ f[1] > A + 1 /\ f[1] \notin DOMAIN buf /\ B = A
          /\ DOMAIN new = DOMAIN buf \cup {f[1]} /\ new[f[1]] = f[2] /\ \A q \in DOMAIN buf : new[q] = buf[q]
       \/ /\ f[1] = A + 1 /\ B >= f[1] /\ B <= n
          /\ host'.gen >= f[2] /\ \A q \in DOMAIN buf : q <= B => host'.gen >= buf[q]
          /\ DOMAIN new = {d \in DOMAIN buf : d > B} /\ \A q \in DOMAIN new : B + 1 < q /\ new[q] = buf[q]
  <2>1. CASE f[1] <= A
    BY <1>13, <2>1
  <2>2. CASE f[1] > A + 1 /\ f[1] \in DOMAIN buf
    BY <1>9, <1>15, <2>2
  <2>3. CASE f[1] > A + 1 /\ f[1] \notin DOMAIN buf
    BY <1>9, <2>3
  <2>4. CASE f[1] = A + 1
    <3>1. B >= f[1] /\ B <= n
      BY <1>4, <1>5, <1>9, <2>4
    <3> QED BY <1>9, <1>14, <2>4, <3>1
  <2> QED BY <1>0, <1>4, <1>5, <2>1, <2>2, <2>3, <2>4
<1>17. f[1] \in Nat
  BY <1>4, <1>5
<1> QED BY <1>0, <1>1, <1>2, <1>3, <1>5, <1>8, <1>9, <1>10, <1>12, <1>16, <1>17 DEF f, n

\* What a step puts on a transport its writer held before, or it is hello_ack.
LEMMA LinkMoves ==
  ASSUME DownLinkInv, ServeInv, WireInv, [Next]_vars, NEW t \in Sessions
  PROVE  /\ host'.link # t \/ sess'[t].wpc = "none" => link'[t] = << >>
         /\ sess'[t].wpc = "none" => handed'[t] = {}
         /\ \A x \in ToSet(link'[t]) :
                sess[t].pc # "new" /\ x \in ToSet(link[t]) \cup ToSet(sess[t].batch) \cup {<< 0, sess[t].aud >>}
<1> DEFINE Empty == host'.link # t \/ sess'[t].wpc = "none" => link'[t] = << >>
           Unwritten == sess'[t].wpc = "none" => handed'[t] = {}
           FromBefore == \A x \in ToSet(link'[t]) :
               sess[t].pc # "new" /\ x \in ToSet(link[t]) \cup ToSet(sess[t].batch) \cup {<< 0, sess[t].aud >>}
           Goal == Empty /\ Unwritten /\ FromBefore
<1>0. /\ SessInv /\ RegInv /\ LinkInv /\ SessOK(sess[t]) /\ link[t] \in Seq(Frames) /\ DOMAIN link = Sessions
      /\ \A s \in Sessions : sess[s].old # s
      /\ DOMAIN handed = Sessions
  BY SessionNumbers DEF DownLinkInv, SessInv, ServeInv, LinkInv, WrittenInv
<1>a. /\ host.link # t \/ sess[t].wpc = "none" => link[t] = << >>
      /\ sess[t].wpc = "none" => handed[t] = {}
      /\ sess[t].wpc = "none" <=> sess[t].pc \in {"new", "hello"}
  BY DEF WireInv, ServeInv
<1>b. ToSet(<< >>) = {}
  BY DEF ToSet
<1>c. link[t] # << >> => sess[t].pc # "new"
  BY <1>a
<1>d. \A x \in ToSet(link[t]) : sess[t].pc # "new"
  BY <1>b, <1>c
<1>1. ASSUME host'.link = host.link, link'[t] = link[t], handed'[t] = handed[t],
             sess'[t].wpc = "none" => sess[t].wpc = "none"
      PROVE  Goal
  BY <1>1, <1>a, <1>d
<1>2. ASSUME UNCHANGED << host, link, handed, sess >> PROVE Goal
  BY <1>1, <1>2
<1>3. ASSUME NEW s \in Sessions, WriterTop(s) \/ WriterWakes(s) \/ Replay(s) \/ Rewrite(s) \/ Written(s)
      PROVE  Goal
  <2>1. WriterStep(s) /\ UNCHANGED << host, link, handed >>
    BY <1>3 DEF WriterStep, WriterTop, WriterWakes, Replay, Rewrite, Written, histVars
  <2>2. SameButWriter(s) /\ sess[s].wpc # "none" /\ sess'[s].wpc # "none"
    BY <1>0, <2>1, WriterMoves
  <2> QED BY <1>1, <2>1, <2>2 DEF SameButWriter
<1>4. ASSUME NEW s \in Sessions, Write(s) PROVE Goal
  <2>1. /\ UNCHANGED << reg, notifiers, proto, pushes, acks, host, missed, expired >>
        /\ SameButWriter(s) /\ sess[s].wpc = "write"
        /\ \/ /\ sess[s].stop /\ sess'[s].wpc = "done" /\ sess'[s].batch = << >>
              /\ UNCHANGED << link, handed, doubled >>
           \/ /\ sess'[s].wpc = "note" /\ sess'[s].batch = sess[s].batch
              /\ link' = IF host.link = s THEN [link EXCEPT ![s] = Append(link[s], Head(sess[s].batch))] ELSE link
              /\ handed' = [handed EXCEPT ![s] = handed[s] \cup {Head(sess[s].batch)[1]}]
              /\ doubled' = (doubled \/ Outlived(s))
    BY <1>0, <1>4, WriteMoves
  <2>2. CASE UNCHANGED << link, handed >>
    BY <1>1, <2>1, <2>2 DEF SameButWriter
  <2>3. CASE t # s
    BY <1>0, <1>1, <2>1, <2>3 DEF SameButWriter
  <2>4. CASE t = s /\ sess'[s].wpc = "note" /\ host.link # s /\ link' = link
    BY <1>a, <1>d, <2>1, <2>4
  <2>5. CASE /\ t = s /\ sess'[s].wpc = "note" /\ host.link = s
             /\ link' = [link EXCEPT ![s] = Append(link[s], Head(sess[s].batch))]
    <3> DEFINE h == Head(sess[s].batch)
    <3>1. sess[t].batch \in Seq(Frames) /\ sess[t].batch # << >> /\ sess[t].pc # "new"
      BY <1>0, <2>1, <2>5 DEF SessOK
    <3>2. h \in Frames /\ h \in ToSet(sess[t].batch)
      BY <2>5, <3>1, SetOfSeq
    <3>3. ToSet(link'[t]) = ToSet(link[t]) \cup {h}
      <4>1. link'[t] = Append(link[t], h)
        BY <1>0, <2>5
      <4> HIDE DEF h
      <4> QED BY <1>0, <3>2, <4>1, SetOfSeq
    <3> HIDE DEF h
    <3> QED BY <2>1, <2>5, <3>1, <3>2, <3>3
  <2> QED BY <2>1, <2>2, <2>3, <2>4, <2>5
<1>5. ASSUME NEW s \in Sessions, HandleAck(s) \/ TakeResend(s) \/ Close(s) PROVE Goal
  <2>1. SameButPc(s) /\ UNCHANGED << host, link, handed >>
    BY <1>0, <1>5, HandleAckMoves, TakeResendMoves, CloseMoves DEF histVars
  <2> QED BY <1>1, <2>1 DEF SameButPc
<1>6. ASSUME NEW s \in Sessions, Detach(s) PROVE Goal
  <2>1. /\ SameButPc(s) /\ UNCHANGED handed /\ sess[s].pc = "closing"
        /\ host' = IF host.link = s THEN [host EXCEPT !.link = None] ELSE host
        /\ link' = [link EXCEPT ![s] = << >>]
    BY <1>0, <1>6, DetachMoves DEF histVars
  <2>2. sess'[t].wpc = sess[t].wpc
    BY <2>1 DEF SameButPc
  <2>3. CASE t = s
    <3>1. link'[t] = << >>
      BY <1>0, <2>1, <2>3
    <3> QED BY <1>a, <1>b, <2>1, <2>2, <3>1
  <2>4. CASE t # s
    <3>1. link'[t] = link[t]
      BY <1>0, <2>1, <2>4
    <3>2. host'.link # t => host.link # t
      BY <1>0, <2>1, <2>4 DEF LinkInv
    <3> QED BY <1>a, <1>d, <2>1, <2>2, <3>1, <3>2
  <2> QED BY <2>3, <2>4
<1>7. ASSUME NEW s \in Sessions, Start(s) PROVE Goal
  <2>1. /\ sess[s].pc = "hello" /\ sess'[s].wpc = "top" /\ UNCHANGED << host, handed >>
        /\ link' = IF host.link = s THEN [link EXCEPT ![s] = << << 0, sess[s].aud >> >>] ELSE link
    BY <1>0, <1>7, StartMoves DEF histVars
  <2>2. \A u \in Sessions : u # s =>
                /\ sess'[u].pc = sess[u].pc /\ sess'[u].epoch = sess[u].epoch
                /\ sess'[u].old = sess[u].old /\ sess'[u].aud = sess[u].aud
                /\ sess'[u].wpc = sess[u].wpc /\ sess'[u].batch = sess[u].batch
                /\ sess'[u].written = sess[u].written
                /\ u # sess[s].old => sess'[u].stop = sess[u].stop
    BY <1>0, <1>7, StartMoves
  <2>3. CASE t # s
    BY <1>0, <1>1, <2>1, <2>2, <2>3
  <2>4. CASE t = s /\ host.link # s
    BY <1>1, <2>1, <2>4
  <2>5. CASE t = s /\ host.link = s
    <3>1. link'[t] = << << 0, sess[t].aud >> >>
      BY <1>0, <2>1, <2>5
    <3>2. ToSet(link'[t]) = {<< 0, sess[t].aud >>}
      BY <3>1 DEF ToSet
    <3> QED BY <2>1, <2>5, <3>2
  <2> QED BY <2>3, <2>4, <2>5
<1>8. ASSUME NEW s \in Sessions, Attach(s) PROVE Goal
  <2>1. /\ host.link = None /\ sess[s].pc = "new" /\ UNCHANGED << link, handed >>
        /\ \A u \in Sessions : u # s => sess'[u] = sess[u]
    BY <1>0, <1>8, AttachMoves DEF histVars
  <2>2. link'[t] = << >>
    BY <1>a, <2>1, SessionNumbers DEF None
  <2>3. sess'[t].wpc = "none" => sess[t].wpc = "none"
    BY <1>a, <2>1
  <2> QED BY <1>a, <1>b, <2>1, <2>2, <2>3
<1>9. ASSUME NEW c \in pushes, AskRewrite(c) PROVE Goal
  <2>1. UNCHANGED << host, link, handed >> /\ sess'[t].wpc = sess[t].wpc
    BY <1>0, <1>9, AskRewriteMoves DEF histVars
  <2> QED BY <1>1, <2>1
<1>10. ASSUME NEW s \in Sessions, HostReceives(s) PROVE Goal
  <2>1. /\ UNCHANGED << sess, handed >> /\ host.link = s /\ host'.link = host.link
        /\ link' = [link EXCEPT ![s] = Tail(link[s])] /\ ToSet(Tail(link[s])) \subseteq ToSet(link[s])
        /\ link[s] # << >>
    <3>1. link[s] # << >> /\ ToSet(link[s]) = {Head(link[s])} \cup ToSet(Tail(link[s]))
      BY <1>0, <1>10, SetOfSeq DEF HostReceives, LinkInv
    <3> QED BY <1>10, <3>1, ReceiveMoves
  <2>2. CASE t # s
    BY <1>0, <1>1, <2>1, <2>2
  <2>3. CASE t = s
    <3>1. link'[t] = Tail(link[t])
      BY <1>0, <2>1, <2>3
    <3> QED BY <1>a, <1>d, <2>1, <2>3, <3>1
  <2> QED BY <2>2, <2>3
<1>11. ASSUME HostLeaves PROVE Goal
  <2>1. /\ UNCHANGED << sess, handed >> /\ link' = [link EXCEPT ![host.link] = << >>]
    BY <1>11 DEF HostLeaves, histVars
  <2>2. link'[t] = << >>
    BY <1>0, <1>a, <2>1
  <2> QED BY <1>a, <1>b, <2>1, <2>2
<1>12. ASSUME HostRestarts PROVE Goal
  <2>1. /\ UNCHANGED << sess, link, handed >> /\ host'.link = host.link
    BY <1>12 DEF HostRestarts, histVars
  <2> QED BY <1>1, <2>1
<1>13. ASSUME NEW s \in Sessions, SendRequest(s) \/ HostAcks(s) PROVE UNCHANGED << host, link, handed, sess >>
  BY <1>13 DEF SendRequest, HostAcks, histVars
<1>14. ASSUME NEW s \in Sessions, NEW q \in 1 .. MaxSeq, ExpireRequest(s, q) PROVE UNCHANGED << host, link, handed, sess >>
  BY <1>14 DEF ExpireRequest
<1>15. ASSUME NEW c \in pushes, Push(c) PROVE UNCHANGED << host, link, handed, sess >>
  BY <1>15 DEF Push, histVars
<1>16. ASSUME ViewChange \/ Notify \/ UNCHANGED vars PROVE UNCHANGED << host, link, handed, sess >>
  BY <1>16 DEF ViewChange, Notify, vars, histVars
<1> HIDE DEF Goal
<1>17. Goal
  BY <1>2, <1>3, <1>4, <1>5, <1>6, <1>7, <1>8, <1>9, <1>10, <1>11, <1>12, <1>13, <1>14, <1>15, <1>16
     DEF Next, LoopStep, WriterStep
<1> QED BY <1>17 DEF Goal

\* Only a received frame or a restart changes what the host knows.
LEMMA HostMoves ==
  ASSUME DownLinkInv, [Next]_vars
  PROVE  \/ \E s \in Sessions : HostReceives(s)
         \/ HostRestarts
         \/ host'.rcv = host.rcv /\ host'.gen = host.gen /\ host'.epoch = host.epoch
<1> DEFINE Same == host'.rcv = host.rcv /\ host'.gen = host.gen /\ host'.epoch = host.epoch
<1>0. SessInv /\ RegInv /\ LinkInv /\ DOMAIN host = {"epoch", "link", "rcv", "gen"}
  BY DEF DownLinkInv, LinkInv
<1>1. ASSUME NEW s \in Sessions, Attach(s) PROVE Same
  BY <1>0, <1>1, AttachMoves
<1>2. ASSUME NEW s \in Sessions, Detach(s) PROVE Same
  BY <1>0, <1>2 DEF Detach
<1>3. ASSUME HostLeaves PROVE Same
  BY <1>0, <1>3 DEF HostLeaves
<1>4. ASSUME UNCHANGED host PROVE Same
  BY <1>4
<1>5. ASSUME NEW s \in Sessions, WriterStep(s) PROVE UNCHANGED host
  BY <1>5 DEF WriterStep, WriterTop, WriterWakes, Replay, Rewrite, Write, Written
<1>6. ASSUME NEW s \in Sessions,
             Start(s) \/ HandleAck(s) \/ TakeResend(s) \/ Close(s) \/ SendRequest(s) \/ HostAcks(s)
      PROVE  UNCHANGED host
  BY <1>6 DEF Start, HandleAck, TakeResend, Close, SendRequest, HostAcks
<1>7. ASSUME NEW s \in Sessions, NEW q \in 1 .. MaxSeq, ExpireRequest(s, q) PROVE UNCHANGED host
  BY <1>7 DEF ExpireRequest
<1>8. ASSUME NEW c \in pushes, Push(c) \/ AskRewrite(c) PROVE UNCHANGED host
  BY <1>8 DEF Push, AskRewrite
<1>9. ASSUME ViewChange \/ Notify \/ UNCHANGED vars PROVE UNCHANGED host
  BY <1>9 DEF ViewChange, Notify, vars
<1> HIDE DEF Same
<1>10. Same \/ HostRestarts \/ \E s \in Sessions : HostReceives(s)
  BY <1>1, <1>2, <1>3, <1>4, <1>5, <1>6, <1>7, <1>8, <1>9 DEF Next, LoopStep
<1> QED BY <1>10 DEF Same

\* Only an attach changes the registered epoch, to the host's.
LEMMA EpochMoves ==
  ASSUME DownLinkInv, [Next]_vars
  PROVE  reg'.epoch = reg.epoch \/ (reg'.epoch = host'.epoch /\ \E s \in Sessions : Attach(s))
<1> DEFINE Same == reg'.epoch = reg.epoch
<1>0. SessInv /\ RegInv /\ LinkInv /\ DOMAIN reg = {"session", "epoch", "gen", "stale"}
  BY DEF DownLinkInv, RegInv
<1>1. ASSUME NEW s \in Sessions, Attach(s) PROVE reg'.epoch = host'.epoch
  BY <1>0, <1>1, AttachMoves
<1>2. ASSUME NEW s \in Sessions, Detach(s) PROVE Same
  BY <1>0, <1>2 DEF Detach
<1>3. ASSUME Notify \/ ViewChange PROVE Same
  BY <1>0, <1>3 DEF Notify, ViewChange
<1>4. ASSUME UNCHANGED reg PROVE Same
  BY <1>4
<1>5. ASSUME NEW s \in Sessions, WriterStep(s) PROVE UNCHANGED reg
  BY <1>5 DEF WriterStep, WriterTop, WriterWakes, Replay, Rewrite, Write, Written
<1>6. ASSUME NEW s \in Sessions,
             Start(s) \/ HandleAck(s) \/ TakeResend(s) \/ Close(s) \/ SendRequest(s) \/ HostAcks(s) \/ HostReceives(s)
      PROVE  UNCHANGED reg
  BY <1>6 DEF Start, HandleAck, TakeResend, Close, SendRequest, HostAcks, HostReceives
<1>7. ASSUME NEW s \in Sessions, NEW q \in 1 .. MaxSeq, ExpireRequest(s, q) PROVE UNCHANGED reg
  BY <1>7 DEF ExpireRequest
<1>8. ASSUME NEW c \in pushes, Push(c) \/ AskRewrite(c) PROVE UNCHANGED reg
  BY <1>8 DEF Push, AskRewrite
<1>9. ASSUME HostLeaves \/ HostRestarts \/ UNCHANGED vars PROVE UNCHANGED reg
  BY <1>9 DEF HostLeaves, HostRestarts, vars
<1> HIDE DEF Same
<1>10. Same \/ \E s \in Sessions : Attach(s)
  BY <1>2, <1>3, <1>4, <1>5, <1>6, <1>7, <1>8, <1>9 DEF Next, LoopStep
<1> QED BY <1>1, <1>10 DEF Same

\* A sequence space somebody is attached to goes on.
LEMMA SpaceGoesOn ==
  ASSUME DownLinkInv, ServeInv, GenInv, [Next]_vars, NEW e \in Epochs, e <= reg.epoch \/ reg.epoch = host.epoch
  PROVE  Grows(proto[e], proto'[e])
<1>1. e \in Nat /\ reg.epoch \in Nat /\ host.epoch \in Nat /\ reg.epoch <= host.epoch
  BY Bounds DEF DownLinkInv, LinkInv, ServeInv, Epochs
<1>2. \/ \A f \in Epochs : Grows(proto[f], proto'[f])
      \/ reg.epoch # host.epoch /\ \A f \in Epochs \ {host.epoch} : Grows(proto[f], proto'[f])
  BY SpacesGrow
<1> QED BY <1>1, <1>2

LEMMA WireStep ==
  ASSUME DownLinkInv, ServeInv, GenInv, WireInv, [Next]_vars
  PROVE  WireInv'
<1> DEFINE buf == host.rcv.buf
           new == host'.rcv.buf
           Gen == host'.gen \in Nat /\ host'.gen <= reg'.gen
           Window == host'.rcv.window = MaxSeq
           Parked == \A q \in DOMAIN new :
                         /\ host'.rcv.acked + 1 < q /\ q <= proto'[host'.epoch].down.next
                         /\ new[q] \in Nat /\ new[q] <= reg'.gen
           Fresher == reg'.epoch # host'.epoch => host'.rcv.acked = 0 /\ DOMAIN new = {}
<1>0. /\ SessInv /\ RegInv /\ LinkInv /\ ProtoInv /\ host.epoch \in Epochs /\ host.rcv.acked \in Nat
      /\ \A q \in DOMAIN buf : q \in Nat
      /\ \A e \in Epochs : proto[e].down.next \in Nat
  <2>1. SessInv /\ RegInv /\ LinkInv /\ ProtoInv
    BY DEF DownLinkInv
  <2>2. \A e \in Epochs : proto[e].down.next \in Nat
    BY <2>1, Bounds DEF ProtoInv, ProtoOK
  <2>3. host.epoch \in Epochs /\ host.rcv.acked \in Nat /\ \A q \in DOMAIN buf : q \in Nat
    BY <2>1, Bounds DEF LinkInv
  <2> QED BY <2>1, <2>2, <2>3
<1>a. reg.gen \in Nat /\ reg'.gen \in Nat /\ reg'.gen >= reg.gen
  BY RegGrows
<1>b. \A e \in Epochs : proto'[e].down.next \in Nat
  <2>1. ProtoInv'
    BY ProtoStep DEF DownLinkInv
  <2> QED BY <2>1, Bounds DEF ProtoInv, ProtoOK
<1>c. /\ host.gen \in Nat /\ host.gen <= reg.gen /\ host.rcv.window = MaxSeq
      /\ \A q \in DOMAIN buf : /\ host.rcv.acked + 1 < q /\ q <= proto[host.epoch].down.next
                               /\ buf[q] \in Nat /\ buf[q] <= reg.gen
      /\ reg.epoch # host.epoch => host.rcv.acked = 0 /\ DOMAIN buf = {}
  BY DEF WireInv
<1>1. ASSUME NEW s \in Sessions, HostReceives(s) PROVE Gen /\ Window /\ Parked /\ Fresher
  <2> DEFINE f == Head(link[s])
             A == host.rcv.acked
             B == host'.rcv.acked
  <2>1. /\ UNCHANGED << reg, notifiers, proto, sess, pushes, acks, handed, doubled >>
        /\ host.link = s /\ sess[s].epoch = host.epoch /\ reg.epoch = host.epoch
        /\ f \in Frames /\ f[1] \in Nat /\ f[2] \in Nat /\ f \in ToSet(link[s])
        /\ host'.epoch = host.epoch /\ host'.rcv.window = MaxSeq
        /\ host'.gen \in Nat /\ host'.gen <= reg.gen
        /\ A \in Nat /\ B \in Nat /\ B >= A
        /\ \/ host'.rcv = host.rcv
           \/ /\ f[1] > A + 1 /\ B = A
              /\ DOMAIN new = DOMAIN buf \cup {f[1]} /\ new[f[1]] = f[2] /\ \A q \in DOMAIN buf : new[q] = buf[q]
           \/ DOMAIN new = {d \in DOMAIN buf : d > B} /\ \A q \in DOMAIN new : B + 1 < q /\ new[q] = buf[q]
    BY <1>1, ReceiveMoves
  <2>2. f[1] <= proto[host.epoch].down.next /\ f[2] <= reg.gen
    BY <2>1 DEF WireInv
  <2> HIDE DEF f, A, B
  <2>3. Parked
    <3>1. CASE host'.rcv = host.rcv
      BY <1>c, <2>1, <3>1
    <3>2. CASE /\ f[1] > A + 1 /\ B = A
               /\ DOMAIN new = DOMAIN buf \cup {f[1]} /\ new[f[1]] = f[2] /\ \A q \in DOMAIN buf : new[q] = buf[q]
      BY <1>0, <1>c, <2>1, <2>2, <3>2 DEF A, B
    <3>3. CASE DOMAIN new = {d \in DOMAIN buf : d > B} /\ \A q \in DOMAIN new : B + 1 < q /\ new[q] = buf[q]
      BY <1>0, <1>c, <2>1, <3>3 DEF B
    <3> QED BY <2>1, <3>1, <3>2, <3>3
  <2> HIDE DEF Parked
  <2> QED BY <2>1, <2>3
<1>2. ASSUME HostRestarts PROVE Gen /\ Window /\ Parked /\ Fresher
  <2>1. host'.rcv = NewReceiver(0, MaxSeq) /\ host'.gen = 0
    BY <1>2 DEF HostRestarts
  <2>2. host'.rcv.acked = 0 /\ host'.rcv.window = MaxSeq /\ DOMAIN new = {}
    BY <2>1 DEF NewReceiver
  <2> QED BY <1>a, <2>1, <2>2
<1>3. ASSUME host'.rcv = host.rcv, host'.gen = host.gen, host'.epoch = host.epoch
      PROVE  Gen /\ Window /\ Parked /\ Fresher
  <2>1. Parked
    <3> SUFFICES ASSUME NEW q \in DOMAIN new
                 PROVE  /\ host'.rcv.acked + 1 < q /\ q <= proto'[host'.epoch].down.next
                        /\ new[q] \in Nat /\ new[q] <= reg'.gen
      OBVIOUS
    <3>1. reg.epoch = host.epoch /\ q \in DOMAIN buf
      BY <1>3, <1>c
    <3>2. Grows(proto[host.epoch], proto'[host.epoch])
      BY <1>0, <3>1, SpaceGoesOn
    <3>3. proto'[host.epoch].down.next >= proto[host.epoch].down.next
      BY <3>2 DEF Grows
    <3> QED BY <1>0, <1>a, <1>b, <1>c, <1>3, <3>1, <3>3
  <2>2. Fresher
    BY <1>c, <1>3, EpochMoves
  <2> HIDE DEF Parked, Fresher
  <2> QED BY <1>a, <1>c, <1>3, <2>1, <2>2
<1>4. Gen /\ Window /\ Parked /\ Fresher
  BY <1>1, <1>2, <1>3, HostMoves
<1>5. ASSUME NEW t \in Sessions
      PROVE  /\ host'.link # t \/ sess'[t].wpc = "none" => link'[t] = << >>
             /\ sess'[t].wpc = "none" => handed'[t] = {}
  BY LinkMoves
<1>6. ASSUME NEW t \in Sessions, NEW x \in ToSet(link'[t])
      PROVE  x[1] <= proto'[sess'[t].epoch].down.next /\ x[2] <= reg'.gen
  <2> DEFINE e == sess[t].epoch
  <2>1. sess[t].pc # "new" /\ x \in ToSet(link[t]) \cup ToSet(sess[t].batch) \cup {<< 0, sess[t].aud >>}
    BY LinkMoves
  <2>2. sess'[t].epoch = e /\ e \in Epochs /\ sess[t].aud \in Nat /\ sess[t].batch \in Seq(Frames)
    BY <1>0, <2>1, AttachedStay DEF SessInv, SessOK
  <2>3. Grows(proto[e], proto'[e])
    <3>1. e <= reg.epoch
      BY <2>1 DEF ServeInv
    <3> QED BY <2>2, <3>1, SpaceGoesOn
  <2>4. proto'[e].down.next >= proto[e].down.next
    BY <2>3 DEF Grows
  <2>5. x \in Frames
    <3>1. LinkInv'
      BY LinkStep DEF DownLinkInv
    <3>2. link'[t] \in Seq(Frames)
      BY <3>1 DEF LinkInv
    <3> QED BY <3>2, SetOfSeq
  <2>6. x[1] \in Nat /\ x[2] \in Nat
    BY <2>5, Bounds DEF Frames
  <2>7. x[1] <= proto[e].down.next /\ x[2] <= reg.gen
    <3>1. CASE x \in ToSet(link[t])
      BY <3>1 DEF WireInv
    <3>2. CASE x \in ToSet(sess[t].batch)
      <4>1. HeldOK(t, x)
        BY <3>2 DEF GenInv
      <4> QED BY <1>0, <2>2, <4>1 DEF HeldOK
    <3>3. CASE x = << 0, sess[t].aud >>
      BY <1>0, <2>2, <3>3 DEF GenInv
    <3> QED BY <2>1, <3>1, <3>2, <3>3
  <2> HIDE DEF e
  <2>8. x[1] <= proto'[e].down.next /\ x[2] <= reg'.gen
    BY <1>0, <1>a, <1>b, <2>2, <2>4, <2>6, <2>7
  <2> QED BY <2>2, <2>8
<1> HIDE DEF Gen, Window, Parked, Fresher
<1>7. (/\ host.gen \in Nat /\ host.gen <= reg.gen)'
  BY <1>4 DEF Gen
<1>8. (\A t \in Sessions :
           /\ host.link # t \/ sess[t].wpc = "none" => link[t] = << >>
           /\ sess[t].wpc = "none" => handed[t] = {}
           /\ \A x \in ToSet(link[t]) : x[1] <= proto[sess[t].epoch].down.next /\ x[2] <= reg.gen)'
  BY <1>5, <1>6
<1>9. (/\ host.rcv.window = MaxSeq
       /\ \A q \in DOMAIN host.rcv.buf :
           /\ host.rcv.acked + 1 < q /\ q <= proto[host.epoch].down.next
           /\ host.rcv.buf[q] \in Nat /\ host.rcv.buf[q] <= reg.gen
       /\ reg.epoch # host.epoch => host.rcv.acked = 0 /\ DOMAIN host.rcv.buf = {})'
  BY <1>4 DEF Window, Parked, Fresher
<1> QED BY <1>7, <1>8, <1>9 DEF WireInv

\* The watermark of a space moves with HandleAck and Attach only, and only they
\* may arm a resend.
LEMMA WatermarkMoves ==
  ASSUME DownLinkInv, [Next]_vars, NEW e \in Epochs
  PROVE  \/ /\ proto'[e].down.acked = proto[e].down.acked
            /\ proto'[e].resend = proto[e].resend \/ proto'[e].resend = 0
         \/ \E s \in Sessions : HandleAck(s) /\ sess[s].epoch = e /\ proto'[e] = AckDown(proto[e], acks[s])
         \/ \E s \in Sessions : Attach(s) /\ e = host.epoch
<1> DEFINE Same == /\ proto'[e].down.acked = proto[e].down.acked
                   /\ proto'[e].resend = proto[e].resend \/ proto'[e].resend = 0
<1>0. SessInv /\ RegInv /\ LinkInv /\ ProtoInv /\ ProtoOK(proto[e]) /\ DOMAIN proto = Epochs
  BY DEF DownLinkInv, ProtoInv
<1>1. ASSUME NEW f, NEW a, proto' = [proto EXCEPT ![f] = a],
             f = e => a.down.acked = proto[e].down.acked /\ (a.resend = proto[e].resend \/ a.resend = 0)
      PROVE  Same
  BY <1>0, <1>1
<1>2. ASSUME NEW c \in pushes, Push(c) PROVE Same
  <2>1. CASE Finished(c.sess)
    BY <1>2, <2>1 DEF Push
  <2>2. CASE ~Finished(c.sess)
    <3>1. proto' = [proto EXCEPT ![sess[c.sess].epoch] = PushProto(proto[sess[c.sess].epoch], c.gen)]
      BY <1>2, <2>2 DEF Push
    <3>2. c.gen \in Nat \ {0}
      BY <1>0 DEF RegInv
    <3>3. /\ PushProto(proto[e], c.gen).down.acked = proto[e].down.acked
          /\ \/ PushProto(proto[e], c.gen).resend = proto[e].resend
             \/ PushProto(proto[e], c.gen).resend = 0
      BY <1>0, <3>2, PushDoes
    <3> QED BY <1>1, <3>1, <3>3
  <2> QED BY <2>1, <2>2
<1>3. ASSUME NEW s \in Sessions, SendRequest(s) PROVE Same
  <2>1. proto' = [proto EXCEPT ![sess[s].epoch] = DispatchRequest(proto[sess[s].epoch])]
    BY <1>3 DEF SendRequest
  <2>2. /\ DispatchRequest(proto[e]).down.acked = proto[e].down.acked
        /\ DispatchRequest(proto[e]).resend = proto[e].resend
    BY <1>0, DispatchDoes
  <2> QED BY <1>1, <2>1, <2>2
<1>4. ASSUME NEW s \in Sessions, Written(s) PROVE Same
  <2> DEFINE f == Head(sess[s].batch)
  <2>1. /\ proto' = [proto EXCEPT ![sess[s].epoch] = NoteWritten(proto[sess[s].epoch], f[1], f[2])]
        /\ sess[s].wpc = "note"
    BY <1>0, <1>4, WrittenMoves
  <2>2. f[2] \in Nat
    <3>1. sess[s].batch \in Seq(Frames) /\ sess[s].batch # << >>
      BY <1>0, <2>1 DEF SessInv, SessOK
    <3>2. f \in Frames
      BY <3>1, SetOfSeq
    <3> QED BY <3>2 DEF Frames
  <2>3. /\ NoteWritten(proto[e], f[1], f[2]).down.acked = proto[e].down.acked
        /\ NoteWritten(proto[e], f[1], f[2]).resend = proto[e].resend
    BY <1>0, <2>2, NoteDoes
  <2> QED BY <1>1, <2>1, <2>3
<1>5. ASSUME NEW s \in Sessions, TakeResend(s) PROVE Same
  <2>1. proto' = [proto EXCEPT ![sess[s].epoch].resend = 0]
    BY <1>0, <1>5, TakeResendMoves
  <2>2. CASE e # sess[s].epoch
    BY <1>0, <2>1, <2>2
  <2>3. CASE e = sess[s].epoch
    <3>1. proto'[e] = [proto[e] EXCEPT !.resend = 0]
      BY <1>0, <2>1, <2>3
    <3> QED BY <1>0, <3>1 DEF ProtoOK
  <2> QED BY <2>2, <2>3
<1>6. ASSUME NEW s \in Sessions, NEW q \in 1 .. MaxSeq, ExpireRequest(s, q) PROVE Same
  <2>1. PICK r : proto' = [proto EXCEPT ![sess[s].epoch].reqAcks = r]
    BY <1>6 DEF ExpireRequest
  <2>2. CASE e # sess[s].epoch
    BY <1>0, <2>1, <2>2
  <2>3. CASE e = sess[s].epoch
    <3>1. proto'[e] = [proto[e] EXCEPT !.reqAcks = r]
      BY <1>0, <2>1, <2>3
    <3> QED BY <1>0, <3>1 DEF ProtoOK
  <2> QED BY <2>2, <2>3
<1>7. ASSUME NEW s \in Sessions, HandleAck(s)
      PROVE  Same \/ (HandleAck(s) /\ sess[s].epoch = e /\ proto'[e] = AckDown(proto[e], acks[s]))
  <2>1. proto' = [proto EXCEPT ![sess[s].epoch] = AckDown(proto[sess[s].epoch], acks[s])]
    BY <1>0, <1>7, HandleAckMoves
  <2> QED BY <1>0, <1>7, <2>1
<1>8. ASSUME NEW s \in Sessions, Attach(s) PROVE Same \/ (Attach(s) /\ e = host.epoch)
  <2>1. \E a : proto' = [proto EXCEPT ![host.epoch] = a]
    BY <1>8 DEF Attach
  <2> QED BY <1>0, <1>1, <1>8, <2>1
<1>9. ASSUME UNCHANGED proto PROVE Same
  BY <1>9
<1>10. ASSUME NEW s \in Sessions,
             WriterTop(s) \/ WriterWakes(s) \/ Replay(s) \/ Rewrite(s) \/ Write(s)
      PROVE  UNCHANGED proto
  BY <1>10 DEF WriterTop, WriterWakes, Replay, Rewrite, Write
<1>11. ASSUME NEW s \in Sessions,
              Start(s) \/ Close(s) \/ Detach(s) \/ HostReceives(s) \/ HostAcks(s)
       PROVE  UNCHANGED proto
  BY <1>11 DEF Start, Close, Detach, HostReceives, HostAcks
<1>12. ASSUME NEW c \in pushes, AskRewrite(c) PROVE UNCHANGED proto
  BY <1>12 DEF AskRewrite
<1>13. ASSUME ViewChange \/ Notify \/ HostLeaves \/ HostRestarts \/ UNCHANGED vars PROVE UNCHANGED proto
  BY <1>13 DEF ViewChange, Notify, HostLeaves, HostRestarts, vars
<1> HIDE DEF Same
<1>14. \/ Same
       \/ \E s \in Sessions : HandleAck(s) /\ sess[s].epoch = e /\ proto'[e] = AckDown(proto[e], acks[s])
       \/ \E s \in Sessions : Attach(s) /\ e = host.epoch
  BY <1>2, <1>3, <1>4, <1>5, <1>6, <1>7, <1>8, <1>9, <1>10, <1>11, <1>12, <1>13 DEF Next, LoopStep, WriterStep
<1> QED BY <1>14 DEF Same

\* The newest watermark the host has reported on a transport.
LEMMA ReportMoves ==
  ASSUME DownLinkInv, [Next]_vars, NEW t \in Sessions
  PROVE  \/ acks'[t] = acks[t]
         \/ acks'[t] = 0
         \/ acks'[t] = host.rcv.acked /\ host.link = t /\ UNCHANGED << reg, proto, sess, pushes, link, host >>
<1> DEFINE Goal == \/ acks'[t] = acks[t]
                   \/ acks'[t] = 0
                   \/ acks'[t] = host.rcv.acked /\ host.link = t /\ UNCHANGED << reg, proto, sess, pushes, link, host >>
<1>0. DOMAIN acks = Sessions /\ SessInv
  BY DEF DownLinkInv, LinkInv
<1>1. ASSUME NEW s \in Sessions, Detach(s) PROVE Goal
  <2>1. acks' = [acks EXCEPT ![s] = 0]
    BY <1>0, <1>1, DetachMoves
  <2> QED BY <1>0, <2>1
<1>2. ASSUME NEW s \in Sessions, HostAcks(s) PROVE Goal
  <2>1. acks' = [acks EXCEPT ![s] = host.rcv.acked] /\ host.link = s /\ UNCHANGED << reg, proto, sess, pushes, link, host >>
    BY <1>2 DEF HostAcks
  <2> QED BY <1>0, <2>1
<1>3. ASSUME UNCHANGED acks PROVE Goal
  BY <1>3
<1>4. ASSUME NEW s \in Sessions, WriterStep(s) PROVE UNCHANGED acks
  BY <1>4 DEF WriterStep, WriterTop, WriterWakes, Replay, Rewrite, Write, Written
<1>5. ASSUME NEW s \in Sessions,
             Attach(s) \/ Start(s) \/ HandleAck(s) \/ TakeResend(s) \/ Close(s) \/ SendRequest(s) \/ HostReceives(s)
      PROVE  UNCHANGED acks
  BY <1>5 DEF Attach, Start, HandleAck, TakeResend, Close, SendRequest, HostReceives
<1>6. ASSUME NEW s \in Sessions, NEW q \in 1 .. MaxSeq, ExpireRequest(s, q) PROVE UNCHANGED acks
  BY <1>6 DEF ExpireRequest
<1>7. ASSUME NEW c \in pushes, Push(c) \/ AskRewrite(c) PROVE UNCHANGED acks
  BY <1>7 DEF Push, AskRewrite
<1>8. ASSUME ViewChange \/ Notify \/ HostLeaves \/ HostRestarts \/ UNCHANGED vars PROVE UNCHANGED acks
  BY <1>8 DEF ViewChange, Notify, HostLeaves, HostRestarts, vars
<1> HIDE DEF Goal
<1>9. Goal
  BY <1>1, <1>2, <1>3, <1>4, <1>5, <1>6, <1>7, <1>8 DEF Next, LoopStep
<1> QED BY <1>9 DEF Goal

\* A session is new until its Attach.
LEMMA NewUntilAttach ==
  ASSUME DownLinkInv, ServeInv, [Next]_vars, NEW t \in Sessions, sess[t].pc = "new"
  PROVE  sess'[t].pc = "new" \/ (Attach(t) /\ sess'[t].pc # "new")
<1> DEFINE Goal == sess'[t].pc = "new" \/ (Attach(t) /\ sess'[t].pc # "new")
<1>0. SessInv /\ RegInv /\ LinkInv /\ \A s \in Sessions : sess[s].old # s
  BY SessionNumbers DEF DownLinkInv, ServeInv
<1>1. ASSUME sess'[t] = sess[t] \/ sess'[t].pc = sess[t].pc PROVE Goal
  BY <1>1
<1>2. ASSUME NEW s \in Sessions, Attach(s) PROVE Goal
  <2>1. sess'[s].pc = "hello" /\ \A u \in Sessions : u # s => sess'[u] = sess[u]
    BY <1>0, <1>2, AttachMoves
  <2> QED BY <1>1, <1>2, <2>1
<1>3. ASSUME NEW s \in Sessions, WriterStep(s) PROVE Goal
  <2>1. SameButWriter(s)
    BY <1>0, <1>3, WriterMoves
  <2> QED BY <1>1, <2>1 DEF SameButWriter
<1>4. ASSUME NEW s \in Sessions, HandleAck(s) \/ TakeResend(s) \/ Close(s) \/ Detach(s) PROVE Goal
  <2>1. SameButPc(s) /\ sess[s].pc # "new"
    BY <1>0, <1>4, HandleAckMoves, TakeResendMoves, CloseMoves, DetachMoves
  <2> QED BY <1>1, <2>1 DEF SameButPc
<1>5. ASSUME NEW s \in Sessions, Start(s) PROVE Goal
  <2>1. sess[s].pc = "hello"
    BY <1>5 DEF Start
  <2>2. \A u \in Sessions : u # s =>
                /\ sess'[u].pc = sess[u].pc /\ sess'[u].epoch = sess[u].epoch
                /\ sess'[u].old = sess[u].old /\ sess'[u].aud = sess[u].aud
                /\ sess'[u].wpc = sess[u].wpc /\ sess'[u].batch = sess[u].batch
                /\ sess'[u].written = sess[u].written
                /\ u # sess[s].old => sess'[u].stop = sess[u].stop
    BY <1>0, <1>5, StartMoves
  <2> QED BY <1>1, <2>1, <2>2
<1>6. ASSUME NEW c \in pushes, AskRewrite(c) PROVE Goal
  <2>1. sess'[t].pc = sess[t].pc
    BY <1>0, <1>6, AskRewriteMoves
  <2> QED BY <1>1, <2>1
<1>7. ASSUME UNCHANGED sess PROVE Goal
  BY <1>1, <1>7
<1>8. ASSUME NEW s \in Sessions, SendRequest(s) \/ HostReceives(s) \/ HostAcks(s) PROVE UNCHANGED sess
  BY <1>8 DEF SendRequest, HostReceives, HostAcks
<1>9. ASSUME NEW s \in Sessions, NEW q \in 1 .. MaxSeq, ExpireRequest(s, q) PROVE UNCHANGED sess
  BY <1>9 DEF ExpireRequest
<1>10. ASSUME NEW c \in pushes, Push(c) PROVE UNCHANGED sess
  BY <1>10 DEF Push
<1>11. ASSUME ViewChange \/ Notify \/ HostLeaves \/ HostRestarts \/ UNCHANGED vars PROVE UNCHANGED sess
  BY <1>11 DEF ViewChange, Notify, HostLeaves, HostRestarts, vars
<1> HIDE DEF Goal
<1>12. Goal
  BY <1>2, <1>3, <1>4, <1>5, <1>6, <1>7, <1>8, <1>9, <1>10, <1>11 DEF Next, LoopStep
<1> QED BY <1>12 DEF Goal

\* What an attach does to the space of the host's epoch: a resume knows exactly
\* what the host has, a new epoch starts over with a host that has nothing.
LEMMA AttachSpace ==
  ASSUME DownLinkInv, WireInv, AckInv, NEW s \in Sessions, Attach(s)
  PROVE  LET p == proto[host.epoch]
             a == proto'[host.epoch]
         IN  /\ host.epoch \in Epochs /\ \A e \in Epochs : e # host.epoch => proto'[e] = proto[e]
             /\ a.down.acked = host.rcv.acked /\ a.resend = 0
             /\ \/ /\ reg.epoch = host.epoch /\ a.down.next = p.down.next /\ a.latest = p.latest
                   /\ \/ a.seq = p.seq /\ a.gen = p.gen /\ a.sentGen = p.sentGen
                      \/ a.seq = 0 /\ a.gen = 0 /\ a.sentGen = 0
                \/ /\ reg.epoch # host.epoch /\ host.rcv.acked = 0 /\ a.down.next = 0
                   /\ a.seq = 0 /\ a.gen = 0 /\ a.sentGen = 0 /\ a.latest = 0
<1> DEFINE p == proto[host.epoch]
           a == proto'[host.epoch]
           n == host.rcv.acked
<1>0. SessInv /\ RegInv /\ LinkInv /\ ProtoInv /\ host.epoch \in Epochs
  BY DEF DownLinkInv, LinkInv
<1>1. proto' = [proto EXCEPT ![host.epoch] = IF reg.epoch = host.epoch THEN AttachProto(p, n) ELSE NewProto]
  BY <1>0, AttachMoves
<1>2. /\ a = (IF reg.epoch = host.epoch THEN AttachProto(p, n) ELSE NewProto)
      /\ \A e \in Epochs : e # host.epoch => proto'[e] = proto[e]
  BY <1>0, <1>1 DEF ProtoInv
<1>3. n \in Nat /\ ProtoOK(p)
  BY <1>0, Bounds DEF LinkInv, ProtoInv
<1>4. CASE reg.epoch = host.epoch
  <2>1. p.down.acked <= n /\ n <= p.down.next /\ (p.resend # 0 => p.down.acked > 0)
    BY <1>0, <1>4 DEF AckInv
  <2>2. a = AttachProto(p, n)
    BY <1>2, <1>4
  <2> HIDE DEF p, a, n
  <2>3. /\ a.down.next = p.down.next /\ a.down.acked = n /\ a.resend = 0 /\ a.latest = p.latest
        /\ \/ a.seq = p.seq /\ a.gen = p.gen /\ a.sentGen = p.sentGen
           \/ a.seq = 0 /\ a.gen = 0 /\ a.sentGen = 0
    BY <1>3, <2>1, <2>2, AttachDoes
  <2> QED BY <1>0, <1>2, <1>4, <2>3 DEF p, a, n
<1>5. CASE reg.epoch # host.epoch
  <2>1. a = NewProto /\ n = 0
    BY <1>2, <1>5 DEF WireInv
  <2>2. /\ NewProto.down.acked = 0 /\ NewProto.down.next = 0 /\ NewProto.seq = 0 /\ NewProto.gen = 0
        /\ NewProto.sentGen = 0 /\ NewProto.latest = 0 /\ NewProto.resend = 0
    BY DEF NewProto, NewSender
  <2> HIDE DEF a
  <2> QED BY <1>0, <1>2, <1>5, <2>1, <2>2 DEF a
<1> QED BY <1>4, <1>5

\* What the host has delivered only grows within an epoch.
LEMMA DeliveredGrows ==
  ASSUME DownLinkInv, ServeInv, WireInv, [Next]_vars
  PROVE  \/ /\ host'.epoch = host.epoch /\ host'.rcv.acked >= host.rcv.acked
            /\ host'.rcv.acked \in Nat /\ host.rcv.acked \in Nat
         \/ /\ host'.epoch > host.epoch /\ host'.epoch \in Nat /\ host.epoch \in Nat /\ UNCHANGED << reg, sess >>
<1>0. host.rcv.acked \in Nat /\ host.epoch \in Nat
  BY Bounds DEF DownLinkInv, LinkInv, Epochs
<1>1. ASSUME NEW s \in Sessions, HostReceives(s)
      PROVE  host'.epoch = host.epoch /\ host'.rcv.acked \in Nat /\ host'.rcv.acked >= host.rcv.acked
  BY <1>1, ReceiveMoves
<1>2. ASSUME HostRestarts PROVE host'.epoch = host.epoch + 1 /\ UNCHANGED << reg, sess >>
  BY <1>2 DEF HostRestarts
<1> QED BY <1>0, <1>1, <1>2, HostMoves

LEMMA AckStep ==
  ASSUME DownLinkInv, ServeInv, GenInv, WireInv, AckInv, [Next]_vars
  PROVE  AckInv'
<1> DEFINE Known == reg'.epoch = host'.epoch =>
                        /\ proto'[host'.epoch].down.acked <= host'.rcv.acked
                        /\ host'.rcv.acked <= proto'[host'.epoch].down.next
           Reported(t) == IF sess'[t].pc = "new" THEN acks'[t] = 0
                          ELSE sess'[t].epoch = host'.epoch => acks'[t] <= host'.rcv.acked
           Armable(e) == proto'[e].resend # 0 => proto'[e].down.acked > 0
<1>0. /\ SessInv /\ RegInv /\ LinkInv /\ ProtoInv
      /\ host.rcv.acked \in Nat /\ host.epoch \in Nat /\ host.epoch \in Epochs
      /\ \A t \in Sessions : acks[t] \in Nat
  BY Bounds DEF DownLinkInv, LinkInv, Epochs
<1>a. /\ \A e \in Epochs : /\ proto[e].down.acked \in Nat /\ proto[e].down.next \in Nat /\ ProtoOK(proto[e])
                           /\ proto[e].seq \in Nat
  <2>1. \A e \in Epochs : ProtoOK(proto[e])
    BY <1>0 DEF ProtoInv
  <2> QED BY <2>1, Bounds DEF ProtoOK
<1>b. \A e \in Epochs : proto'[e].down.acked \in Nat /\ proto'[e].down.next \in Nat
  <2>1. ProtoInv'
    BY ProtoStep DEF DownLinkInv
  <2> QED BY <2>1, Bounds DEF ProtoInv, ProtoOK
<1>c. \/ /\ host'.epoch = host.epoch /\ host'.rcv.acked >= host.rcv.acked /\ host'.rcv.acked \in Nat
      \/ host'.epoch > host.epoch /\ host'.epoch \in Nat /\ UNCHANGED << reg, sess >>
  BY DeliveredGrows
<1>d. reg.epoch \in Nat /\ reg.epoch <= host.epoch
  BY DEF ServeInv
<1>1. ASSUME NEW t \in Sessions PROVE Reported(t)
  <2>1. CASE acks'[t] = 0
    BY <1>0, <1>c, <2>1, AttachedStay, NewUntilAttach DEF ServeInv
  <2>2. CASE acks'[t] = acks[t] /\ sess[t].pc = "new"
    <3>1. acks'[t] = 0
      BY <2>2 DEF AckInv
    <3> QED BY <2>1, <3>1
  <2>3. CASE acks'[t] = acks[t] /\ sess[t].pc # "new"
    <3>1. sess'[t].pc # "new" /\ sess'[t].epoch = sess[t].epoch
      BY <1>0, <2>3, AttachedStay
    <3>2. sess[t].epoch = host.epoch => acks[t] <= host.rcv.acked
      BY <2>3 DEF AckInv
    <3>3. sess[t].epoch <= reg.epoch /\ sess[t].epoch \in Epochs
      BY <1>0, <2>3 DEF ServeInv, SessInv, SessOK
    <3>4. sess[t].epoch \in Nat
      BY <3>3, Bounds DEF Epochs
    <3> QED BY <1>0, <1>c, <1>d, <2>3, <3>1, <3>2, <3>3, <3>4
  <2>4. CASE acks'[t] = host.rcv.acked /\ host.link = t /\ UNCHANGED << reg, proto, sess, pushes, link, host >>
    <3>1. sess[t].pc # "new"
      BY <2>4, SessionNumbers DEF ServeInv, None
    <3> QED BY <1>0, <2>4, <3>1
  <2> QED BY <2>1, <2>2, <2>3, <2>4, ReportMoves
<1>2. ASSUME NEW e \in Epochs PROVE Armable(e)
  <2>0. proto[e].resend # 0 => proto[e].down.acked > 0
    BY DEF AckInv
  <2>1. CASE /\ proto'[e].down.acked = proto[e].down.acked
             /\ proto'[e].resend = proto[e].resend \/ proto'[e].resend = 0
    BY <2>0, <2>1
  <2>2. ASSUME NEW s \in Sessions, HandleAck(s), sess[s].epoch = e, proto'[e] = AckDown(proto[e], acks[s])
        PROVE  Armable(e)
    <3> DEFINE p == proto[e]
               a == proto'[e]
               n == acks[s]
    <3>1. ProtoOK(p) /\ n \in Nat /\ a = AckDown(p, n) /\ p.seq \in Nat /\ p.down.acked \in Nat
      BY <1>0, <1>a, <2>2
    <3> HIDE DEF p, a, n
    <3>2. /\ a.down.acked \in Nat /\ a.down.acked >= p.down.acked
          /\ \/ a.resend = p.resend
             \/ p.seq # 0 /\ p.seq <= a.down.acked
      BY <3>1, AckDownDoes
    <3>3. p.resend # 0 => p.down.acked > 0
      BY <2>0 DEF p
    <3>4. a.resend # 0 => a.down.acked > 0
      BY <3>1, <3>2, <3>3
    <3> QED BY <3>4 DEF a
  <2>3. ASSUME NEW s \in Sessions, Attach(s), e = host.epoch PROVE Armable(e)
    BY <2>3, AttachSpace
  <2> HIDE DEF Armable
  <2> QED BY <2>1, <2>2, <2>3, WatermarkMoves
<1>3. Known
  <2> SUFFICES ASSUME reg'.epoch = host'.epoch
               PROVE  /\ proto'[host'.epoch].down.acked <= host'.rcv.acked
                      /\ host'.rcv.acked <= proto'[host'.epoch].down.next
    OBVIOUS
  <2> DEFINE e == host.epoch
             p == proto[host.epoch]
             a == proto'[host.epoch]
             A == host.rcv.acked
             B == host'.rcv.acked
  <2>1. host'.epoch = e /\ B >= A /\ B \in Nat
    BY <1>0, <1>c, <1>d
  <2>2. CASE \E s \in Sessions : Attach(s)
    <3>1. PICK s \in Sessions : Attach(s)
      BY <2>2
    <3>2. a.down.acked = A /\ (a.down.next = p.down.next \/ A = 0)
      BY <3>1, AttachSpace
    <3>3. reg.epoch = host.epoch => A <= p.down.next
      BY DEF AckInv
    <3>4. (a.down.next = p.down.next /\ reg.epoch = host.epoch) \/ A = 0
      BY <3>1, AttachSpace
    <3>5. B = A
      BY <1>0, <3>1, AttachMoves
    <3> QED BY <1>0, <1>b, <2>1, <3>2, <3>3, <3>4, <3>5
  <2>3. CASE ~ \E s \in Sessions : Attach(s)
    <3>1. reg.epoch = host.epoch
      BY <2>1, <2>3, EpochMoves
    <3>2. p.down.acked <= A /\ A <= p.down.next
      BY <3>1 DEF AckInv
    <3>3. a.down.next >= p.down.next
      BY <1>0, <3>1, SpaceGoesOn DEF Grows
    <3>4. a.down.acked <= B
      <4>1. CASE a.down.acked = p.down.acked
        BY <1>0, <1>a, <2>1, <3>2, <4>1
      <4>2. ASSUME NEW s \in Sessions, HandleAck(s), sess[s].epoch = e, a = AckDown(p, acks[s])
            PROVE  a.down.acked <= B
        <5>1. sess[s].pc # "new"
          BY <4>2 DEF HandleAck
        <5>2. acks[s] <= A
          BY <4>2, <5>1 DEF AckInv
        <5>3. /\ a.down.acked \in Nat
              /\ a.down.acked = p.down.acked \/ a.down.acked <= acks[s]
          <6> DEFINE n == acks[s]
          <6>1. ProtoOK(p) /\ n \in Nat /\ a = AckDown(p, n)
            BY <1>0, <1>a, <4>2
          <6> HIDE DEF p, a, n
          <6>2. /\ a.down.acked \in Nat
                /\ a.down.acked = p.down.acked \/ a.down.acked <= n
            BY <6>1, AckDownDoes
          <6> QED BY <6>2 DEF n
        <5> QED BY <1>0, <1>a, <2>1, <3>2, <5>2, <5>3
      <4> HIDE DEF a, p
      <4>3. \/ a.down.acked = p.down.acked
            \/ \E s \in Sessions : HandleAck(s) /\ sess[s].epoch = e /\ a = AckDown(p, acks[s])
        BY <1>0, <2>3, WatermarkMoves DEF a, p
      <4> QED BY <4>1, <4>2, <4>3
    <3>5. B <= a.down.next
      <4>1. CASE B = A
        BY <1>0, <1>a, <1>b, <3>2, <3>3, <4>1
      <4>2. ASSUME NEW s \in Sessions, HostReceives(s) PROVE B <= a.down.next
        <5>1. UNCHANGED << reg, notifiers, proto, sess, pushes, acks, handed, doubled >>
          BY <4>2, ReceiveMoves
        <5>2. \/ host'.rcv = host.rcv
              \/ B = A
              \/ B <= p.down.next
          BY <4>2, ReceiveMoves
        <5> QED BY <3>2, <5>1, <5>2
      <4>3. CASE HostRestarts
        <5>1. host'.epoch = e + 1
          BY <4>3 DEF HostRestarts
        <5> QED BY <1>0, <2>1, <5>1
      <4> QED BY <4>1, <4>2, <4>3, HostMoves
    <3> QED BY <2>1, <3>4, <3>5
  <2> QED BY <2>2, <2>3
<1> HIDE DEF Known, Reported, Armable
<1>4. (reg.epoch = host.epoch =>
           /\ proto[host.epoch].down.acked <= host.rcv.acked
           /\ host.rcv.acked <= proto[host.epoch].down.next)'
  BY <1>3 DEF Known
<1>5. (\A t \in Sessions :
         IF sess[t].pc = "new" THEN acks[t] = 0
         ELSE sess[t].epoch = host.epoch => acks[t] <= host.rcv.acked)'
  BY <1>1 DEF Reported
<1>6. (\A e \in Epochs : proto[e].resend # 0 => proto[e].down.acked > 0)'
  BY <1>2 DEF Armable
<1> QED BY <1>4, <1>5, <1>6 DEF AckInv

\* Nothing of session s, its transport or the host changes but its pc and stop.
Calm(s) ==
    /\ link'[s] = link[s] /\ handed'[s] = handed[s] /\ host'.rcv = host.rcv /\ host'.gen = host.gen
    /\ sess'[s].wpc = sess[s].wpc /\ sess'[s].batch = sess[s].batch /\ sess'[s].aud = sess[s].aud
    /\ sess'[s].written = sess[s].written /\ (sess'[s].pc = "hello" <=> sess[s].pc = "hello")

\* Who is registered and where the host is stay as they are.
Steady ==
    /\ reg'.session = reg.session /\ reg'.epoch = reg.epoch
    /\ host'.link = host.link /\ host'.epoch = host.epoch

\* The host comes to be on the registered transport by an attach only; while it
\* is there, only its loop's Start, its writer and the host touch the transport.
LEMMA ConnMoves ==
  ASSUME DownLinkInv, ServeInv, WireInv, [Next]_vars, NEW s \in Sessions, Conn(s)'
  PROVE  \/ Attach(s)
         \/ Conn(s) /\ Steady /\ (Start(s) \/ WriterStep(s) \/ HostReceives(s) \/ Calm(s))
<1> DEFINE Stays == Conn(s) /\ Steady /\ Calm(s)
           Goal == Attach(s) \/ (Conn(s) /\ Steady /\ (Start(s) \/ WriterStep(s) \/ HostReceives(s) \/ Calm(s)))
<1>0. /\ SessInv /\ RegInv /\ LinkInv /\ SessOK(sess[s]) /\ DOMAIN link = Sessions
      /\ \A u \in Sessions : sess[u].old # u
      /\ DOMAIN handed = Sessions /\ s # None
      /\ DOMAIN reg = {"session", "epoch", "gen", "stale"} /\ DOMAIN host = {"epoch", "link", "rcv", "gen"}
  BY SessionNumbers DEF DownLinkInv, SessInv, ServeInv, LinkInv, RegInv, WrittenInv, None
<1>a. s = reg'.session /\ s = host'.link /\ sess'[s].pc \in {"hello", "idle", "take"}
  BY DEF Conn
<1>1. ASSUME Steady, link'[s] = link[s], handed'[s] = handed[s], host'.rcv = host.rcv, host'.gen = host.gen,
             sess'[s] = sess[s]
      PROVE  Goal
  BY <1>0, <1>1, <1>a DEF Conn, Calm, Steady
<1>2. ASSUME Steady, UNCHANGED << host, link, handed, sess >> PROVE Goal
  BY <1>1, <1>2
<1>3. ASSUME UNCHANGED << reg, host, link, handed >>,
             NEW t \in Sessions, HandleAck(t) \/ TakeResend(t) \/ Close(t)
      PROVE  Goal
  <2>1. /\ SameButPc(t) /\ sess[t].pc \in {"idle", "take"} /\ sess'[t].pc # "hello"
    BY <1>0, <1>3, HandleAckMoves, TakeResendMoves, CloseMoves
  <2>2. Steady
    BY <1>3 DEF Steady
  <2>3. CASE t # s
    BY <1>1, <1>3, <2>1, <2>2, <2>3 DEF SameButPc
  <2>4. CASE t = s
    <3>1. Calm(s) /\ Conn(s)
      BY <1>0, <1>3, <1>a, <2>1, <2>4 DEF Conn, Calm, SameButPc
    <3> QED BY <2>2, <3>1
  <2> QED BY <2>3, <2>4
<1>4. ASSUME NEW t \in Sessions, Detach(t) PROVE Goal
  <2>1. /\ SameButPc(t) /\ sess'[t].pc = "done" /\ UNCHANGED handed
        /\ reg' = IF reg.session = t THEN [reg EXCEPT !.session = None] ELSE reg
        /\ host' = IF host.link = t THEN [host EXCEPT !.link = None] ELSE host
        /\ link' = [link EXCEPT ![t] = << >>]
    BY <1>0, <1>4, DetachMoves DEF histVars
  <2>2. t # s
    BY <1>a, <2>1
  <2>3. reg' = reg /\ host' = host
    BY <1>0, <1>a, <2>1
  <2>4. link'[s] = link[s] /\ sess'[s] = sess[s]
    BY <1>0, <2>1, <2>2 DEF SameButPc
  <2> QED BY <1>1, <2>1, <2>3, <2>4 DEF Steady
<1>5. ASSUME NEW t \in Sessions, Start(t) PROVE Goal
  <2>1. /\ UNCHANGED << reg, host, handed >> /\ sess[t].pc = "hello"
        /\ link' = IF host.link = t THEN [link EXCEPT ![t] = << << 0, sess[t].aud >> >>] ELSE link
    BY <1>0, <1>5, StartMoves DEF histVars
  <2>2. \A u \in Sessions : u # t =>
                /\ sess'[u].pc = sess[u].pc /\ sess'[u].epoch = sess[u].epoch
                /\ sess'[u].old = sess[u].old /\ sess'[u].aud = sess[u].aud
                /\ sess'[u].wpc = sess[u].wpc /\ sess'[u].batch = sess[u].batch
                /\ sess'[u].written = sess[u].written
                /\ u # sess[t].old => sess'[u].stop = sess[u].stop
    BY <1>0, <1>5, StartMoves
  <2>3. Steady
    BY <2>1 DEF Steady
  <2>4. CASE t = s
    BY <1>0, <1>5, <1>a, <2>1, <2>3, <2>4 DEF Conn
  <2>5. CASE t # s
    <3>1. link'[s] = link[s]
      BY <1>0, <2>1, <2>5
    <3>2. /\ sess'[s].pc = sess[s].pc /\ sess'[s].aud = sess[s].aud
          /\ sess'[s].wpc = sess[s].wpc /\ sess'[s].batch = sess[s].batch
          /\ sess'[s].written = sess[s].written
      BY <2>2, <2>5
    <3>3. Conn(s) /\ Calm(s)
      BY <1>0, <1>a, <2>1, <3>1, <3>2 DEF Conn, Calm
    <3> QED BY <2>3, <3>3
  <2> QED BY <2>4, <2>5
<1>6. ASSUME NEW t \in Sessions, WriterStep(t) PROVE Goal
  <2>1. UNCHANGED << reg, host >> /\ SameButWriter(t)
    BY <1>0, <1>6, WriterMoves
  <2>2. Steady
    BY <2>1 DEF Steady
  <2>3. CASE t = s
    BY <1>0, <1>6, <1>a, <2>1, <2>2, <2>3 DEF Conn, SameButWriter
  <2>4. CASE t # s
    <3>1. link'[s] = link[s] /\ handed'[s] = handed[s]
      <4>1. CASE Write(t)
        <5>1. \/ UNCHANGED << link, handed >>
              \/ /\ link' = IF host.link = t THEN [link EXCEPT ![t] = Append(link[t], Head(sess[t].batch))] ELSE link
                 /\ handed' = [handed EXCEPT ![t] = handed[t] \cup {Head(sess[t].batch)[1]}]
          BY <1>0, <4>1, WriteMoves
        <5> QED BY <1>0, <2>4, <5>1
      <4>2. CASE WriterTop(t) \/ WriterWakes(t) \/ Replay(t) \/ Rewrite(t) \/ Written(t)
        BY <4>2 DEF WriterTop, WriterWakes, Replay, Rewrite, Written, histVars
      <4> QED BY <1>6, <4>1, <4>2 DEF WriterStep
    <3> QED BY <1>1, <2>1, <2>2, <2>4, <3>1 DEF SameButWriter
  <2> QED BY <2>3, <2>4
<1>7. ASSUME NEW t \in Sessions, HostReceives(t) PROVE Goal
  <2>1. /\ host.link = t /\ host'.link = host.link /\ host'.epoch = host.epoch
        /\ UNCHANGED << reg, notifiers, proto, sess, pushes, acks, handed, doubled >>
    BY <1>7, ReceiveMoves
  <2> QED BY <1>0, <1>7, <1>a, <2>1 DEF Conn, Steady
<1>8. ASSUME NEW t \in Sessions, Attach(t) PROVE Goal
  <2>1. reg'.session = t
    BY <1>0, <1>8, AttachMoves
  <2> QED BY <1>8, <1>a, <2>1
<1>9. ASSUME NEW c \in pushes, AskRewrite(c) PROVE Goal
  <2>1. /\ UNCHANGED << reg, host, link, handed >>
        /\ sess'[s].pc = sess[s].pc /\ sess'[s].aud = sess[s].aud
        /\ sess'[s].wpc = sess[s].wpc /\ sess'[s].batch = sess[s].batch /\ sess'[s].written = sess[s].written
    BY <1>0, <1>9, AskRewriteMoves DEF histVars
  <2>2. Conn(s) /\ Calm(s) /\ Steady
    BY <1>0, <1>a, <2>1 DEF Conn, Calm, Steady
  <2> QED BY <2>2
<1>10. ASSUME HostLeaves \/ HostRestarts PROVE Goal
  <2>1. host'.link = None
    BY <1>0, <1>10 DEF HostLeaves, HostRestarts
  <2> QED BY <1>0, <1>a, <2>1
<1>11. ASSUME Notify \/ ViewChange PROVE Steady /\ UNCHANGED << host, link, handed, sess >>
  BY <1>0, <1>11 DEF Notify, ViewChange, Steady, histVars
<1>12. ASSUME NEW t \in Sessions, SendRequest(t) \/ HostAcks(t) PROVE Steady /\ UNCHANGED << host, link, handed, sess >>
  BY <1>12 DEF SendRequest, HostAcks, histVars, Steady
<1>13. ASSUME NEW t \in Sessions, NEW q \in 1 .. MaxSeq, ExpireRequest(t, q)
       PROVE  Steady /\ UNCHANGED << host, link, handed, sess >>
  BY <1>13 DEF ExpireRequest, Steady
<1>14. ASSUME NEW c \in pushes, Push(c) PROVE Steady /\ UNCHANGED << host, link, handed, sess >>
  BY <1>14 DEF Push, histVars, Steady
<1>15. ASSUME UNCHANGED vars PROVE Steady /\ UNCHANGED << host, link, handed, sess >>
  BY <1>15 DEF vars, histVars, Steady
<1>16. ASSUME NEW t \in Sessions, HandleAck(t) \/ TakeResend(t) \/ Close(t) PROVE UNCHANGED << reg, host, link, handed >>
  BY <1>16 DEF HandleAck, TakeResend, Close, histVars
<1> HIDE DEF Goal
<1>17. Goal
  BY <1>2, <1>3, <1>4, <1>5, <1>6, <1>7, <1>8, <1>9, <1>10, <1>11, <1>12, <1>13, <1>14, <1>15, <1>16
     DEF Next, LoopStep
<1> QED BY <1>17 DEF Goal

\* A writer that waits for noteWritten did so before, or has just written.
LEMMA NoteMoves ==
  ASSUME DownLinkInv, ServeInv, [Next]_vars, NEW t \in Sessions, sess'[t].wpc = "note"
  PROVE  /\ sess'[t].batch = sess[t].batch
         /\ sess[t].wpc = "note" \/ (Write(t) /\ sess[t].wpc = "write")
<1> DEFINE Goal == /\ sess'[t].batch = sess[t].batch
                   /\ sess[t].wpc = "note" \/ (Write(t) /\ sess[t].wpc = "write")
<1>0. SessInv /\ RegInv /\ LinkInv /\ \A s \in Sessions : sess[s].old # s
  <2>1. \A s \in Sessions : s \in Nat /\ sess[s].old \in Nat /\ sess[s].old < s
    BY SessionNumbers DEF ServeInv
  <2>2. SessInv /\ RegInv /\ LinkInv
    BY DEF DownLinkInv
  <2> QED BY <2>1, <2>2
<1>1. ASSUME sess'[t].wpc = sess[t].wpc, sess'[t].batch = sess[t].batch PROVE Goal
  BY <1>1
<1>2. ASSUME NEW s \in Sessions, WriterStep(s) PROVE Goal
  <2>1. CASE t # s
    <3>1. SameButWriter(s)
      BY <1>0, <1>2, WriterMoves
    <3> QED BY <1>1, <2>1, <3>1 DEF SameButWriter
  <2>2. CASE t = s
    <3>1. CASE WriterTop(s)
      <4>1. sess'[s].wpc \in {"done", "write", "select"}
        BY <1>0, <3>1, WriterTopMoves
      <4> QED BY <2>2, <4>1
    <3>2. CASE WriterWakes(s) \/ Replay(s)
      <4>1. sess'[s].wpc \in {"top", "write"}
        BY <1>0, <3>2, WriterWakesMoves, ReplayMoves
      <4> QED BY <2>2, <4>1
    <3>3. CASE Rewrite(s)
      <4>1. sess'[s].wpc \in {"top", "write"}
        BY <1>0, <3>3, RewriteMoves
      <4> QED BY <2>2, <4>1
    <3>4. CASE Write(s)
      <4>1. sess[s].wpc = "write" /\ (sess'[s].wpc = "done" \/ sess'[s].batch = sess[s].batch)
        BY <1>0, <3>4, WriteMoves
      <4> QED BY <2>2, <3>4, <4>1
    <3>5. CASE Written(s)
      <4>1. sess'[s].wpc \in {"top", "write"}
        BY <1>0, <3>5, WrittenMoves
      <4> QED BY <2>2, <4>1
    <3> QED BY <1>2, <3>1, <3>2, <3>3, <3>4, <3>5 DEF WriterStep
  <2> QED BY <2>1, <2>2
<1>3. ASSUME NEW s \in Sessions, HandleAck(s) \/ TakeResend(s) \/ Close(s) \/ Detach(s) PROVE Goal
  <2>1. SameButPc(s)
    BY <1>0, <1>3, HandleAckMoves, TakeResendMoves, CloseMoves, DetachMoves
  <2> QED BY <1>1, <2>1 DEF SameButPc
<1>4. ASSUME NEW s \in Sessions, Start(s) PROVE Goal
  <2>1. sess'[s].wpc = "top"
    BY <1>0, <1>4, StartMoves
  <2>2. \A u \in Sessions : u # s =>
                /\ sess'[u].pc = sess[u].pc /\ sess'[u].epoch = sess[u].epoch
                /\ sess'[u].old = sess[u].old /\ sess'[u].aud = sess[u].aud
                /\ sess'[u].wpc = sess[u].wpc /\ sess'[u].batch = sess[u].batch
                /\ sess'[u].written = sess[u].written
                /\ u # sess[s].old => sess'[u].stop = sess[u].stop
    BY <1>0, <1>4, StartMoves
  <2> QED BY <1>1, <2>1, <2>2
<1>5. ASSUME NEW s \in Sessions, Attach(s) PROVE Goal
  <2>1. sess'[s].wpc = "none" /\ \A u \in Sessions : u # s => sess'[u] = sess[u]
    BY <1>0, <1>5, AttachMoves
  <2> QED BY <1>1, <2>1
<1>6. ASSUME NEW c \in pushes, AskRewrite(c) PROVE Goal
  <2>1. sess'[t].wpc = sess[t].wpc /\ sess'[t].batch = sess[t].batch
    BY <1>0, <1>6, AskRewriteMoves
  <2> QED BY <1>1, <2>1
<1>7. ASSUME UNCHANGED sess PROVE Goal
  BY <1>1, <1>7
<1>8. ASSUME NEW s \in Sessions, SendRequest(s) \/ HostReceives(s) \/ HostAcks(s) PROVE UNCHANGED sess
  BY <1>8 DEF SendRequest, HostReceives, HostAcks
<1>9. ASSUME NEW s \in Sessions, NEW q \in 1 .. MaxSeq, ExpireRequest(s, q) PROVE UNCHANGED sess
  BY <1>9 DEF ExpireRequest
<1>10. ASSUME NEW c \in pushes, Push(c) PROVE UNCHANGED sess
  BY <1>10 DEF Push
<1>11. ASSUME ViewChange \/ Notify \/ HostLeaves \/ HostRestarts \/ UNCHANGED vars PROVE UNCHANGED sess
  BY <1>11 DEF ViewChange, Notify, HostLeaves, HostRestarts, vars
<1> HIDE DEF Goal
<1>12. Goal
  BY <1>2, <1>3, <1>4, <1>5, <1>6, <1>7, <1>8, <1>9, <1>10, <1>11 DEF Next, LoopStep
<1> QED BY <1>12 DEF Goal

\* What can happen to the audience entry of a space: nothing, ...
SameEntry(p, a) ==
    a.seq = p.seq /\ a.gen = p.gen /\ a.sentGen = p.sentGen /\ a.latest = p.latest /\ a.resend = p.resend

\* ... a newer write is noted, ...
Noted(p, a, g) ==
    a.seq = p.seq /\ a.gen = p.gen /\ a.sentGen = g /\ a.latest = p.latest /\ a.resend = p.resend

\* ... a newer generation takes its place, or a fresh seq, ...
Pushed(p, a, g) ==
    /\ g >= p.latest /\ a.latest = g /\ a.gen = g /\ a.resend = 0
    /\ \/ p.seq # 0 /\ a.seq = p.seq /\ a.sentGen = p.sentGen
       \/ p.seq = 0 /\ a.seq = p.down.next + 1 /\ a.sentGen = 0

\* ... an ack covers it, ...
Covered(p, a) ==
    /\ p.seq # 0 /\ p.seq <= a.down.acked /\ a.seq = 0 /\ a.latest = p.latest
    /\ a.resend = IF p.sentGen < p.gen THEN p.latest ELSE p.resend

\* ... or the loop takes the resend.
Taken(p, a) ==
    a.seq = p.seq /\ a.gen = p.gen /\ a.sentGen = p.sentGen /\ a.latest = p.latest /\ a.resend = 0

LEMMA EntryMoves ==
  ASSUME DownLinkInv, [Next]_vars, NEW e \in Epochs
  PROVE  LET p == proto[e]
             a == proto'[e]
         IN  \/ SameEntry(p, a)
             \/ \E t \in Sessions : /\ sess[t].epoch = e /\ sess[t].wpc = "note" /\ Head(sess[t].batch)[1] = p.seq
                                    /\ Written(t) /\ Noted(p, a, Head(sess[t].batch)[2])
             \/ \E c \in pushes : sess[c.sess].epoch = e /\ Push(c) /\ Pushed(p, a, c.gen)
             \/ \E t \in Sessions : /\ sess[t].epoch = e /\ HandleAck(t) /\ Covered(p, a)
                                    /\ a.down.acked = p.down.acked \/ a.down.acked <= acks[t]
             \/ \E t \in Sessions : sess[t].epoch = e /\ TakeResend(t) /\ Taken(p, a)
             \/ \E t \in Sessions : Attach(t) /\ e = host.epoch
<1> DEFINE p == proto[e]
           a == proto'[e]
           One == \/ SameEntry(p, a)
                  \/ \E t \in Sessions : /\ sess[t].epoch = e /\ sess[t].wpc = "note" /\ Head(sess[t].batch)[1] = p.seq
                                         /\ Written(t) /\ Noted(p, a, Head(sess[t].batch)[2])
                  \/ \E c \in pushes : sess[c.sess].epoch = e /\ Push(c) /\ Pushed(p, a, c.gen)
                  \/ \E t \in Sessions : /\ sess[t].epoch = e /\ HandleAck(t) /\ Covered(p, a)
                                         /\ a.down.acked = p.down.acked \/ a.down.acked <= acks[t]
                  \/ \E t \in Sessions : sess[t].epoch = e /\ TakeResend(t) /\ Taken(p, a)
                  \/ \E t \in Sessions : Attach(t) /\ e = host.epoch
<1>0. SessInv /\ RegInv /\ LinkInv /\ ProtoInv /\ ProtoOK(p) /\ DOMAIN proto = Epochs
  BY DEF DownLinkInv, ProtoInv
<1>a. SameEntry(p, p)
  BY DEF SameEntry
<1>1. ASSUME UNCHANGED proto PROVE One
  <2>1. a = p
    BY <1>1
  <2> HIDE DEF a, p
  <2> QED BY <1>a, <2>1
<1>2. ASSUME NEW f, f # e, NEW x, proto' = [proto EXCEPT ![f] = x] PROVE One
  <2>1. a = p
    BY <1>0, <1>2
  <2> HIDE DEF a, p
  <2> QED BY <1>a, <2>1
<1>3. ASSUME NEW c \in pushes, Push(c) PROVE One
  <2>1. CASE Finished(c.sess)
    BY <1>1, <1>3, <2>1 DEF Push
  <2>2. CASE ~Finished(c.sess)
    <3>1. proto' = [proto EXCEPT ![sess[c.sess].epoch] = PushProto(proto[sess[c.sess].epoch], c.gen)]
      BY <1>3, <2>2 DEF Push
    <3>2. CASE sess[c.sess].epoch # e
      BY <1>2, <3>1, <3>2
    <3>3. CASE sess[c.sess].epoch = e
      <4>1. c.gen \in Nat \ {0}
        BY <1>0 DEF RegInv
      <4>2. a = PushProto(p, c.gen)
        BY <1>0, <3>1, <3>3
      <4> HIDE DEF a, p
      <4>3. \/ c.gen < p.latest /\ a = p
            \/ Pushed(p, a, c.gen)
        BY <1>0, <4>1, <4>2, PushDoes DEF Pushed
      <4> QED BY <1>3, <1>a, <3>3, <4>3
    <3> QED BY <3>2, <3>3
  <2> QED BY <2>1, <2>2
<1>4. ASSUME NEW s \in Sessions, SendRequest(s) PROVE One
  <2>1. proto' = [proto EXCEPT ![sess[s].epoch] = DispatchRequest(proto[sess[s].epoch])]
    BY <1>4 DEF SendRequest
  <2>2. CASE sess[s].epoch # e
    BY <1>2, <2>1, <2>2
  <2>3. CASE sess[s].epoch = e
    <3>1. a = DispatchRequest(p)
      BY <1>0, <2>1, <2>3
    <3> HIDE DEF a, p
    <3> QED BY <1>0, <3>1, DispatchDoes DEF SameEntry
  <2> QED BY <2>2, <2>3
<1>5. ASSUME NEW s \in Sessions, Written(s) PROVE One
  <2> DEFINE f == Head(sess[s].batch)
  <2>1. /\ proto' = [proto EXCEPT ![sess[s].epoch] = NoteWritten(proto[sess[s].epoch], f[1], f[2])]
        /\ sess[s].wpc = "note"
    BY <1>0, <1>5, WrittenMoves
  <2>2. CASE sess[s].epoch # e
    <3> HIDE DEF f
    <3> QED BY <1>2, <2>1, <2>2
  <2>3. CASE sess[s].epoch = e
    <3>1. f[2] \in Nat
      <4>1. sess[s].batch \in Seq(Frames) /\ sess[s].batch # << >>
        BY <1>0, <2>1 DEF SessInv, SessOK
      <4>2. f \in Frames
        BY <4>1, SetOfSeq
      <4> QED BY <4>2 DEF Frames
    <3>2. a = NoteWritten(p, f[1], f[2])
      BY <1>0, <2>1, <2>3
    <3>3. SameEntry(p, a) \/ (f[1] = p.seq /\ Noted(p, a, f[2]))
      <4> HIDE DEF a, p, f
      <4> QED BY <1>0, <3>1, <3>2, NoteDoes DEF SameEntry, Noted
    <3> HIDE DEF a, p
    <3> QED BY <1>5, <2>1, <2>3, <3>3
  <2> QED BY <2>2, <2>3
<1>6. ASSUME NEW s \in Sessions, TakeResend(s) PROVE One
  <2>1. proto' = [proto EXCEPT ![sess[s].epoch].resend = 0]
    BY <1>0, <1>6, TakeResendMoves
  <2>2. CASE sess[s].epoch # e
    <3>1. a = p
      BY <1>0, <2>1, <2>2
    <3> HIDE DEF a, p
    <3> QED BY <1>a, <3>1
  <2>3. CASE sess[s].epoch = e
    <3>1. a = [p EXCEPT !.resend = 0]
      BY <1>0, <2>1, <2>3
    <3>2. Taken(p, a)
      <4> HIDE DEF a, p
      <4> QED BY <1>0, <3>1 DEF Taken, ProtoOK
    <3> HIDE DEF a, p
    <3> QED BY <1>6, <2>3, <3>2
  <2> QED BY <2>2, <2>3
<1>7. ASSUME NEW s \in Sessions, NEW q \in 1 .. MaxSeq, ExpireRequest(s, q) PROVE One
  <2>1. PICK r : proto' = [proto EXCEPT ![sess[s].epoch].reqAcks = r]
    BY <1>7 DEF ExpireRequest
  <2>2. CASE sess[s].epoch # e
    <3>1. a = p
      BY <1>0, <2>1, <2>2
    <3> HIDE DEF a, p
    <3> QED BY <1>a, <3>1
  <2>3. CASE sess[s].epoch = e
    <3>1. a = [p EXCEPT !.reqAcks = r]
      BY <1>0, <2>1, <2>3
    <3> HIDE DEF a, p
    <3> QED BY <1>0, <3>1 DEF SameEntry, ProtoOK
  <2> QED BY <2>2, <2>3
<1>8. ASSUME NEW s \in Sessions, HandleAck(s) PROVE One
  <2>1. proto' = [proto EXCEPT ![sess[s].epoch] = AckDown(proto[sess[s].epoch], acks[s])]
    BY <1>0, <1>8, HandleAckMoves
  <2>2. CASE sess[s].epoch # e
    BY <1>2, <2>1, <2>2
  <2>3. CASE sess[s].epoch = e
    <3> DEFINE n == acks[s]
    <3>1. a = AckDown(p, n) /\ n \in Nat
      BY <1>0, <2>1, <2>3 DEF LinkInv
    <3>2. \/ SameEntry(p, a)
          \/ Covered(p, a) /\ (a.down.acked = p.down.acked \/ a.down.acked <= n)
      <4> HIDE DEF a, p, n
      <4>1. /\ a.down.acked = p.down.acked \/ a.down.acked <= n
            /\ a.latest = p.latest
            /\ \/ a.seq = p.seq /\ a.gen = p.gen /\ a.sentGen = p.sentGen /\ a.resend = p.resend
               \/ /\ a.seq = 0 /\ a.gen = 0 /\ a.sentGen = 0 /\ p.seq # 0 /\ p.seq <= a.down.acked
                  /\ a.resend = IF p.sentGen < p.gen THEN p.latest ELSE p.resend
        BY <1>0, <3>1, AckDownDoes
      <4> QED BY <4>1 DEF SameEntry, Covered
    <3> HIDE DEF a, p
    <3> QED BY <1>8, <2>3, <3>2
  <2> QED BY <2>2, <2>3
<1>9. ASSUME NEW s \in Sessions, Attach(s) PROVE One
  <2>1. \E x : proto' = [proto EXCEPT ![host.epoch] = x]
    BY <1>9 DEF Attach
  <2>2. CASE host.epoch # e
    BY <1>2, <2>1, <2>2
  <2> QED BY <1>9, <2>2
<1>10. ASSUME NEW s \in Sessions,
             WriterTop(s) \/ WriterWakes(s) \/ Replay(s) \/ Rewrite(s) \/ Write(s)
      PROVE  UNCHANGED proto
  BY <1>10 DEF WriterTop, WriterWakes, Replay, Rewrite, Write
<1>11. ASSUME NEW s \in Sessions,
              Start(s) \/ Close(s) \/ Detach(s) \/ HostReceives(s) \/ HostAcks(s)
       PROVE  UNCHANGED proto
  BY <1>11 DEF Start, Close, Detach, HostReceives, HostAcks
<1>12. ASSUME NEW c \in pushes, AskRewrite(c) PROVE UNCHANGED proto
  BY <1>12 DEF AskRewrite
<1>13. ASSUME ViewChange \/ Notify \/ HostLeaves \/ HostRestarts \/ UNCHANGED vars PROVE UNCHANGED proto
  BY <1>13 DEF ViewChange, Notify, HostLeaves, HostRestarts, vars
<1> HIDE DEF One
<1>14. One
  BY <1>1, <1>3, <1>4, <1>5, <1>6, <1>7, <1>8, <1>9, <1>10, <1>11, <1>12, <1>13 DEF Next, LoopStep, WriterStep
<1> QED BY <1>14 DEF One

LEMMA ConnFacts ==
  ASSUME DownLinkInv, ServeInv, NEW s \in Sessions, Conn(s)
  PROVE  /\ s # None /\ reg.session = s /\ host.link = s
         /\ reg.epoch = host.epoch /\ sess[s].epoch = reg.epoch /\ reg.epoch \in Epochs
         /\ ~sess[s].stop /\ sess[s].pc \in {"hello", "idle", "take"} /\ ProtoOK(Cur)
         /\ \A u \in Sessions : u > s => sess[u].pc = "new"
<1>1. s # None /\ reg.session = s /\ host.link = s /\ sess[s].pc \in {"hello", "idle", "take"}
  BY DEF Conn
<1>2. sess[s].epoch = reg.epoch /\ ~sess[s].stop /\ \A u \in Sessions : u > s => sess[u].pc = "new"
  BY <1>1 DEF ServeInv
<1>3. sess[s].epoch = host.epoch
  BY <1>1 DEF ServeInv
<1>4. host.epoch \in Epochs
  BY DEF DownLinkInv, LinkInv
<1>5. ProtoOK(proto[host.epoch])
  BY <1>4 DEF DownLinkInv, ProtoInv
<1> QED BY <1>1, <1>2, <1>3, <1>4, <1>5 DEF Cur

\* The transports that were left behind have nothing to report any more.
LEMMA OthersStep ==
  ASSUME DownLinkInv, ServeInv, GenInv, WireInv, AckInv, ConnInv, [Next]_vars,
         NEW s \in Sessions, Conn(s)', NEW t \in Sessions, t # s, sess'[t].epoch = reg'.epoch
  PROVE  acks'[t] <= proto'[reg'.epoch].down.acked
<1>0. /\ SessInv /\ RegInv /\ LinkInv /\ acks[t] \in Nat
      /\ \A e \in Epochs : proto[e].down.acked \in Nat /\ proto'[e].down.acked \in Nat
  <2>1. ProtoInv /\ ProtoInv'
    BY ProtoStep DEF DownLinkInv
  <2>2. \A e \in Epochs : ProtoOK(proto[e]) /\ ProtoOK(proto'[e])
    BY <2>1 DEF ProtoInv
  <2>3. \A e \in Epochs : proto[e].down.acked \in Nat /\ proto'[e].down.acked \in Nat
    BY <2>2, Bounds DEF ProtoOK
  <2> QED BY <2>3 DEF DownLinkInv, LinkInv
<1>1. CASE Attach(s)
  <2>1. /\ sess'[t] = sess[t] /\ acks'[t] = acks[t] /\ reg'.epoch = host.epoch
    BY <1>0, <1>1, AttachMoves
  <2>2. proto'[reg'.epoch].down.acked = host.rcv.acked /\ host.rcv.acked \in Nat
    BY <1>0, <1>1, <2>1, AttachSpace, Bounds DEF LinkInv
  <2>3. acks[t] = 0 \/ acks[t] <= host.rcv.acked
    BY <2>1 DEF AckInv
  <2> QED BY <2>1, <2>2, <2>3
<1>2. CASE Conn(s) /\ Steady
  <2> DEFINE e == reg.epoch
  <2>1. e \in Epochs /\ reg.epoch = host.epoch /\ host.link = s
    BY <1>2, ConnFacts
  <2>2. Grows(proto[e], proto'[e])
    BY <2>1, SpaceGoesOn
  <2>3. reg'.epoch = e
    BY <1>2 DEF Steady
  <2>4. acks[t] <= proto[e].down.acked
    <3>1. CASE sess[t].pc = "new"
      BY <1>0, <2>1, <3>1 DEF AckInv
    <3>2. CASE sess[t].pc # "new"
      <4>1. sess[t].epoch = e
        BY <1>0, <2>3, <3>2, AttachedStay
      <4> QED BY <1>2, <4>1 DEF ConnInv, Cur
    <3> QED BY <3>1, <3>2
  <2>5. acks'[t] = acks[t] \/ acks'[t] = 0
    BY <2>1, ReportMoves
  <2> HIDE DEF e
  <2> QED BY <1>0, <2>1, <2>2, <2>3, <2>4, <2>5 DEF Grows
<1> QED BY <1>1, <1>2, ConnMoves

\* A resend is taken in the same turn of the loop.
LEMMA ResendStep ==
  ASSUME DownLinkInv, ServeInv, GenInv, WireInv, AckInv, ConnInv, [Next]_vars, NEW s \in Sessions, Conn(s)'
  PROVE  proto'[reg'.epoch].resend # 0 => sess'[s].pc = "take"
<1>0. SessInv /\ RegInv /\ LinkInv
  BY DEF DownLinkInv
<1>1. CASE Attach(s)
  <2>1. reg'.epoch = host.epoch
    BY <1>0, <1>1, AttachMoves
  <2>2. proto'[host.epoch].resend = 0
    BY <1>1, AttachSpace
  <2> QED BY <2>1, <2>2
<1>2. CASE Conn(s) /\ Steady
  <2> DEFINE e == reg.epoch
             p == proto[e]
             a == proto'[e]
             Goal == a.resend # 0 => sess'[s].pc = "take"
  <2>1. /\ e \in Epochs /\ reg.epoch = host.epoch /\ host.link = s /\ reg.session = s /\ ProtoOK(p)
        /\ sess[s].epoch = e
    BY <1>2, ConnFacts DEF Cur
  <2>2. reg'.epoch = e
    BY <1>2 DEF Steady
  <2>3. p.resend # 0 => sess[s].pc = "take"
    BY <1>2 DEF ConnInv, Cur
  <2>4. sess'[s].pc # sess[s].pc => HandleAck(s) \/ sess[s].pc # "take" \/ TakeResend(s)
    <3>1. ASSUME NEW t \in Sessions, t # s, HandleAck(t) \/ TakeResend(t) \/ Close(t) \/ Detach(t) PROVE sess'[s] = sess[s]
      <4>1. SameButPc(t)
        BY <1>0, <3>1, HandleAckMoves, TakeResendMoves, CloseMoves, DetachMoves
      <4> QED BY <3>1, <4>1 DEF SameButPc
    <3>2. Start(s) => sess[s].pc # "take"
      BY DEF Start
    <3>3. WriterStep(s) => sess'[s].pc = sess[s].pc
      BY <1>0, WriterMoves DEF SameButWriter
    <3>4. HostReceives(s) => sess'[s].pc = sess[s].pc
      BY DEF HostReceives
    <3>5. ASSUME NEW t \in Sessions, Start(t), t # s PROVE sess'[s].pc = sess[s].pc
      <4>1. sess[t].old # t
        BY SessionNumbers DEF ServeInv
      <4>2. \A u \in Sessions : u # t =>
                /\ sess'[u].pc = sess[u].pc /\ sess'[u].epoch = sess[u].epoch
                /\ sess'[u].old = sess[u].old /\ sess'[u].aud = sess[u].aud
                /\ sess'[u].wpc = sess[u].wpc /\ sess'[u].batch = sess[u].batch
                /\ sess'[u].written = sess[u].written
                /\ u # sess[t].old => sess'[u].stop = sess[u].stop
        BY <1>0, <3>5, <4>1, StartMoves
      <4> QED BY <3>5, <4>2
    <3>6. ASSUME NEW t \in Sessions, WriterStep(t), t # s PROVE sess'[s].pc = sess[s].pc
      BY <1>0, <3>6, WriterMoves DEF SameButWriter
    <3>7. ASSUME NEW t \in Sessions, Attach(t) PROVE sess'[s].pc = sess[s].pc
      <4>1. host.link = None
        BY <3>7 DEF Attach
      <4> QED BY <2>1, <4>1, SessionNumbers DEF None
    <3>8. ASSUME Close(s) \/ Detach(s) PROVE FALSE
      <4>1. sess'[s].pc \in {"closing", "done"}
        BY <1>0, <3>8, DetachMoves, CloseMoves
      <4> QED BY <4>1 DEF Conn
    <3>9. ASSUME NEW c \in pushes, AskRewrite(c) PROVE sess'[s].pc = sess[s].pc
      BY <1>0, <3>9, AskRewriteMoves
    <3>10. ASSUME NEW t \in Sessions, SendRequest(t) \/ HostReceives(t) \/ HostAcks(t) PROVE UNCHANGED sess
      BY <3>10 DEF SendRequest, HostReceives, HostAcks
    <3>11. ASSUME NEW t \in Sessions, NEW q \in 1 .. MaxSeq, ExpireRequest(t, q) PROVE UNCHANGED sess
      BY <3>11 DEF ExpireRequest
    <3>12. ASSUME NEW c \in pushes, Push(c) PROVE UNCHANGED sess
      BY <3>12 DEF Push
    <3>13. ASSUME ViewChange \/ Notify \/ HostLeaves \/ HostRestarts \/ UNCHANGED vars PROVE UNCHANGED sess
      BY <3>13 DEF ViewChange, Notify, HostLeaves, HostRestarts, vars
    <3> QED BY <3>1, <3>2, <3>3, <3>4, <3>5, <3>6, <3>7, <3>8, <3>9, <3>10, <3>11, <3>12, <3>13 DEF Next, LoopStep
  <2>5. HandleAck(s) => sess'[s].pc = "take"
    BY <1>0, HandleAckMoves
  <2>6. TakeResend(s) => a.resend = 0
    <3>1. TakeResend(s) => proto' = [proto EXCEPT ![e].resend = 0]
      BY <1>0, <2>1, TakeResendMoves
    <3>2. TakeResend(s) => a = [p EXCEPT !.resend = 0]
      BY <2>1, <3>1 DEF DownLinkInv, ProtoInv
    <3> HIDE DEF a, p
    <3> QED BY <2>1, <3>2 DEF ProtoOK
  <2>7. ASSUME a.resend = p.resend \/ a.resend = 0 PROVE Goal
    BY <2>3, <2>4, <2>5, <2>6, <2>7
  <2>8. ASSUME NEW t \in Sessions, sess[t].epoch = e, HandleAck(t), Covered(p, a),
               a.down.acked = p.down.acked \/ a.down.acked <= acks[t]
        PROVE  Goal
    <3>1. CASE t = s
      BY <2>5, <2>8, <3>1
    <3>2. CASE t # s
      <4>1. acks[t] <= p.down.acked
        BY <1>2, <2>8, <3>2 DEF ConnInv, Cur
      <4> HIDE DEF p, a
      <4>2. p.seq \in Nat /\ p.down.acked \in Nat /\ (p.seq # 0 => p.seq > p.down.acked)
        BY <2>1, Bounds DEF ProtoOK
      <4>3. acks[t] \in Nat
        BY <1>0 DEF LinkInv
      <4>4. a.down.acked \in Nat
        <5>1. ProtoInv'
          BY ProtoStep DEF DownLinkInv
        <5> QED BY <2>1, <5>1, Bounds DEF ProtoInv, ProtoOK, a
      <4> QED BY <2>8, <4>1, <4>2, <4>3, <4>4 DEF Covered
    <3> QED BY <3>1, <3>2
  <2> HIDE DEF p, a, e, Goal
  <2>9. Goal
    <3>1. ASSUME NEW t \in Sessions, Attach(t) PROVE FALSE
      <4>1. host.link = None
        BY <3>1 DEF Attach
      <4> QED BY <2>1, <4>1, SessionNumbers DEF None
    <3>2. \/ SameEntry(p, a)
          \/ \E t \in Sessions : /\ sess[t].epoch = e /\ sess[t].wpc = "note" /\ Head(sess[t].batch)[1] = p.seq
                                 /\ Written(t) /\ Noted(p, a, Head(sess[t].batch)[2])
          \/ \E c \in pushes : sess[c.sess].epoch = e /\ Push(c) /\ Pushed(p, a, c.gen)
          \/ \E t \in Sessions : /\ sess[t].epoch = e /\ HandleAck(t) /\ Covered(p, a)
                                 /\ a.down.acked = p.down.acked \/ a.down.acked <= acks[t]
          \/ \E t \in Sessions : sess[t].epoch = e /\ TakeResend(t) /\ Taken(p, a)
          \/ \E t \in Sessions : Attach(t) /\ e = host.epoch
      BY <2>1, EntryMoves DEF p, a
    <3>3. \A g : /\ SameEntry(p, a) => a.resend = p.resend
                 /\ Noted(p, a, g) => a.resend = p.resend
                 /\ Pushed(p, a, g) => a.resend = 0
                 /\ Taken(p, a) => a.resend = 0
      BY DEF SameEntry, Noted, Pushed, Taken
    <3> QED BY <2>7, <2>8, <3>1, <3>2, <3>3
  <2> QED BY <2>2, <2>9 DEF Goal, a, e
<1> QED BY <1>1, <1>2, ConnMoves

\* What is true of a transport no frame has been written on stays true until one is.
LEMMA UnwrittenStep ==
  ASSUME DownLinkInv, ServeInv, GenInv, WireInv, AckInv, ConnInv, [Next]_vars, NEW s \in Sessions, Conn(s)',
         handed'[s] = {}
  PROVE  /\ \A x \in ToSet(link'[s]) : x[1] = 0
         /\ host'.rcv.acked <= proto'[reg'.epoch].down.acked
         /\ sess'[s].wpc # "none" => sess'[s].written <= proto'[reg'.epoch].down.acked
<1> DEFINE k == proto[reg.epoch].down.acked
           m == proto'[reg'.epoch].down.acked
           Zeros == \A x \in ToSet(link'[s]) : x[1] = 0
           Goal == Zeros /\ host'.rcv.acked <= m /\ (sess'[s].wpc # "none" => sess'[s].written <= m)
<1>0. /\ SessInv /\ RegInv /\ LinkInv /\ ProtoInv /\ host.rcv.acked \in Nat /\ link[s] \in Seq(Frames)
      /\ DOMAIN link = Sessions /\ sess[s].written \in Nat
  BY Bounds DEF DownLinkInv, LinkInv, SessInv, SessOK
<1>a. ToSet(<< >>) = {}
  BY DEF ToSet
<1>1. ASSUME Attach(s) PROVE Goal
  <2>1. /\ reg'.epoch = host.epoch /\ sess'[s].wpc = "none" /\ host'.rcv = host.rcv
    BY <1>0, <1>1, AttachMoves
  <2>2. m = host.rcv.acked
    BY <1>1, <2>1, AttachSpace
  <2>3. link'[s] = << >>
    BY <2>1, LinkMoves
  <2> HIDE DEF m
  <2> QED BY <1>0, <1>a, <2>1, <2>2, <2>3
<1>2. ASSUME Conn(s), Steady, Start(s) \/ WriterStep(s) \/ HostReceives(s) \/ Calm(s) PROVE Goal
  <2> DEFINE e == reg.epoch
  <2>1. /\ e \in Epochs /\ reg.epoch = host.epoch /\ host.link = s /\ sess[s].epoch = e /\ ~sess[s].stop
        /\ reg'.epoch = e
    BY <1>2, ConnFacts DEF Steady
  <2>2. k \in Nat /\ m \in Nat /\ m >= k
    <3>1. ProtoOK(proto[e]) /\ ProtoOK(proto'[e])
      BY <1>0, <2>1, ProtoStep DEF ProtoInv, DownLinkInv
    <3>2. proto[e].down.acked \in Nat /\ proto'[e].down.acked \in Nat
      BY <3>1, Bounds DEF ProtoOK
    <3>3. proto'[e].down.acked >= proto[e].down.acked
      BY <2>1, SpaceGoesOn DEF Grows
    <3> QED BY <2>1, <3>2, <3>3
  <2>3. handed[s] = {} => /\ \A x \in ToSet(link[s]) : x[1] = 0
                          /\ host.rcv.acked <= k
                          /\ sess[s].wpc # "none" => sess[s].written <= k
    BY <1>2 DEF ConnInv, Cur
  <2> HIDE DEF k, m
  <2>4. ASSUME link'[s] = link[s], handed'[s] = handed[s], host'.rcv = host.rcv,
               sess'[s].wpc # "none" => sess[s].wpc # "none" /\ sess'[s].written = sess[s].written
        PROVE  Goal
    BY <1>0, <2>2, <2>3, <2>4
  <2>5. ASSUME Start(s) PROVE Goal
    <3>1. sess[s].old # s
      BY SessionNumbers DEF ServeInv
    <3>2. /\ UNCHANGED << proto, host, handed >>
          /\ sess'[s].written = proto[sess[s].epoch].down.acked
          /\ link' = IF host.link = s THEN [link EXCEPT ![s] = << << 0, sess[s].aud >> >>] ELSE link
      BY <1>0, <2>5, <3>1, StartMoves DEF histVars
    <3>3. link'[s] = << << 0, sess[s].aud >> >>
      BY <1>0, <2>1, <3>2
    <3>4. Zeros
      BY <3>3 DEF ToSet
    <3>5. sess'[s].written = k /\ m = k
      BY <2>1, <3>2 DEF k, m
    <3> HIDE DEF Zeros
    <3> QED BY <1>0, <2>2, <2>3, <3>2, <3>4, <3>5
  <2>6. ASSUME WriterTop(s) \/ WriterWakes(s) \/ Replay(s) \/ Rewrite(s) PROVE Goal
    <3>1. UNCHANGED << link, host, handed >>
      BY <2>6 DEF WriterTop, WriterWakes, Replay, Rewrite, histVars
    <3>2. sess[s].wpc # "none" /\ sess'[s].written = sess[s].written
      BY <1>0, <2>6, WriterTopMoves, WriterWakesMoves, ReplayMoves, RewriteMoves
    <3> QED BY <2>4, <3>1, <3>2
  <2>7. ASSUME Write(s) PROVE FALSE
    <3>1. handed' = [handed EXCEPT ![s] = handed[s] \cup {Head(sess[s].batch)[1]}]
      BY <1>0, <2>1, <2>7, WriteMoves
    <3> QED BY <3>1 DEF DownLinkInv, WrittenInv
  <2>8. ASSUME Written(s) PROVE FALSE
    <3>1. UNCHANGED handed /\ sess[s].wpc = "note"
      BY <1>0, <2>8, WrittenMoves DEF histVars
    <3> QED BY <3>1 DEF DownLinkInv, WrittenInv
  <2>9. ASSUME HostReceives(s) PROVE Goal
    <3>1. UNCHANGED << reg, notifiers, proto, sess, pushes, acks, handed, doubled >>
      BY <2>9, ReceiveMoves
    <3>2. handed[s] = {} /\ \A x \in ToSet(link[s]) : x[1] = 0
      BY <2>3, <3>1
    <3>3. Head(link[s]) \in ToSet(link[s])
      BY <2>9, ReceiveMoves
    <3>4. Head(link[s])[1] = 0
      BY <3>2, <3>3
    <3>5. host'.rcv = host.rcv
      <4>1. \/ Head(link[s])[1] <= host.rcv.acked /\ host'.rcv = host.rcv
            \/ Head(link[s])[1] > host.rcv.acked + 1
            \/ Head(link[s])[1] = host.rcv.acked + 1
        BY <2>9, ReceiveMoves
      <4> QED BY <1>0, <3>4, <4>1
    <3>6. ToSet(link'[s]) \subseteq ToSet(link[s])
      <4>1. link' = [link EXCEPT ![s] = Tail(link[s])] /\ ToSet(link[s]) = {Head(link[s])} \cup ToSet(Tail(link[s]))
        BY <2>9, ReceiveMoves
      <4>2. link'[s] = Tail(link[s])
        BY <1>0, <4>1
      <4> QED BY <4>1, <4>2
    <3>7. Zeros
      BY <3>2, <3>6
    <3>8. m = k
      BY <2>1, <3>1 DEF m, k
    <3> HIDE DEF Zeros
    <3> QED BY <1>0, <2>2, <2>3, <3>1, <3>2, <3>5, <3>7, <3>8
  <2>10. ASSUME Calm(s) PROVE Goal
    BY <2>4, <2>10 DEF Calm
  <2> HIDE DEF Goal
  <2> QED BY <1>2, <2>5, <2>6, <2>7, <2>8, <2>9, <2>10 DEF WriterStep
<1> HIDE DEF Goal
<1>3. Goal
  BY <1>1, <1>2, ConnMoves
<1> QED BY <1>3 DEF Goal, Zeros, m

LEMMA ConnStep ==
  ASSUME DownLinkInv, ServeInv, GenInv, WireInv, AckInv, ConnInv, [Next]_vars
  PROVE  ConnInv'
<1>1. ASSUME NEW s \in Sessions, Conn(s)'
      PROVE  (/\ \A t \in Sessions : t # s /\ sess[t].epoch = reg.epoch => acks[t] <= Cur.down.acked
              /\ Cur.resend # 0 => sess[s].pc = "take"
              /\ handed[s] = {} => /\ \A x \in ToSet(link[s]) : x[1] = 0
                                   /\ host.rcv.acked <= Cur.down.acked
                                   /\ sess[s].wpc # "none" => sess[s].written <= Cur.down.acked)'
  <2>1. \A t \in Sessions : t # s /\ sess'[t].epoch = reg'.epoch => acks'[t] <= proto'[reg'.epoch].down.acked
    BY <1>1, OthersStep
  <2>2. proto'[reg'.epoch].resend # 0 => sess'[s].pc = "take"
    BY <1>1, ResendStep
  <2>3. handed'[s] = {} => /\ \A x \in ToSet(link'[s]) : x[1] = 0
                           /\ host'.rcv.acked <= proto'[reg'.epoch].down.acked
                           /\ sess'[s].wpc # "none" => sess'[s].written <= proto'[reg'.epoch].down.acked
    BY <1>1, UnwrittenStep
  <2> QED BY <2>1, <2>2, <2>3 DEF Cur
<1> QED BY <1>1 DEF ConnInv

\* A step keeps what the host has, and what it will take under the seq of the
\* audience entry.
Kept(s) ==
    /\ \A g \in Nat : Has(s, g) => Has(s, g)'
    /\ \A q, g \in Nat : q = Cur.seq /\ q # 0 /\ g <= Cur.gen /\ Sent(s, q, g) => Sent(s, q, g)'

LEMMA StillSent ==
  ASSUME NEW s \in Sessions, host.gen \in Nat, host'.gen \in Nat, host'.gen >= host.gen, host'.rcv = host.rcv,
         OnWay(s) \subseteq OnWay(s)', Fresh(s) => Fresh(s)'
  PROVE  Kept(s)
<1>1. ASSUME NEW g \in Nat, Has(s, g) PROVE Has(s, g)'
  BY <1>1 DEF Has
<1>2. ASSUME NEW q \in Nat, NEW g \in Nat, Sent(s, q, g) PROVE Sent(s, q, g)'
  <2>1. CASE Has(s, g)
    BY <1>1, <2>1 DEF Sent
  <2>2. CASE \E x \in OnWay(s) : x[1] = q /\ x[2] >= g
    BY <2>2 DEF Sent
  <2>3. CASE q \in DOMAIN host.rcv.buf /\ host.rcv.buf[q] >= g
    BY <2>3 DEF Sent
  <2>4. CASE Fresh(s)
    BY <2>4 DEF Sent
  <2> QED BY <1>2, <2>1, <2>2, <2>3, <2>4 DEF Sent
<1> QED BY <1>1, <1>2 DEF Kept

\* Fresh is lost when the writer takes the log, and the entry with it.
LEMMA TopKept ==
  ASSUME DownLinkInv, ServeInv, GenInv, WireInv, ConnInv, NEW s \in Sessions, Conn(s), WriterTop(s)
  PROVE  Kept(s)
<1> DEFINE p == Cur
           q == p.seq
           new == EntriesAfter(p, sess[s].written)
           y == << q, p.gen >>
<1>0. /\ SessInv /\ ~sess[s].stop /\ sess[s].epoch = reg.epoch /\ ProtoOK(p) /\ sess[s].written \in Nat
  BY ConnFacts DEF DownLinkInv, SessInv, SessOK
<1>1. /\ UNCHANGED << reg, notifiers, proto, pushes, link, acks, host, histVars >>
      /\ SameButWriter(s) /\ sess[s].wpc = "top"
      /\ \/ sess'[s].wpc = "write" /\ sess'[s].batch = new
         \/ new = << >>
  BY <1>0, WriterTopMoves DEF Cur
<1> HIDE DEF p
<1>2. sess[s].pc # "hello" /\ OnWay(s) = ToSet(link[s])
  BY <1>1 DEF ServeInv, OnWay, Rest
<1>3. OnWay(s) \subseteq OnWay(s)'
  BY <1>1, <1>2 DEF OnWay
<1>4. host.gen \in Nat
  BY DEF WireInv
<1>5. ASSUME NEW g \in Nat, Has(s, g) PROVE Has(s, g)'
  BY <1>1, <1>3, <1>5 DEF Has
<1>6. ASSUME Fresh(s), q # 0 PROVE y \in OnWay(s)' /\ y[1] = q /\ y[2] = p.gen
  <2>1. sess[s].written <= p.down.acked
    BY <1>1, <1>6 DEF ConnInv, Fresh, p
  <2>2. q \in DOMAIN p.down.log /\ p.down.log[q] = p.gen /\ q \in Nat /\ p.down.acked \in Nat /\ q > p.down.acked
    BY <1>0, <1>6, Bounds DEF ProtoOK
  <2>3. q > sess[s].written
    BY <1>0, <2>1, <2>2
  <2>4. y \in ToSet(new)
    BY <1>0, <2>2, <2>3, EntriesAreLogged
  <2>5. new # << >>
    BY <2>4 DEF ToSet
  <2>6. sess'[s].wpc = "write" /\ sess'[s].batch = new
    BY <1>1, <2>5
  <2> HIDE DEF new, y
  <2>7. y \in Rest(s)'
    BY <2>4, <2>6 DEF Rest
  <2> QED BY <2>7 DEF OnWay, y
<1>7. ASSUME NEW r \in Nat, NEW g \in Nat, r = q, r # 0, g <= p.gen, Sent(s, r, g) PROVE Sent(s, r, g)'
  <2>1. CASE Has(s, g)
    BY <1>5, <2>1 DEF Sent
  <2>2. CASE \E x \in OnWay(s) : x[1] = r /\ x[2] >= g
    BY <1>3, <2>2 DEF Sent
  <2>3. CASE r \in DOMAIN host.rcv.buf /\ host.rcv.buf[r] >= g
    BY <1>1, <2>3 DEF Sent
  <2>4. CASE Fresh(s)
    <3>1. y \in OnWay(s)' /\ y[1] = r /\ y[2] = p.gen /\ p.gen \in Nat
      BY <1>0, <1>6, <1>7, <2>4 DEF ProtoOK
    <3>2. y[2] >= g
      BY <1>7, <3>1
    <3> QED BY <3>1, <3>2 DEF Sent
  <2> QED BY <1>7, <2>1, <2>2, <2>3, <2>4 DEF Sent
<1> QED BY <1>5, <1>7 DEF Kept, p

\* What the host takes from its transport it applies, has parked, or had.
LEMMA ReceiveKept ==
  ASSUME DownLinkInv, ServeInv, WireInv, NEW s \in Sessions, Conn(s), HostReceives(s), ~missed'
  PROVE  Kept(s)
<1> DEFINE f == Head(link[s])
           A == host.rcv.acked
           B == host'.rcv.acked
           buf == host.rcv.buf
           new == host'.rcv.buf
<1>1. /\ UNCHANGED << reg, notifiers, proto, sess, pushes, acks, handed, doubled >>
      /\ f[1] \in Nat /\ f[2] \in Nat
      /\ link' = [link EXCEPT ![s] = Tail(link[s])] /\ ToSet(link[s]) = {f} \cup ToSet(Tail(link[s]))
      /\ host'.gen \in Nat /\ host'.gen >= host.gen
      /\ A \in Nat /\ B \in Nat /\ B >= A
      /\ \/ f[1] <= A /\ host'.rcv = host.rcv /\ host'.gen >= f[2]
         \/ f[1] > A + 1 /\ f[1] \in DOMAIN buf /\ host'.rcv = host.rcv /\ f[2] <= buf[f[1]]
         \/ /\ f[1] > A + 1 /\ f[1] \notin DOMAIN buf /\ B = A
            /\ DOMAIN new = DOMAIN buf \cup {f[1]} /\ new[f[1]] = f[2] /\ \A q \in DOMAIN buf : new[q] = buf[q]
         \/ /\ f[1] = A + 1 /\ B >= f[1]
            /\ host'.gen >= f[2] /\ \A q \in DOMAIN buf : q <= B => host'.gen >= buf[q]
            /\ DOMAIN new = {d \in DOMAIN buf : d > B} /\ \A q \in DOMAIN new : B + 1 < q /\ new[q] = buf[q]
  BY ReceiveMoves
<1>2. /\ link[s] \in Seq(Frames) /\ DOMAIN link = Sessions
      /\ \A q \in DOMAIN buf : q \in Nat /\ buf[q] \in Nat
      /\ host.gen \in Nat
  BY Bounds DEF DownLinkInv, LinkInv, WireInv
<1>3. OnWay(s) = {f} \cup OnWay(s)'
  <2>1. link'[s] = Tail(link[s])
    BY <1>1, <1>2
  <2>2. Rest(s)' = Rest(s)
    BY <1>1 DEF Rest
  <2> HIDE DEF f
  <2> QED BY <1>1, <2>1, <2>2 DEF OnWay
<1>4. Fresh(s) => Fresh(s)'
  BY <1>1 DEF Fresh
<1>a. \A x \in OnWay(s)' : x[1] \in Nat /\ x[2] \in Nat
  <2>1. sess[s].aud \in Nat /\ sess[s].batch \in Seq(Frames) /\ (sess[s].wpc = "note" => sess[s].batch # << >>)
    BY DEF DownLinkInv, SessInv, SessOK
  <2>2. \A x \in Frames : x[1] \in Nat /\ x[2] \in Nat
    BY Bounds DEF Frames
  <2>3. Rest(s) \subseteq Frames
    <3>1. ToSet(sess[s].batch) \subseteq Frames /\ (sess[s].batch # << >> => ToSet(Tail(sess[s].batch)) \subseteq Frames)
      BY <2>1, SetOfSeq
    <3> QED BY <2>1, <3>1 DEF Rest
  <2>4. ToSet(link[s]) \subseteq Frames
    BY <1>2, SetOfSeq
  <2>5. \A x \in OnWay(s) : x[1] \in Nat /\ x[2] \in Nat
    <3> SUFFICES ASSUME NEW x \in OnWay(s) PROVE x[1] \in Nat /\ x[2] \in Nat
      OBVIOUS
    <3>1. x \in ToSet(link[s]) \/ x \in Rest(s) \/ x = << 0, sess[s].aud >>
      BY DEF OnWay
    <3> QED BY <2>1, <2>2, <2>3, <2>4, <3>1
  <2> QED BY <1>3, <2>5
<1> HIDE DEF f, A, B, buf, new
<1>b. host.rcv.acked = A /\ host'.rcv.acked = B /\ host.rcv.buf = buf /\ host'.rcv.buf = new
  BY DEF A, B, buf, new
<1>5. ASSUME NEW g \in Nat, Has(s, g) PROVE Has(s, g)'
  <2>1. CASE host.gen >= g
    BY <1>1, <1>2, <2>1 DEF Has
  <2>2. CASE f[2] >= g /\ f[1] <= A
    <3>1. host'.gen >= g
      BY <1>1, <2>2
    <3> QED BY <3>1 DEF Has
  <2>3. ASSUME NEW x \in OnWay(s)', x[2] >= g, x[1] <= A PROVE Has(s, g)'
    <3>1. x[1] <= B
      BY <1>1, <1>a, <2>3
    <3> QED BY <1>b, <2>3, <3>1 DEF Has
  <2>4. host.gen >= g \/ \E x \in OnWay(s) : x[2] >= g /\ x[1] <= A
    BY <1>5, <1>b DEF Has
  <2> QED BY <1>3, <2>1, <2>2, <2>3, <2>4
<1>6. ASSUME NEW q \in Nat, NEW g \in Nat, Sent(s, q, g) PROVE Sent(s, q, g)'
  <2>1. CASE Has(s, g)
    BY <1>5, <2>1 DEF Sent
  <2>2. CASE f[1] = q /\ f[2] >= g
    <3>1. host'.gen >= g \/ (q \in DOMAIN new /\ new[q] >= g)
      <4>1. CASE host'.gen >= f[2]
        BY <1>1, <2>2, <4>1
      <4>2. CASE f[1] \in DOMAIN buf /\ host'.rcv = host.rcv /\ f[2] <= buf[f[1]]
        BY <1>1, <1>2, <1>b, <2>2, <4>2
      <4>3. CASE DOMAIN new = DOMAIN buf \cup {f[1]} /\ new[f[1]] = f[2]
        BY <2>2, <4>3
      <4> QED BY <1>1, <4>1, <4>2, <4>3
    <3> QED BY <1>b, <3>1 DEF Sent, Has
  <2>3. ASSUME NEW x \in OnWay(s)', x[1] = q, x[2] >= g PROVE Sent(s, q, g)'
    BY <2>3 DEF Sent
  <2>4. CASE q \in DOMAIN buf /\ buf[q] >= g
    <3>1. host'.gen >= g \/ (q \in DOMAIN new /\ new[q] >= g)
      <4>1. CASE host'.rcv = host.rcv
        BY <1>b, <2>4, <4>1
      <4>2. CASE DOMAIN new = DOMAIN buf \cup {f[1]} /\ \A r \in DOMAIN buf : new[r] = buf[r]
        BY <2>4, <4>2
      <4>3. CASE /\ \A r \in DOMAIN buf : r <= B => host'.gen >= buf[r]
                 /\ DOMAIN new = {d \in DOMAIN buf : d > B} /\ \A r \in DOMAIN new : new[r] = buf[r]
        BY <1>1, <1>2, <2>4, <4>3
      <4> QED BY <1>1, <4>1, <4>2, <4>3
    <3> QED BY <1>b, <3>1 DEF Sent, Has
  <2>5. CASE Fresh(s)
    BY <1>4, <2>5 DEF Sent
  <2>6. \/ Has(s, g)
        \/ \E x \in OnWay(s) : x[1] = q /\ x[2] >= g
        \/ q \in DOMAIN buf /\ buf[q] >= g
        \/ Fresh(s)
    BY <1>6, <1>b DEF Sent
  <2> QED BY <1>3, <2>1, <2>2, <2>3, <2>4, <2>5, <2>6
<1> QED BY <1>5, <1>6 DEF Kept

LEMMA KeptStep ==
  ASSUME DownLinkInv, ServeInv, GenInv, WireInv, AckInv, ConnInv, NEW s \in Sessions, Conn(s), ~missed',
         Start(s) \/ WriterStep(s) \/ HostReceives(s) \/ Calm(s)
  PROVE  Kept(s)
<1>0. /\ SessInv /\ RegInv /\ LinkInv /\ SessOK(sess[s]) /\ link[s] \in Seq(Frames) /\ DOMAIN link = Sessions
      /\ ~sess[s].stop /\ host.link = s /\ host.gen \in Nat
      /\ sess[s].wpc = "none" <=> sess[s].pc \in {"new", "hello"}
  BY ConnFacts DEF DownLinkInv, SessInv, LinkInv, WireInv, ServeInv
<1>a. ToSet(<< >>) = {}
  BY DEF ToSet
<1>1. CASE Start(s)
  <2>1. sess[s].old # s
    BY SessionNumbers DEF ServeInv
  <2>2. /\ UNCHANGED << host, handed >> /\ sess[s].pc = "hello" /\ sess'[s].pc = "idle" /\ sess'[s].wpc = "top"
        /\ link' = IF host.link = s THEN [link EXCEPT ![s] = << << 0, sess[s].aud >> >>] ELSE link
    BY <1>0, <1>1, <2>1, StartMoves DEF histVars
  <2>3. link'[s] = << << 0, sess[s].aud >> >>
    BY <1>0, <2>2
  <2>4. sess[s].wpc = "none" /\ link[s] = << >> /\ handed[s] = {}
    BY <1>0, <2>2 DEF WireInv
  <2>5. OnWay(s) = {<< 0, sess[s].aud >>}
    BY <1>a, <2>2, <2>4 DEF OnWay, Rest
  <2>6. ToSet(link'[s]) = {<< 0, sess[s].aud >>}
    BY <2>3 DEF ToSet
  <2>7. OnWay(s) \subseteq OnWay(s)'
    BY <2>5, <2>6 DEF OnWay
  <2>8. Fresh(s)'
    BY <2>2, <2>4 DEF Fresh
  <2> QED BY <1>0, <2>2, <2>7, <2>8, StillSent
<1>2. CASE WriterTop(s)
  BY <1>2, TopKept
<1>3. CASE WriterWakes(s) \/ Replay(s) \/ Rewrite(s)
  <2>1. UNCHANGED << link, host >>
    BY <1>3 DEF WriterWakes, Replay, Rewrite
  <2>2. sess[s].wpc = "select"
    BY <1>3 DEF WriterWakes, Replay, Rewrite
  <2>3. OnWay(s) = ToSet(link[s]) /\ ~Fresh(s)
    BY <1>0, <2>2 DEF OnWay, Rest, Fresh
  <2>4. OnWay(s) \subseteq OnWay(s)'
    BY <2>1, <2>3 DEF OnWay
  <2> QED BY <1>0, <2>1, <2>3, <2>4, StillSent
<1>4. CASE Write(s)
  <2> DEFINE h == Head(sess[s].batch)
             tl == Tail(sess[s].batch)
  <2>1. /\ UNCHANGED host /\ SameButWriter(s) /\ sess[s].wpc = "write"
        /\ sess'[s].wpc = "note" /\ sess'[s].batch = sess[s].batch
        /\ link' = [link EXCEPT ![s] = Append(link[s], h)]
    BY <1>0, <1>4, WriteMoves
  <2>2. ToSet(sess[s].batch) = {h} \cup ToSet(tl) /\ h \in Frames
    BY <1>0, <2>1, SetOfSeq DEF SessOK
  <2>3. OnWay(s) = ToSet(link[s]) \cup ({h} \cup ToSet(tl)) /\ ~Fresh(s)
    BY <1>0, <2>1, <2>2 DEF OnWay, Rest, Fresh
  <2>4. Rest(s)' = ToSet(tl)
    BY <2>1 DEF Rest
  <2> HIDE DEF h, tl
  <2>5. ToSet(link'[s]) = ToSet(link[s]) \cup {h}
    <3>1. link'[s] = Append(link[s], h)
      BY <1>0, <2>1
    <3> QED BY <1>0, <2>2, <3>1, SetOfSeq
  <2>6. OnWay(s) \subseteq OnWay(s)'
    BY <2>3, <2>4, <2>5 DEF OnWay
  <2> QED BY <1>0, <2>1, <2>3, <2>6, StillSent
<1>5. CASE Written(s)
  <2> DEFINE tl == Tail(sess[s].batch)
  <2>1. /\ UNCHANGED << link, host >> /\ sess[s].wpc = "note" /\ sess'[s].batch = tl
        /\ sess'[s].wpc = IF tl = << >> THEN "top" ELSE "write"
    BY <1>0, <1>5, WrittenMoves
  <2>2. OnWay(s) = ToSet(link[s]) \cup ToSet(tl) /\ ~Fresh(s)
    BY <1>0, <2>1 DEF OnWay, Rest, Fresh
  <2> HIDE DEF tl
  <2>3. ToSet(tl) = Rest(s)'
    BY <1>a, <2>1 DEF Rest
  <2>4. OnWay(s) \subseteq OnWay(s)'
    BY <2>1, <2>2, <2>3 DEF OnWay
  <2> QED BY <1>0, <2>1, <2>2, <2>4, StillSent
<1>6. CASE HostReceives(s)
  BY <1>6, ReceiveKept
<1>7. CASE Calm(s)
  <2>1. Rest(s)' = Rest(s)
    BY <1>7 DEF Calm, Rest
  <2>2. OnWay(s) \subseteq OnWay(s)'
    BY <1>7, <2>1 DEF Calm, OnWay
  <2>3. Fresh(s) => Fresh(s)'
    BY <1>7 DEF Calm, Fresh
  <2>4. host'.gen = host.gen /\ host'.rcv = host.rcv
    BY <1>7 DEF Calm
  <2> QED BY <1>0, <2>2, <2>3, <2>4, StillSent
<1> QED BY <1>1, <1>2, <1>3, <1>4, <1>5, <1>6, <1>7 DEF WriterStep

\* While the host is on the registered transport: what counts as written, or is
\* about to, the host has or will take.
LEMMA SentStep ==
  ASSUME DownLinkInv, ServeInv, GenInv, WireInv, AckInv, ConnInv, [Next]_vars,
         NEW s \in Sessions, Conn(s), Steady, SentInv(s), Kept(s), ~doubled'
  PROVE  SentInv(s)'
<1> DEFINE e == reg.epoch
           p == proto[e]
           a == proto'[e]
           N(t) == sess[t].epoch = e /\ sess[t].wpc = "note" /\ Head(sess[t].batch)[1] = p.seq
<1>0. /\ SessInv /\ RegInv /\ LinkInv /\ ProtoInv /\ e \in Epochs /\ ProtoOK(p) /\ host.link = s
      /\ reg.epoch = host.epoch /\ sess[s].epoch = e /\ reg.session = s
  BY ConnFacts DEF DownLinkInv, Cur
<1>1. reg'.epoch = e
  BY DEF Steady
<1>2. /\ p.seq # 0 => Sent(s, p.seq, p.sentGen)
      /\ p.seq # 0 => \A t \in Sessions : N(t) => Sent(s, p.seq, Head(sess[t].batch)[2])
  BY DEF SentInv, Cur
<1>3. /\ \A g \in Nat : Has(s, g) => Has(s, g)'
      /\ \A q, g \in Nat : q = p.seq /\ q # 0 /\ g <= p.gen /\ Sent(s, q, g) => Sent(s, q, g)'
  BY DEF Kept, Cur
<1>4. ~ \E t \in Sessions : Attach(t)
  BY <1>0, SessionNumbers DEF Attach, None
<1>5. Grows(p, a)
  BY <1>0, SpaceGoesOn
<1>6. ASSUME NEW t \in Sessions, sess[t].epoch = e, sess[t].wpc \in {"write", "note"}
      PROVE  LET h == Head(sess[t].batch)
             IN  h[1] \in Nat /\ h[2] \in Nat /\ h[1] <= p.down.next /\ (h[1] = p.seq => h[2] <= p.gen) /\ h \in ToSet(sess[t].batch)
  <2> DEFINE h == Head(sess[t].batch)
  <2>1. h \in ToSet(sess[t].batch) /\ h \in Frames
    BY <1>0, <1>6, SetOfSeq DEF SessInv, SessOK
  <2>2. HeldOK(t, h)
    BY <2>1 DEF GenInv
  <2> HIDE DEF h
  <2>3. h[1] \in Nat /\ h[2] \in Nat
    BY <2>1, Bounds DEF Frames
  <2>4. h[1] <= p.down.next /\ (h[1] = p.seq => h[2] <= p.gen)
    BY <1>0, <1>6, <2>2, <2>3, Bounds DEF HeldOK, ProtoOK
  <2> QED BY <2>1, <2>3, <2>4 DEF h
<1>a. /\ p.seq \in Nat /\ p.sentGen \in Nat /\ p.gen \in Nat /\ p.down.next \in Nat /\ ProtoGen(p, reg.gen)
  BY <1>0, Bounds DEF ProtoOK, GenInv
<1> HIDE DEF p, a, N
<1>b. \A t \in Sessions : N(t) <=> sess[t].epoch = e /\ sess[t].wpc = "note" /\ Head(sess[t].batch)[1] = p.seq
  BY DEF N
<1>7. a.seq # 0 => a.seq = p.seq \/ (a.seq = p.down.next + 1 /\ p.seq = 0)
  <2>1. \/ SameEntry(p, a)
        \/ \E t \in Sessions : /\ sess[t].epoch = e /\ sess[t].wpc = "note" /\ Head(sess[t].batch)[1] = p.seq
                               /\ Written(t) /\ Noted(p, a, Head(sess[t].batch)[2])
        \/ \E c \in pushes : sess[c.sess].epoch = e /\ Push(c) /\ Pushed(p, a, c.gen)
        \/ \E t \in Sessions : /\ sess[t].epoch = e /\ HandleAck(t) /\ Covered(p, a)
                               /\ a.down.acked = p.down.acked \/ a.down.acked <= acks[t]
        \/ \E t \in Sessions : sess[t].epoch = e /\ TakeResend(t) /\ Taken(p, a)
        \/ \E t \in Sessions : Attach(t) /\ e = host.epoch
    BY <1>0, EntryMoves DEF p, a
  <2> QED BY <1>4, <2>1 DEF SameEntry, Noted, Pushed, Covered, Taken
<1>8. ASSUME a.seq # 0, NEW q \in Nat, NEW g \in Nat, q = a.seq, g = a.sentGen PROVE Sent(s, q, g)'
  <2>1. CASE a.seq = p.seq /\ a.sentGen = p.sentGen
    <3>1. Sent(s, q, g) /\ g <= p.gen
      BY <1>2, <1>8, <1>a, <2>1 DEF ProtoGen
    <3> QED BY <1>3, <1>8, <2>1, <3>1
  <2>2. ASSUME NEW t \in Sessions, N(t), Noted(p, a, Head(sess[t].batch)[2]) PROVE Sent(s, q, g)'
    <3>1. q = p.seq /\ g = Head(sess[t].batch)[2]
      BY <1>8, <2>2 DEF Noted
    <3>2. Sent(s, q, g)
      BY <1>2, <1>8, <2>2, <3>1
    <3>3. g <= p.gen
      BY <1>6, <1>b, <2>2, <3>1
    <3> QED BY <1>3, <1>8, <3>1, <3>2, <3>3
  <2>3. CASE a.sentGen = 0
    <3>1. host'.gen \in Nat
      BY WireStep DEF WireInv
    <3>2. host'.gen >= g
      BY <1>8, <2>3, <3>1
    <3> QED BY <3>2 DEF Sent, Has
  <2>4. \/ SameEntry(p, a)
        \/ \E t \in Sessions : /\ sess[t].epoch = e /\ sess[t].wpc = "note" /\ Head(sess[t].batch)[1] = p.seq
                               /\ Written(t) /\ Noted(p, a, Head(sess[t].batch)[2])
        \/ \E c \in pushes : sess[c.sess].epoch = e /\ Push(c) /\ Pushed(p, a, c.gen)
        \/ \E t \in Sessions : /\ sess[t].epoch = e /\ HandleAck(t) /\ Covered(p, a)
                               /\ a.down.acked = p.down.acked \/ a.down.acked <= acks[t]
        \/ \E t \in Sessions : sess[t].epoch = e /\ TakeResend(t) /\ Taken(p, a)
        \/ \E t \in Sessions : Attach(t) /\ e = host.epoch
    BY <1>0, EntryMoves DEF p, a
  <2>5. \/ a.seq = p.seq /\ a.sentGen = p.sentGen
        \/ a.sentGen = 0
        \/ \E t \in Sessions : N(t) /\ Noted(p, a, Head(sess[t].batch)[2])
    BY <1>4, <1>8, <1>b, <2>4 DEF SameEntry, Pushed, Covered, Taken
  <2> QED BY <2>1, <2>2, <2>3, <2>5
<1>9. ASSUME NEW t \in Sessions, a.seq # 0, sess'[t].epoch = e, sess'[t].wpc = "note",
             Head(sess'[t].batch)[1] = a.seq,
             NEW q \in Nat, NEW g \in Nat, q = a.seq, g = Head(sess'[t].batch)[2]
      PROVE  Sent(s, q, g)'
  <2> DEFINE h == Head(sess[t].batch)
  <2>1. /\ sess'[t].batch = sess[t].batch
        /\ sess[t].wpc = "note" \/ (Write(t) /\ sess[t].wpc = "write")
    BY <1>9, NoteMoves
  <2>2. sess[t].epoch = e
    <3>1. sess[t].pc # "new"
      BY <2>1 DEF ServeInv
    <3> QED BY <1>0, <1>9, <3>1, AttachedStay
  <2>3. h[1] \in Nat /\ h[2] \in Nat /\ h[1] <= p.down.next /\ (h[1] = p.seq => h[2] <= p.gen) /\ h \in ToSet(sess[t].batch)
    BY <1>6, <2>1, <2>2
  <2>4. h[1] = q /\ h[2] = g
    BY <1>9, <2>1
  <2>5. q = p.seq /\ p.seq # 0
    BY <1>7, <1>9, <1>a, <2>3, <2>4
  <2>7. CASE sess[t].wpc = "note"
    <3>1. N(t)
      BY <1>b, <2>2, <2>4, <2>5, <2>7
    <3>2. Sent(s, q, g)
      BY <1>2, <2>4, <2>5, <3>1
    <3> HIDE DEF h
    <3> QED BY <1>3, <1>9, <2>3, <2>4, <2>5, <3>2
  <2>8. CASE Write(t) /\ sess[t].wpc = "write"
    <3>1. /\ UNCHANGED host /\ SameButWriter(t)
          /\ link' = IF host.link = t THEN [link EXCEPT ![t] = Append(link[t], h)] ELSE link
          /\ handed' = [handed EXCEPT ![t] = handed[t] \cup {h[1]}]
          /\ doubled' = (doubled \/ Outlived(t))
      BY <1>0, <1>9, <2>8, WriteMoves
    <3>2. CASE t = s
      <4>1. link'[s] = Append(link[s], h)
        BY <1>0, <3>1, <3>2 DEF LinkInv
      <4>2. link[s] \in Seq(Frames) /\ h \in Frames
        <5>1. sess[t].batch \in Seq(Frames) /\ sess[t].batch # << >>
          BY <1>0, <2>8 DEF SessInv, SessOK
        <5> QED BY <1>0, <5>1, SetOfSeq DEF LinkInv
      <4> HIDE DEF h
      <4>3. h \in ToSet(link'[s])
        BY <4>1, <4>2, SetOfSeq
      <4>4. h \in OnWay(s)'
        BY <4>3 DEF OnWay
      <4>5. h[1] = q /\ h[2] >= g
        BY <1>9, <2>4
      <4> QED BY <4>4, <4>5 DEF Sent
    <3>3. CASE t # s
      <4>1. t < s
        <5>1. sess[t].pc # "new"
          BY <2>8 DEF ServeInv
        <5>2. ~(t > s)
          BY <5>1, ConnFacts
        <5> QED BY <3>3, <5>2, SessionNumbers
      <4>2. ~Outlived(t)
        BY <3>1, Zenon
      <4>3. sess[s].wpc = "none"
        BY <1>0, <2>2, <4>1, <4>2, SessionNumbers DEF Outlived
      <4>4. sess[s].pc = "hello" /\ handed[s] = {}
        BY <4>3, ConnFacts DEF ServeInv, WireInv
      <4>5. sess'[s].pc = "hello" /\ handed'[s] = {}
        <5> HIDE DEF h
        <5> QED BY <3>1, <3>3, <4>4 DEF SameButWriter, DownLinkInv, WrittenInv
      <4>6. Fresh(s)'
        BY <4>5 DEF Fresh
      <4> QED BY <4>6 DEF Sent
    <3> QED BY <3>2, <3>3
  <2> QED BY <2>1, <2>7, <2>8
<1>10. Cur' = a
  BY <1>1 DEF Cur, a
<1>11. a.seq \in Nat /\ a.sentGen \in Nat
  BY <1>0, ProtoStep, Bounds DEF DownLinkInv, ProtoInv, ProtoOK, a
<1>12. (Cur.seq # 0 => Sent(s, Cur.seq, Cur.sentGen))'
  <2>1. ASSUME a.seq # 0 PROVE (Sent(s, Cur.seq, Cur.sentGen))'
    <3>1. \E q, g \in Nat : q = a.seq /\ g = a.sentGen /\ Sent(s, q, g)'
      BY <1>8, <1>11, <2>1
    <3> QED BY <1>10, <3>1 DEF Sent, Has
  <2> QED BY <1>10, <2>1
<1>13. ASSUME NEW t \in Sessions, a.seq # 0,
              (sess[t].epoch = reg.epoch /\ sess[t].wpc = "note" /\ Head(sess[t].batch)[1] = Cur.seq)'
       PROVE  (Sent(s, Cur.seq, Head(sess[t].batch)[2]))'
  <2>1. Head(sess'[t].batch)[2] \in Nat
    <3>1. SessOK(sess[t])' /\ (sess[t].batch # << >>)'
      BY <1>0, <1>13, SessStep DEF DownLinkInv, SessInv, SessOK
    <3>2. (Head(sess[t].batch) \in Frames)'
      BY <3>1, SetOfSeq DEF SessOK
    <3> QED BY <3>2, Bounds DEF Frames
  <2>2. \E q, g \in Nat : q = a.seq /\ g = Head(sess'[t].batch)[2] /\ Sent(s, q, g)'
    BY <1>1, <1>9, <1>10, <1>11, <1>13, <2>1
  <2> QED BY <1>10, <2>2 DEF Sent, Has
<1> QED BY <1>10, <1>12, <1>13 DEF SentInv

\* A push goes on until it is made, and asks for a rewrite only after that.
LEMMA PushMoves ==
  ASSUME DownLinkInv, ServeInv, [Next]_vars, NEW c \in pushes, c.seq = 0
  PROVE  c \in pushes' \/ Push(c)
<1>0. SessInv /\ RegInv /\ LinkInv
  BY DEF DownLinkInv
<1>1. ASSUME NEW d \in pushes, Push(d) PROVE c \in pushes' \/ Push(c)
  BY <1>1 DEF Push
<1>2. ASSUME NEW d \in pushes, AskRewrite(d) PROVE c \in pushes'
  BY <1>2 DEF AskRewrite
<1>3. ASSUME Notify PROVE c \in pushes'
  BY <1>3 DEF Notify
<1>4. ASSUME NEW s \in Sessions, TakeResend(s) PROVE c \in pushes'
  BY <1>4 DEF TakeResend
<1>5. ASSUME UNCHANGED pushes PROVE c \in pushes'
  BY <1>5
<1>6. ASSUME NEW s \in Sessions, WriterStep(s) PROVE UNCHANGED pushes
  BY <1>6 DEF WriterStep, WriterTop, WriterWakes, Replay, Rewrite, Write, Written
<1>7. ASSUME NEW s \in Sessions,
             Attach(s) \/ Start(s) \/ HandleAck(s) \/ Close(s) \/ Detach(s) \/ SendRequest(s)
                 \/ HostReceives(s) \/ HostAcks(s)
      PROVE  UNCHANGED pushes
  BY <1>7 DEF Attach, Start, HandleAck, Close, Detach, SendRequest, HostReceives, HostAcks
<1>8. ASSUME NEW s \in Sessions, NEW q \in 1 .. MaxSeq, ExpireRequest(s, q) PROVE UNCHANGED pushes
  BY <1>8 DEF ExpireRequest
<1>9. ASSUME ViewChange \/ HostLeaves \/ HostRestarts \/ UNCHANGED vars PROVE UNCHANGED pushes
  BY <1>9 DEF ViewChange, HostLeaves, HostRestarts, vars
<1> QED BY <1>1, <1>2, <1>3, <1>4, <1>5, <1>6, <1>7, <1>8, <1>9 DEF Next, LoopStep

\* A generation is minted by an attach or a notification.
LEMMA GenerationMoves ==
  ASSUME DownLinkInv, [Next]_vars
  PROVE  reg'.gen = reg.gen \/ Notify \/ \E s \in Sessions : Attach(s)
<1>0. DOMAIN reg = {"session", "epoch", "gen", "stale"}
  BY DEF DownLinkInv, RegInv
<1>1. ASSUME ViewChange PROVE reg'.gen = reg.gen
  BY <1>0, <1>1 DEF ViewChange
<1>2. ASSUME NEW s \in Sessions, Detach(s) PROVE reg'.gen = reg.gen
  BY <1>0, <1>2 DEF Detach
<1>3. ASSUME NEW s \in Sessions, WriterStep(s) PROVE UNCHANGED reg
  BY <1>3 DEF WriterStep, WriterTop, WriterWakes, Replay, Rewrite, Write, Written
<1>4. ASSUME NEW s \in Sessions,
             Start(s) \/ HandleAck(s) \/ TakeResend(s) \/ Close(s) \/ SendRequest(s) \/ HostReceives(s) \/ HostAcks(s)
      PROVE  UNCHANGED reg
  BY <1>4 DEF Start, HandleAck, TakeResend, Close, SendRequest, HostReceives, HostAcks
<1>5. ASSUME NEW s \in Sessions, NEW q \in 1 .. MaxSeq, ExpireRequest(s, q) PROVE UNCHANGED reg
  BY <1>5 DEF ExpireRequest
<1>6. ASSUME NEW c \in pushes, Push(c) \/ AskRewrite(c) PROVE UNCHANGED reg
  BY <1>6 DEF Push, AskRewrite
<1>7. ASSUME HostLeaves \/ HostRestarts \/ UNCHANGED vars PROVE UNCHANGED reg
  BY <1>7 DEF HostLeaves, HostRestarts, vars
<1> QED BY <1>1, <1>2, <1>3, <1>4, <1>5, <1>6, <1>7 DEF Next, LoopStep

\* What the loop acknowledges the host has delivered: a frame that was written
\* under the acked seq with the newest generation is with the host.
LEMMA CoveredHas ==
  ASSUME DownLinkInv, ServeInv, WireInv, AckInv, ConnInv, NEW s \in Sessions, Conn(s),
         NEW t \in Sessions, sess[t].epoch = reg.epoch, sess[t].pc # "new",
         NEW q \in Nat, q > Cur.down.acked, q <= acks[t], NEW g \in Nat, Sent(s, q, g)
  PROVE  Has(s, g)
<1>0. /\ reg.epoch = host.epoch /\ sess[s].epoch = reg.epoch /\ Cur.down.acked \in Nat
      /\ acks[t] \in Nat /\ host.rcv.acked \in Nat
  BY ConnFacts, Bounds DEF DownLinkInv, LinkInv, ProtoOK
<1>1. t = s
  BY <1>0 DEF ConnInv
<1>2. acks[s] <= host.rcv.acked
  BY <1>0, <1>1 DEF AckInv
<1>3. q <= host.rcv.acked
  BY <1>0, <1>1, <1>2
<1>4. ASSUME NEW x \in OnWay(s), x[1] = q, x[2] >= g PROVE Has(s, g)
  BY <1>3, <1>4 DEF Has
<1>5. q \notin DOMAIN host.rcv.buf
  BY <1>0, <1>3 DEF WireInv
<1>6. ~Fresh(s)
  BY <1>0, <1>3 DEF ConnInv, Fresh
<1> QED BY <1>4, <1>5, <1>6 DEF Sent

\* A push that will not be dropped stays under way or is logged.
LEMMA ComingMoves ==
  ASSUME DownLinkInv, ServeInv, GenInv, [Next]_vars, NEW s \in Sessions, Conn(s), Steady,
         NEW g \in Nat, g = reg.gen, Coming(s, g)
  PROVE  Coming(s, g)' \/ (proto'[reg.epoch].latest = g /\ proto'[reg.epoch].seq # 0)
<1> DEFINE e == reg.epoch
           p == proto[e]
           a == proto'[e]
<1>0. /\ SessInv /\ RegInv /\ e \in Epochs /\ ProtoOK(p) /\ DOMAIN proto = Epochs /\ reg'.epoch = e
      /\ p.latest \in Nat /\ p.latest <= reg.gen
  <2>1. e \in Epochs /\ ProtoOK(p) /\ reg'.epoch = e
    BY ConnFacts DEF Steady, Cur
  <2>2. ProtoGen(p, reg.gen)
    BY <2>1 DEF GenInv
  <2> QED BY <2>1, <2>2 DEF DownLinkInv, ProtoInv, ProtoOK, ProtoGen
<1>1. PICK c \in pushes : /\ c.gen = g /\ c.seq = 0 /\ sess[c.sess].epoch = e
                          /\ c.sess = s \/ c.by # None
  BY DEF Coming
<1>2. c.sess \in Sessions /\ sess[c.sess].pc # "new" /\ g \in Nat \ {0}
  BY <1>0, <1>1 DEF RegInv, Attached
<1>3. CASE c \in pushes'
  <2>1. sess'[c.sess].epoch = e
    BY <1>0, <1>1, <1>2, AttachedStay
  <2> QED BY <1>0, <1>1, <1>3, <2>1 DEF Coming
<1>4. CASE Push(c)
  <2>1. ~Finished(c.sess)
    BY <1>1 DEF Conn, Finished, ServeInv
  <2>2. proto' = [proto EXCEPT ![e] = PushProto(p, g)]
    BY <1>1, <1>4, <2>1 DEF Push
  <2>3. a = PushProto(p, g)
    BY <1>0, <2>2
  <2>4. p.down.next + 1 # 0
    BY <1>0, Bounds DEF ProtoOK
  <2> HIDE DEF a, p
  <2>5. a.latest = g /\ a.seq # 0
    BY <1>0, <1>2, <2>3, <2>4, PushDoes
  <2> QED BY <2>5 DEF a
<1> QED BY <1>1, <1>3, <1>4, PushMoves

\* While the host is on the registered transport, the newest generation stays
\* with it, on its way, about to be pushed, logged, or to be sent again.
LEMMA CoverStep ==
  ASSUME DownLinkInv, ServeInv, GenInv, WireInv, AckInv, ConnInv, [Next]_vars,
         NEW s \in Sessions, Conn(s), Steady, SentInv(s), CoverInv(s), Kept(s)
  PROVE  CoverInv(s)'
<1> DEFINE e == reg.epoch
           p == proto[e]
           a == proto'[e]
           Goal(g) == Has(s, g)' \/ Coming(s, g)' \/ (a.latest = g /\ (a.seq # 0 \/ a.resend = g))
<1>0. /\ SessInv /\ RegInv /\ e \in Epochs /\ ProtoOK(p) /\ reg'.epoch = e /\ s \in Nat \ {0}
      /\ reg.session = s /\ reg.gen \in Nat \ {0} /\ reg'.gen \in Nat
      /\ sess[s].epoch = e /\ sess[s].pc # "new" /\ ~ \E t \in Sessions : Attach(t)
  <2>1. reg.session = s /\ s # None /\ host.link = s /\ e \in Epochs /\ ProtoOK(p) /\ reg'.epoch = e /\ sess[s].epoch = e
    BY ConnFacts DEF Steady, Cur
  <2>2. reg.gen \in Nat \ {0} /\ reg'.gen \in Nat
    BY <2>1, RegGrows DEF ServeInv
  <2>3. ~ \E t \in Sessions : Attach(t)
    BY <2>1 DEF Attach
  <2>4. sess[s].pc # "new"
    BY DEF Conn
  <2> QED BY <2>1, <2>2, <2>3, <2>4, SessionNumbers DEF DownLinkInv
<1>a. /\ p.seq \in Nat /\ p.sentGen \in Nat /\ p.gen \in Nat /\ p.latest \in Nat /\ p.resend \in Nat
      /\ p.down.next \in Nat /\ p.down.acked \in Nat
  BY <1>0, Bounds DEF ProtoOK
<1>b. ProtoGen(p, reg.gen)
  BY <1>0 DEF GenInv
<1>c. p.seq # 0 => p.gen = p.latest /\ p.seq > p.down.acked
  BY <1>0, Bounds DEF ProtoOK
<1>1. CASE reg'.gen # reg.gen
  <2>1. Notify
    BY <1>0, <1>1, GenerationMoves
  <2>2. /\ UNCHANGED sess
        /\ pushes' = pushes \cup {[by |-> None, sess |-> reg.session, gen |-> reg.gen + 1, seq |-> 0]}
        /\ reg'.gen = reg.gen + 1
    BY <1>0, <1>1, <2>1, NotifyMoves
  <2> DEFINE c == [by |-> None, sess |-> s, gen |-> reg.gen + 1, seq |-> 0]
  <2>3. c \in pushes' /\ c.gen = reg'.gen /\ c.seq = 0 /\ c.sess = s /\ sess'[s].epoch = reg'.epoch
    BY <1>0, <2>2
  <2> HIDE DEF c
  <2>4. (\E d \in pushes : /\ d.gen = reg.gen /\ d.seq = 0 /\ sess[d.sess].epoch = reg.epoch
                           /\ d.sess = s \/ d.by # None)'
    BY <2>3
  <2>5. Coming(s, reg.gen)'
    BY <2>4 DEF Coming
  <2> QED BY <2>5 DEF CoverInv
<1>2. ASSUME NEW g \in Nat, g = reg.gen PROVE Goal(g)
  <2>1. CASE Has(s, g)
    BY <2>1 DEF Kept
  <2>2. CASE Coming(s, g)
    BY <1>2, <2>2, ComingMoves
  <2>3. CASE p.latest = g /\ (p.seq # 0 \/ p.resend = g)
    <3>1. ASSUME NEW c \in pushes, Pushed(p, a, c.gen) PROVE Goal(g)
      <4>1. c.gen \in Nat /\ c.gen <= reg.gen
        BY <1>0 DEF RegInv, GenInv
      <4> HIDE DEF p, a
      <4>2. a.latest = g /\ a.seq # 0
        BY <1>2, <1>a, <2>3, <3>1, <4>1 DEF Pushed
      <4> QED BY <4>2
    <3>2. ASSUME NEW t \in Sessions, sess[t].epoch = e, HandleAck(t), Covered(p, a),
                 a.down.acked = p.down.acked \/ a.down.acked <= acks[t]
          PROVE  Goal(g)
      <4>1. CASE p.sentGen < p.gen
        <5> HIDE DEF p, a
        <5> QED BY <2>3, <3>2, <4>1 DEF Covered
      <4>2. CASE ~(p.sentGen < p.gen)
        <5>1. sess[t].pc = "idle" /\ acks[t] \in Nat
          BY <3>2 DEF HandleAck, DownLinkInv, LinkInv
        <5>a. a.down.acked \in Nat
          <6>1. ProtoInv'
            BY ProtoStep DEF DownLinkInv
          <6>2. ProtoOK(a)
            BY <1>0, <6>1 DEF ProtoInv
          <6> HIDE DEF a
          <6> QED BY <6>2, Bounds DEF ProtoOK
        <5>2. p.seq # 0 /\ p.sentGen = g /\ p.seq > p.down.acked /\ p.seq <= acks[t]
          <6> HIDE DEF p, a
          <6> QED BY <1>a, <1>b, <1>c, <2>3, <3>2, <4>2, <5>1, <5>a DEF Covered, ProtoGen
        <5>3. Sent(s, p.seq, g)
          BY <5>2 DEF SentInv, Cur
        <5>4. Has(s, g)
          BY <1>a, <3>2, <5>1, <5>2, <5>3, CoveredHas DEF Cur
        <5> QED BY <5>4 DEF Kept
      <4> QED BY <4>1, <4>2
    <3>3. ASSUME NEW t \in Sessions, sess[t].epoch = e, TakeResend(t), Taken(p, a) PROVE Goal(g)
      <4>1. CASE p.seq # 0
        BY <2>3, <3>3, <4>1 DEF Taken
      <4>2. CASE p.seq = 0
        <5> DEFINE c == [by |-> t, sess |-> t, gen |-> g, seq |-> 0]
        <5>1. SameButPc(t) /\ pushes' = IF p.resend = 0 THEN pushes ELSE pushes \cup {[by |-> t, sess |-> t, gen |-> p.resend, seq |-> 0]}
          <6>1. SameButPc(t)
            BY <1>0, <3>3, TakeResendMoves
          <6> QED BY <3>3, <6>1 DEF TakeResend
        <5>2. p.resend = g /\ g # 0
          BY <1>0, <1>2, <2>3, <4>2
        <5>3. c \in pushes' /\ c.gen = g /\ c.seq = 0 /\ c.sess = t /\ c.by = t /\ t # None
          BY <5>1, <5>2, SessionNumbers DEF None
        <5>4. sess'[t].epoch = reg'.epoch
          BY <1>0, <3>3, <5>1 DEF SameButPc
        <5> HIDE DEF c
        <5>5. Coming(s, g)'
          BY <5>3, <5>4 DEF Coming
        <5> QED BY <5>5
      <4> QED BY <4>1, <4>2
    <3>4. \/ SameEntry(p, a)
          \/ \E t \in Sessions : /\ sess[t].epoch = e /\ sess[t].wpc = "note" /\ Head(sess[t].batch)[1] = p.seq
                                 /\ Written(t) /\ Noted(p, a, Head(sess[t].batch)[2])
          \/ \E c \in pushes : sess[c.sess].epoch = e /\ Push(c) /\ Pushed(p, a, c.gen)
          \/ \E t \in Sessions : /\ sess[t].epoch = e /\ HandleAck(t) /\ Covered(p, a)
                                 /\ a.down.acked = p.down.acked \/ a.down.acked <= acks[t]
          \/ \E t \in Sessions : sess[t].epoch = e /\ TakeResend(t) /\ Taken(p, a)
          \/ \E t \in Sessions : Attach(t) /\ e = host.epoch
      BY <1>0, EntryMoves
    <3>5. CASE SameEntry(p, a) \/ \E i : Noted(p, a, i)
      <4> HIDE DEF p, a
      <4> QED BY <2>3, <3>5 DEF SameEntry, Noted
    <3> HIDE DEF Goal, p, a
    <3> QED BY <1>0, <3>1, <3>2, <3>3, <3>4, <3>5
  <2> QED BY <1>2, <2>1, <2>2, <2>3 DEF CoverInv, Cur
<1>3. CASE reg'.gen = reg.gen
  <2>1. \E g \in Nat : g = reg'.gen /\ Goal(g)
    <3> HIDE DEF Goal
    <3> QED BY <1>0, <1>2, <1>3
  <2>2. Cur' = a
    BY <1>0 DEF Cur
  <2> HIDE DEF a
  <2> QED BY <2>1, <2>2 DEF CoverInv, Has, Coming
<1> QED BY <1>1, <1>3

\* After an attach the snapshot of hello_ack, which is the newest one, is on its
\* way.
LEMMA AttachHolds ==
  ASSUME DownLinkInv, ServeInv, GenInv, WireInv, [Next]_vars, NEW s \in Sessions, Attach(s)
  PROVE  SentInv(s)' /\ CoverInv(s)'
<1> DEFINE G == reg'.gen
           a == proto'[reg'.epoch]
           y == << 0, G >>
<1>0. ProtoInv' /\ SessInv' /\ GenInv' /\ G \in Nat /\ host.rcv.acked \in Nat
  BY ProtoStep, SessStep, GenStep, RegGrows, Bounds DEF DownLinkInv, LinkInv
<1>1. /\ sess'[s].pc = "hello" /\ sess'[s].aud = G /\ reg'.epoch = host.epoch /\ host.epoch \in Epochs
      /\ host'.rcv = host.rcv
  BY AttachMoves DEF DownLinkInv, LinkInv
<1>2. ProtoOK(a) /\ ProtoGen(a, G)
  BY <1>0, <1>1 DEF ProtoInv, GenInv
<1> HIDE DEF a, G
<1>3. y \in OnWay(s)' /\ y[1] = 0 /\ y[2] = G
  BY <1>1 DEF OnWay
<1> HIDE DEF y
<1>4. ASSUME NEW g \in Nat, g <= G PROVE Has(s, g)'
  BY <1>0, <1>1, <1>3, <1>4 DEF Has
<1>5. Cur' = a
  BY DEF Cur, a
<1>6. CoverInv(s)'
  <2>1. \E g \in Nat : g = G /\ Has(s, g)'
    BY <1>0, <1>4
  <2> QED BY <2>1 DEF CoverInv, Has, G
<1>7. a.sentGen \in Nat /\ (a.seq # 0 => a.sentGen <= G)
  BY <1>0, <1>2 DEF ProtoOK, ProtoGen
<1>8. ASSUME a.seq # 0 PROVE (Sent(s, Cur.seq, Cur.sentGen))'
  <2>1. \E g \in Nat : g = a.sentGen /\ Has(s, g)'
    BY <1>4, <1>7, <1>8
  <2>2. (Has(s, Cur.sentGen))'
    BY <1>5, <2>1 DEF Has
  <2> QED BY <2>2 DEF Sent
<1>9. ASSUME NEW t \in Sessions, (sess[t].wpc = "note")'
      PROVE  (Sent(s, Cur.seq, Head(sess[t].batch)[2]))'
  <2>1. (SessOK(sess[t]) /\ sess[t].batch # << >>)'
    BY <1>0, <1>9 DEF SessInv, SessOK
  <2>2. (Head(sess[t].batch) \in Frames /\ Head(sess[t].batch) \in ToSet(sess[t].batch))'
    BY <2>1, SetOfSeq DEF SessOK
  <2>3. (HeldOK(t, Head(sess[t].batch)))'
    BY <1>0, <2>2 DEF GenInv
  <2>4. Head(sess'[t].batch)[2] \in Nat /\ Head(sess'[t].batch)[2] <= G
    BY <2>2, <2>3 DEF HeldOK, Frames, G
  <2>5. \E g \in Nat : g = Head(sess'[t].batch)[2] /\ Has(s, g)'
    BY <1>4, <2>4
  <2>6. (Has(s, Head(sess[t].batch)[2]))'
    BY <2>5 DEF Has
  <2> QED BY <2>6 DEF Sent
<1> QED BY <1>5, <1>6, <1>8, <1>9 DEF SentInv

\* Once an exception is met it stays so.
LEMMA ExceptionsStay ==
  ASSUME [Next]_vars
  PROVE  (missed => missed') /\ (doubled => doubled')
<1>1. ASSUME NEW s \in Sessions, Write(s) PROVE (missed => missed') /\ (doubled => doubled')
  BY <1>1, Zenon DEF Write
<1>2. ASSUME NEW s \in Sessions, HostReceives(s) PROVE (missed => missed') /\ (doubled => doubled')
  BY <1>2, Zenon DEF HostReceives
<1>3. ASSUME missed' = missed, doubled' = doubled PROVE (missed => missed') /\ (doubled => doubled')
  BY <1>3, Zenon
<1>4. ASSUME NEW s \in Sessions, WriterTop(s) \/ WriterWakes(s) \/ Replay(s) \/ Rewrite(s) \/ Written(s)
      PROVE  missed' = missed /\ doubled' = doubled
  BY <1>4 DEF WriterTop, WriterWakes, Replay, Rewrite, Written, histVars
<1>5. ASSUME NEW s \in Sessions,
             Attach(s) \/ Start(s) \/ HandleAck(s) \/ TakeResend(s) \/ Close(s) \/ Detach(s) \/ SendRequest(s) \/ HostAcks(s)
      PROVE  missed' = missed /\ doubled' = doubled
  BY <1>5 DEF Attach, Start, HandleAck, TakeResend, Close, Detach, SendRequest, HostAcks, histVars
<1>6. ASSUME NEW s \in Sessions, NEW q \in 1 .. MaxSeq, ExpireRequest(s, q)
      PROVE  missed' = missed /\ doubled' = doubled
  BY <1>6 DEF ExpireRequest
<1>7. ASSUME NEW c \in pushes, Push(c) \/ AskRewrite(c) PROVE missed' = missed /\ doubled' = doubled
  BY <1>7 DEF Push, AskRewrite, histVars
<1>8. ASSUME ViewChange \/ Notify \/ HostLeaves \/ HostRestarts \/ UNCHANGED vars
      PROVE  missed' = missed /\ doubled' = doubled
  BY <1>8 DEF ViewChange, Notify, HostLeaves, HostRestarts, vars, histVars
<1> QED BY <1>1, <1>2, <1>3, <1>4, <1>5, <1>6, <1>7, <1>8 DEF Next, LoopStep, WriterStep

LEMMA HoldStep ==
  ASSUME DownLinkInv, ServeInv, GenInv, WireInv, AckInv, ConnInv, HoldInv, [Next]_vars
  PROVE  HoldInv'
<1>1. CASE missed' \/ doubled'
  BY <1>1 DEF HoldInv
<1>2. CASE ~missed' /\ ~doubled'
  <2>1. ~missed /\ ~doubled
    BY <1>2, ExceptionsStay, Zenon
  <2>2. ASSUME NEW s \in Sessions, Conn(s)' PROVE SentInv(s)' /\ CoverInv(s)'
    <3>1. CASE Attach(s)
      BY <3>1, AttachHolds
    <3>2. CASE Conn(s) /\ Steady /\ (Start(s) \/ WriterStep(s) \/ HostReceives(s) \/ Calm(s))
      <4>1. SentInv(s) /\ CoverInv(s)
        BY <2>1, <3>2 DEF HoldInv
      <4>2. Kept(s)
        BY <1>2, <3>2, KeptStep
      <4> QED BY <1>2, <3>2, <4>1, <4>2, SentStep, CoverStep
    <3> QED BY <2>2, <3>1, <3>2, ConnMoves
  <2> QED BY <2>2 DEF HoldInv
<1> QED BY <1>1, <1>2

\* A hub without sessions owes the host nothing.
LEMMA InitNewest == Init => NewestInv
<1> SUFFICES ASSUME Init PROVE NewestInv
  OBVIOUS
<1>1. /\ reg = [session |-> None, epoch |-> 0, gen |-> 0, stale |-> FALSE] /\ notifiers = 0
      /\ \A e \in Epochs : proto[e] = NewProto
      /\ \A t \in Sessions : sess[t] = NewSession /\ link[t] = << >> /\ acks[t] = 0 /\ handed[t] = {}
      /\ pushes = {} /\ host = [epoch |-> 1, link |-> None, rcv |-> NewReceiver(0, MaxSeq), gen |-> 0]
  BY DEF Init
<1>2. /\ NewSession.pc = "new" /\ NewSession.old = 0 /\ NewSession.wpc = "none" /\ NewSession.batch = << >>
      /\ NewSession.aud = 0
  BY DEF NewSession, None
<1>3. /\ NewProto.latest = 0 /\ NewProto.resend = 0 /\ NewProto.seq = 0
  BY DEF NewProto
<1>4. /\ NewReceiver(0, MaxSeq).window = MaxSeq /\ NewReceiver(0, MaxSeq).acked = 0
      /\ DOMAIN NewReceiver(0, MaxSeq).buf = {}
  BY DEF NewReceiver
<1>5. ToSet(<< >>) = {}
  BY DEF ToSet
<1>6. ServeInv
  BY <1>1, <1>2, SessionNumbers DEF ServeInv, None
<1>7. GenInv
  BY <1>1, <1>2, <1>3, <1>5 DEF GenInv, ProtoGen
<1>8. WireInv
  BY <1>1, <1>2, <1>4, <1>5 DEF WireInv
<1>9. AckInv
  BY <1>1, <1>2, <1>3 DEF AckInv
<1>10. ConnInv /\ HoldInv
  BY <1>1 DEF ConnInv, HoldInv, Conn
<1> QED BY <1>6, <1>7, <1>8, <1>9, <1>10 DEF NewestInv

LEMMA NewestStep ==
  ASSUME DownLinkInv, NewestInv, [Next]_vars
  PROVE  NewestInv'
<1>1. ServeInv /\ GenInv /\ WireInv /\ AckInv /\ ConnInv /\ HoldInv
  BY DEF NewestInv
<1> QED BY <1>1, ServeStep, GenStep, WireStep, AckStep, ConnStep, HoldStep DEF NewestInv

\* When nothing is in flight, only the host can have the newest generation.
LEMMA QuietHolds ==
  ASSUME DownLinkInv, NewestInv, ~missed, ~doubled, NEW s \in Sessions, Quiet(s)
  PROVE  ~reg.stale /\ host.gen = reg.gen
<1>1. /\ notifiers = 0 /\ pushes = {} /\ host.link = s /\ reg.session = s /\ sess[s].pc = "idle"
      /\ sess[s].batch = << >> /\ link[s] = << >> /\ DOMAIN Cur.down.log = {}
  BY DEF Quiet, Cur
<1>2. ServeInv /\ WireInv /\ ConnInv /\ HoldInv
  BY DEF NewestInv
<1>3. s # None /\ Conn(s)
  BY <1>1, SessionNumbers DEF Conn, None
<1>4. reg.gen > 0 /\ ~reg.stale
  BY <1>1, <1>2, <1>3 DEF ServeInv
<1>5. Cur.seq = 0 /\ Cur.resend = 0
  <2>1. ProtoOK(Cur)
    BY <1>2, <1>3, ConnFacts
  <2>2. Cur.seq = 0
    BY <1>1, <2>1 DEF ProtoOK
  <2>3. Cur.resend = 0
    BY <1>1, <1>2, <1>3 DEF ConnInv
  <2> QED BY <2>2, <2>3
<1>6. OnWay(s) = {}
  <2>1. sess[s].wpc \notin {"write", "note"}
    BY <1>1 DEF DownLinkInv, SessInv, SessOK
  <2>2. Rest(s) = {}
    BY <2>1 DEF Rest
  <2> QED BY <1>1, <2>2 DEF OnWay, ToSet
<1>7. CoverInv(s)
  BY <1>2, <1>3, Zenon DEF HoldInv
<1>8. ~Coming(s, reg.gen)
  BY <1>1 DEF Coming
<1>9. Has(s, reg.gen)
  BY <1>4, <1>5, <1>7, <1>8 DEF CoverInv
<1>10. host.gen >= reg.gen
  BY <1>6, <1>9 DEF Has
<1>11. host.gen \in Nat /\ host.gen <= reg.gen /\ reg.gen \in Nat
  BY <1>2 DEF WireInv, DownLinkInv, RegInv
<1> QED BY <1>4, <1>10, <1>11

\* When the log has drained and nothing is in flight the host holds the newest
\* audience, though frames are rewritten in place while they are written,
\* acknowledged or replayed (pushAudience, noteWritten, ackDown's resend, attach's
\* snapshot); with the two exceptions of the property.
THEOREM NewestIsHeld == Spec => []HostHoldsNewest
<1>1. DownLinkInv /\ NewestInv => HostHoldsNewest
  <2> SUFFICES ASSUME DownLinkInv, NewestInv, ~missed, ~doubled, NEW s \in Sessions, Quiet(s)
               PROVE  ~reg.stale /\ host.gen = reg.gen
    BY Zenon DEF HostHoldsNewest
  <2> QED BY QuietHolds
<1>2. DownLinkInv /\ NewestInv /\ [Next]_vars => NewestInv'
  BY NewestStep
<1> QED BY <1>1, <1>2, InitNewest, DownLinkInvariant, PTL DEF Spec

=============================================================================
