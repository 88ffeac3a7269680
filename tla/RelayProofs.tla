---------------------------- MODULE RelayProofs -----------------------------
(***************************************************************************)
(* Proofs about Relay, for any number of requests, sessions, epochs and    *)
(* chunks and any limits: a waiting browser has exactly one outcome        *)
(* coming, tombstones are final verdicts, parked chunks stay within their  *)
(* budget, and an answer arrives whole.                                    *)
(***************************************************************************)
EXTENDS Relay, TLAPS, FiniteSetTheorems, NaturalsInduction, WellFoundedInduction, SequenceTheorems

-----------------------------------------------------------------------------
(* The inductive invariant, in parts.  Shapes first. *)

TypeInv ==
    /\ DOMAIN caller = Reqs /\ \A r \in Reqs : DOMAIN caller[r] = {"pc", "sess", "result", "body"}
    /\ Pending \subseteq Reqs /\ IsFiniteSet(Pending)
    /\ DOMAIN resp = Reqs /\ DOMAIN host = Reqs /\ \A r \in Reqs : DOMAIN host[r] = {"state", "n", "bad"}
    /\ last \in Nat /\ (session # None => session \in Nat)
    /\ downLog \subseteq Reqs /\ reqAcks \subseteq Reqs /\ expired \subseteq Reqs
    /\ \A f \in wire : f.req \in Reqs

-----------------------------------------------------------------------------
(* Outcomes. *)

Before == {"new", "preflight"}

\* A request has nothing before it is registered, its answer channel at most one
\* element, and a waiting one exactly one thing coming.
OutcomeInv ==
    \A r \in Reqs :
        /\ resp[r] = << >> \/ \E x : resp[r] = << x >>
        /\ caller[r].pc \in Before => resp[r] = << >> /\ r \notin gone /\ r \notin Pending
        /\ caller[r].pc = "preflight" => caller[r].sess # None
        /\ r \in Pending => session # None /\ Waiting(r) /\ resp[r] = << >> /\ r \notin gone
        /\ resp[r] # << >> => r \notin gone
        /\ Waiting(r) => r \in Pending \/ resp[r] # << >> \/ r \in gone

-----------------------------------------------------------------------------
(* What has been sent. *)

\* A request that has not been sent is unknown to everybody else, and one that is
\* logged and that the host has not seen has no answer on its way.
LoggedInv ==
    /\ \A r \in Reqs : caller[r].pc \in Before \cup {"send"} =>
           /\ r \notin downLog /\ r \notin reqAcks /\ r \notin expired /\ host[r] = Unknown
           /\ \A f \in wire : f.req # r
    /\ \A r \in downLog : host[r] = Unknown => \A f \in wire : f.req # r
    /\ reqAcks \subseteq downLog

-----------------------------------------------------------------------------
(* Tombstones. *)

Tombstones == [req : Reqs, done : BOOLEAN]
Distinct(ts) == \A i, j \in DOMAIN ts : ts[i].req = ts[j].req => i = j
Among(ts, t) == \E j \in DOMAIN ts : ts[j] = t

\* One entry per request, of requests that are settled; a done one by an answer.
TombInv ==
    /\ tombs \in Seq(Tombstones) /\ Distinct(tombs)
    /\ \A i \in DOMAIN tombs : tombs[i].req \notin Pending /\ caller[tombs[i].req].pc \notin Before
    /\ \A i \in DOMAIN tombs : tombs[i].done =>
           /\ tombs[i].req \notin gone
           /\ \A j \in DOMAIN resp[tombs[i].req] : resp[tombs[i].req][j].status = "ok"
    /\ \A r \in Reqs : host[r].state = "forgot" => r \notin Pending

\* What a step may add: an abort of a request that is not done and no longer
\* pending, or the done entry of one that it answers.
AbortAdded(t) ==
    /\ t.req \in Reqs /\ t = Tombstone(t.req, FALSE) /\ ~Done(t.req)
    /\ t.req \notin Pending' /\ caller[t.req].pc \notin Before
DoneAdded(t) ==
    /\ t = Tombstone(t.req, TRUE) /\ t.req \in Pending /\ t.req \notin Pending'
    /\ \E b : resp' = [resp EXCEPT ![t.req] = Append(resp[t.req], Answer(b))]

TombDelta ==
    /\ tombs' \in Seq(Tombstones) /\ Distinct(tombs')
    /\ \A i \in DOMAIN tombs' : Among(tombs, tombs'[i]) \/ AbortAdded(tombs'[i]) \/ DoneAdded(tombs'[i])
\* What a step may change of the rest: nothing becomes pending but a request
\* that passed its second check, only pending requests are given up or answered.
StepBound ==
    /\ \A r \in Pending' : r \in Pending \/ (r \in Reqs /\ caller[r].pc = "preflight")
    /\ \A r \in Reqs : caller'[r].pc \in Before => caller[r].pc \in Before
    /\ gone' \subseteq gone \cup Pending /\ (gone' = gone \/ resp' = resp)
    /\ \A r \in Reqs : resp'[r] = resp[r] \/ r \in Pending \/ resp'[r] = << >>
    /\ \A r \in Reqs : host'[r].state = "forgot" => host[r].state = "forgot" \/ r \notin Pending'

-----------------------------------------------------------------------------
(* Answers. *)

\* b is the whole answer of r: its chunks, each once and in order, up to one
\* that the host sent as the last.
Chunks(b, n) == b \in Seq(Nat) /\ Len(b) = n /\ \A i \in 1 .. n : b[i] = i
Whole(r, b) == \E f \in wire : f.req = r /\ ~f.more /\ Chunks(b, f.chunk)

\* A pending entry holds the chunks up to next, and behind a gap frames that the
\* host sent.
EntryOK(r, p) ==
    /\ DOMAIN p = {"next", "parked", "body"} /\ p.next \in Nat /\ Chunks(p.body, p.next)
    /\ \A c \in DOMAIN p.parked : /\ c \in 1 .. MaxChunks /\ c > p.next + 1
                                  /\ p.parked[c] \in wire /\ p.parked[c].req = r /\ p.parked[c].chunk = c

\* The frames of one request agree: the host runs it once.
WireInv ==
    /\ \A f \in wire : f.chunk \in 1 .. MaxChunks
    /\ \A f \in wire : host[f.req] # Unknown =>
           f.chunk <= host[f.req].n /\ (f.more <=> f.chunk < host[f.req].n)
    /\ \A r \in Reqs : host[r] # Unknown => host[r].n \in 1 .. MaxChunks

AnswerInv ==
    /\ \A r \in Pending : EntryOK(r, pending[r])
    /\ \A r \in Reqs : \A i \in DOMAIN resp[r] : resp[r][i].status = "ok" => Whole(r, resp[r][i].body)
    /\ \A r \in Reqs : caller[r].result = "ok" => Whole(r, caller[r].body)

\* What a step may do to answers.
AnswerDelta ==
    /\ wire \subseteq wire'
    /\ \A r \in Pending' : (r \in Pending /\ pending'[r] = pending[r]) \/ EntryOK(r, pending'[r])
    /\ \A r \in Reqs : \A i \in DOMAIN resp'[r] : resp'[r][i].status = "ok" => Whole(r, resp'[r][i].body)
    /\ \A r \in Reqs : caller'[r].result = "ok" => Whole(r, caller'[r].body)

Restricted == Pending' \subseteq Pending /\ \A r \in Pending' : pending'[r] = pending[r]

ParkInv == IsFiniteSet(Parked) /\ ParkedTotal <= MaxParked

-----------------------------------------------------------------------------

\* The pending table without some requests, and with one.
LEMMA PendingWithout ==
  ASSUME NEW rs
  PROVE  DOMAIN WithoutPending(rs) = Pending \ rs /\ \A q \in Pending \ rs : WithoutPending(rs)[q] = pending[q]
BY DEF WithoutPending

\* The table with an entry for one request.
LEMMA PendingWith ==
  ASSUME NEW r, NEW p
  PROVE  /\ DOMAIN WithPending(r, p) = Pending \cup {r} /\ WithPending(r, p)[r] = p
         /\ \A q \in Pending : q # r => WithPending(r, p)[q] = pending[q]
BY DEF WithPending

\* A respond frame adds no pending request.
LEMMA RespondShrinks ==
  ASSUME NEW f, RespondLate(f) \/ RespondDuplicate(f) \/ RespondGap(f) \/ RespondNext(f)
  PROVE  Pending' \subseteq Pending
<1>1. CASE RespondLate(f) \/ RespondDuplicate(f)
  BY <1>1 DEF RespondLate, RespondDuplicate, Pending
<1>2. CASE RespondGap(f)
  <2>1. PICK p : pending' = WithoutPending({f.req}) \/ pending' = WithPending(f.req, p)
    BY <1>2 DEF RespondGap, FailRequest
  <2>2. f.req \in Pending
    BY <1>2 DEF RespondGap
  <2>3. DOMAIN pending' \in {Pending \ {f.req}, Pending \cup {f.req}}
    BY <2>1, PendingWithout, PendingWith
  <2> QED BY <2>2, <2>3 DEF Pending
<1>3. CASE RespondNext(f)
  <2>1. PICK p : pending' = WithoutPending({f.req}) \/ pending' = WithPending(f.req, p)
    BY <1>3 DEF RespondNext, FailRequest
  <2>2. f.req \in Pending
    BY <1>3 DEF RespondNext
  <2>3. DOMAIN pending' \in {Pending \ {f.req}, Pending \cup {f.req}}
    BY <2>1, PendingWithout, PendingWith
  <2> QED BY <2>2, <2>3 DEF Pending
<1> QED BY <1>1, <1>2, <1>3

\* Every step keeps the shapes.
LEMMA TypeStep ==
  ASSUME TypeInv, [Next]_vars
  PROVE  TypeInv'
<1>1. ASSUME NEW r \in Reqs, LookUp(r) PROVE TypeInv'
  BY <1>1, FS_EmptySet DEF LookUp, Return, Caller, dispatchVars, sessionVars, downVars, TypeInv, Pending, None
<1>2. ASSUME NEW r \in Reqs, PreflightFails(r) PROVE TypeInv'
  BY <1>2, FS_EmptySet DEF PreflightFails, Return, Caller, dispatchVars, sessionVars, downVars, TypeInv, Pending, None
<1>3. ASSUME NEW r \in Reqs, Register(r) PROVE TypeInv'
  <2>1. Pending' = Pending \cup {r}
    BY <1>3, PendingWith DEF Register, Pending
  <2>2. IsFiniteSet(Pending')
    BY <2>1, FS_AddElement DEF TypeInv
  <2> QED BY <1>3, <2>1, <2>2 DEF Register, Advance, sessionVars, downVars, TypeInv
<1>4. ASSUME NEW r \in Reqs, RegisterRefused(r) PROVE TypeInv'
  BY <1>4, FS_EmptySet DEF RegisterRefused, Return, Caller, dispatchVars, sessionVars, downVars, TypeInv, Pending, None
<1>5. ASSUME NEW r \in Reqs, Send(r) PROVE TypeInv'
  BY <1>5, FS_EmptySet DEF Send, LogRequest, Advance, dispatchVars, sessionVars, downVars, TypeInv, Pending, None
<1>6. ASSUME NEW r \in Reqs, SendFails(r) PROVE TypeInv'
  <2>1. Pending' \subseteq Pending /\ UNCHANGED << resp, host, last, session, wire >>
    BY <1>6, PendingWithout DEF SendFails, DropPending, Pending, sessionVars
  <2>2. IsFiniteSet(Pending')
    BY <2>1, FS_Subset DEF TypeInv
  <2>3. downLog' \subseteq Reqs /\ reqAcks' \subseteq Reqs /\ expired' \subseteq Reqs
    BY <1>6 DEF SendFails, LogRequest, downVars, TypeInv
  <2>4. DOMAIN caller' = Reqs /\ \A q \in Reqs : DOMAIN caller'[q] = {"pc", "sess", "result", "body"}
    BY <1>6 DEF SendFails, Return, Caller, TypeInv
  <2> QED BY <2>1, <2>2, <2>3, <2>4 DEF TypeInv
<1>7. ASSUME NEW r \in Reqs, Check(r) PROVE TypeInv'
  BY <1>7, FS_EmptySet DEF Check, TakeResponse, Advance, dispatchVars, sessionVars, downVars, TypeInv, Pending, None
<1>8. ASSUME NEW r \in Reqs, WaitResponse(r) PROVE TypeInv'
  BY <1>8, FS_EmptySet DEF WaitResponse, TakeResponse, dispatchVars, sessionVars, downVars, TypeInv, Pending, None
<1>9. ASSUME NEW r \in Reqs, WaitGone(r) PROVE TypeInv'
  BY <1>9, FS_EmptySet DEF WaitGone, Return, Caller, dispatchVars, sessionVars, downVars, TypeInv, Pending, None
<1>10. ASSUME NEW r \in Reqs, WaitGivesUp(r) PROVE TypeInv'
  <2>1. Pending' \subseteq Pending /\ UNCHANGED << resp, host, last, session, wire >>
    BY <1>10, PendingWithout DEF WaitGivesUp, DropPending, Pending, sessionVars
  <2>2. IsFiniteSet(Pending')
    BY <2>1, FS_Subset DEF TypeInv
  <2>3. downLog' \subseteq Reqs /\ reqAcks' \subseteq Reqs /\ expired' \subseteq Reqs
    BY <1>10 DEF WaitGivesUp, LogRequest, downVars, TypeInv
  <2>4. DOMAIN caller' = Reqs /\ \A q \in Reqs : DOMAIN caller'[q] = {"pc", "sess", "result", "body"}
    BY <1>10 DEF WaitGivesUp, Return, Caller, TypeInv
  <2> QED BY <2>1, <2>2, <2>3, <2>4 DEF TypeInv
<1>11. ASSUME NEW r \in Reqs, ExpireRequest(r) PROVE TypeInv'
  BY <1>11, FS_EmptySet DEF ExpireRequest, dispatchVars, sessionVars, downVars, TypeInv, Pending, None
<1>12. ASSUME NEW r \in Reqs, FailExpired(r) PROVE TypeInv'
  <2>1. Pending' \subseteq Pending
    BY <1>12, PendingWithout DEF FailExpired, FailRequest, Pending
  <2>2. IsFiniteSet(Pending')
    BY <2>1, FS_Subset DEF TypeInv
  <2>3. DOMAIN resp' = Reqs /\ UNCHANGED << caller, host, last, session, downLog, reqAcks, wire >> /\ expired' \subseteq expired
    BY <1>12 DEF FailExpired, FailRequest, sessionVars, TypeInv
  <2> QED BY <2>1, <2>2, <2>3 DEF TypeInv
<1>13. ASSUME NEW r \in Reqs, AckRequest(r) PROVE TypeInv'
  BY <1>13, FS_EmptySet DEF AckRequest, dispatchVars, sessionVars, downVars, TypeInv, Pending, None
<1>14. ASSUME NEW r \in Reqs, HostRuns(r) PROVE TypeInv'
  BY <1>14, FS_EmptySet DEF HostRuns, dispatchVars, sessionVars, downVars, TypeInv, Pending, None
<1>15. ASSUME NEW r \in Reqs, HostSends(r) PROVE TypeInv'
  BY <1>15, FS_EmptySet DEF HostSends, Frame, dispatchVars, sessionVars, downVars, TypeInv, Pending, None
<1>16. ASSUME NEW r \in Reqs, HostForgets(r) PROVE TypeInv'
  BY <1>16, FS_EmptySet DEF HostForgets, dispatchVars, sessionVars, downVars, TypeInv, Pending, None
<1>17. ASSUME NEW f \in wire, AcceptRespond(f), RespondLate(f) PROVE TypeInv'
  <2>1. Pending' \subseteq Pending
    BY <1>17, RespondShrinks
  <2>2. UNCHANGED << caller, host, last, session, downLog, reqAcks, expired, wire >>
    BY <1>17 DEF AcceptRespond, sessionVars, downVars
  <2>3. DOMAIN resp' = Reqs
    BY <1>17 DEF AcceptRespond, RespondLate, dispatchVars, sessionVars, downVars, TypeInv
  <2>4. IsFiniteSet(Pending')
    BY <2>1, FS_Subset DEF TypeInv
  <2> QED BY <2>1, <2>2, <2>3, <2>4 DEF TypeInv
<1>18. ASSUME NEW f \in wire, AcceptRespond(f), RespondDuplicate(f) PROVE TypeInv'
  <2>1. Pending' \subseteq Pending
    BY <1>18, RespondShrinks
  <2>2. UNCHANGED << caller, host, last, session, downLog, reqAcks, expired, wire >>
    BY <1>18 DEF AcceptRespond, sessionVars, downVars
  <2>3. DOMAIN resp' = Reqs
    BY <1>18 DEF AcceptRespond, RespondDuplicate, dispatchVars, sessionVars, downVars, TypeInv
  <2>4. IsFiniteSet(Pending')
    BY <2>1, FS_Subset DEF TypeInv
  <2> QED BY <2>1, <2>2, <2>3, <2>4 DEF TypeInv
<1>19. ASSUME NEW f \in wire, AcceptRespond(f), RespondGap(f) PROVE TypeInv'
  <2>1. Pending' \subseteq Pending
    BY <1>19, RespondShrinks
  <2>2. UNCHANGED << caller, host, last, session, downLog, reqAcks, expired, wire >>
    BY <1>19 DEF AcceptRespond, sessionVars, downVars
  <2>3. DOMAIN resp' = Reqs
    BY <1>19 DEF AcceptRespond, RespondGap, FailRequest, dispatchVars, sessionVars, downVars, TypeInv
  <2>4. IsFiniteSet(Pending')
    BY <2>1, FS_Subset DEF TypeInv
  <2> QED BY <2>1, <2>2, <2>3, <2>4 DEF TypeInv
<1>20. ASSUME NEW f \in wire, AcceptRespond(f), RespondNext(f) PROVE TypeInv'
  <2>1. Pending' \subseteq Pending
    BY <1>20, RespondShrinks
  <2>2. UNCHANGED << caller, host, last, session, downLog, reqAcks, expired, wire >>
    BY <1>20 DEF AcceptRespond, sessionVars, downVars
  <2>3. DOMAIN resp' = Reqs
    BY <1>20 DEF AcceptRespond, RespondNext, FailRequest, dispatchVars, sessionVars, downVars, TypeInv
  <2>4. IsFiniteSet(Pending')
    BY <2>1, FS_Subset DEF TypeInv
  <2> QED BY <2>1, <2>2, <2>3, <2>4 DEF TypeInv
<1>21. ASSUME NEW s \in 1 .. last, Finish(s) PROVE TypeInv'
  BY <1>21, FS_EmptySet DEF Finish, dispatchVars, sessionVars, downVars, TypeInv, Pending, None
<1>22. ASSUME NEW s \in 1 .. last, Detach(s) PROVE TypeInv'
  BY <1>22, FS_EmptySet DEF Detach, FailPending, dispatchVars, sessionVars, downVars, TypeInv, Pending, None
<1>23. ASSUME AttachResume PROVE TypeInv'
  BY <1>23, FS_EmptySet DEF AttachResume, dispatchVars, sessionVars, downVars, TypeInv, Pending, None
<1>24. ASSUME AttachNewEpoch PROVE TypeInv'
  BY <1>24, FS_EmptySet DEF AttachNewEpoch, dispatchVars, sessionVars, downVars, TypeInv, Pending, None, Unknown
<1>25. ASSUME ExpireTombstone PROVE TypeInv'
  BY <1>25, FS_EmptySet DEF ExpireTombstone, dispatchVars, sessionVars, downVars, TypeInv, Pending, None
<1>26. CASE UNCHANGED vars
  BY <1>26 DEF vars, TypeInv, Pending, dispatchVars, sessionVars, downVars
<1> QED
  BY <1>1, <1>2, <1>3, <1>4, <1>5, <1>6, <1>7, <1>8, <1>9, <1>10, <1>11, <1>12, <1>13,
     <1>14, <1>15, <1>16, <1>17, <1>18, <1>19, <1>20, <1>21, <1>22, <1>23, <1>24,
     <1>25, <1>26 DEF Next, Dispatch, AcceptRespond

\* A respond frame leaves the pending requests and the answers, or ends its
\* request with one answer.
LEMMA RespondEffect ==
  ASSUME NEW f, RespondLate(f) \/ RespondDuplicate(f) \/ RespondGap(f) \/ RespondNext(f)
  PROVE  \/ Pending' = Pending /\ resp' = resp
         \/ /\ f.req \in Pending /\ Pending' = Pending \ {f.req}
            /\ \E x : resp' = [resp EXCEPT ![f.req] = Append(resp[f.req], x)]
<1>1. CASE RespondLate(f) \/ RespondDuplicate(f)
  BY <1>1 DEF RespondLate, RespondDuplicate, Pending
<1>2. CASE RespondGap(f) \/ RespondNext(f)
  <2>1. f.req \in Pending
    BY <1>2 DEF RespondGap, RespondNext
  <2>2. \/ pending' = WithoutPending({f.req}) /\ \E x : resp' = [resp EXCEPT ![f.req] = Append(resp[f.req], x)]
        \/ \E p : pending' = WithPending(f.req, p) /\ resp' = resp
    <3>1. CASE RespondGap(f)
      BY <3>1 DEF RespondGap, FailRequest
    <3>2. CASE RespondNext(f)
      BY <3>2 DEF RespondNext, FailRequest
    <3> QED BY <1>2, <3>1, <3>2
  <2>3. CASE pending' = WithoutPending({f.req}) /\ \E x : resp' = [resp EXCEPT ![f.req] = Append(resp[f.req], x)]
    BY <2>1, <2>3, PendingWithout DEF Pending
  <2>4. CASE \E p : pending' = WithPending(f.req, p) /\ resp' = resp
    <3>0. PICK p : pending' = WithPending(f.req, p)
      BY <2>4
    <3>1. DOMAIN pending' = Pending \cup {f.req}
      BY <3>0, PendingWith
    <3> QED BY <2>1, <2>4, <3>1 DEF Pending
  <2> QED BY <2>2, <2>3, <2>4
<1> QED BY <1>1, <1>2

\* An answer put into an empty channel is the only one in it.
LEMMA OneElement == ASSUME NEW x PROVE Append(<< >>, x) = << x >> /\ << x >> # << >> /\ Tail(<< x >>) = << >>
OBVIOUS

\* Every step keeps one outcome for each waiting request.
LEMMA OutcomeStep ==
  ASSUME TypeInv, OutcomeInv, [Next]_vars
  PROVE  OutcomeInv'
<1>1. ASSUME NEW r \in Reqs, LookUp(r) PROVE OutcomeInv'
  <2>1. \A q \in Reqs : q # r => caller'[q] = caller[q]
    BY <1>1 DEF LookUp, Return, TypeInv
  <2>2. UNCHANGED << Pending, resp, gone, session >> /\ caller[r].pc = "new"
    BY <1>1 DEF LookUp, sessionVars, Pending
  <2>3. \/ caller'[r].pc = "returned"
        \/ caller'[r].pc = "preflight" /\ caller'[r].sess # None
    <3>1. CASE session = None \/ TableFull
      <4>1. Return(r, "error")
        BY <1>1, <3>1 DEF LookUp
      <4> QED BY <4>1 DEF Return, Caller, TypeInv
    <3>2. CASE ~(session = None \/ TableFull)
      BY <1>1, <3>2 DEF LookUp, TypeInv
    <3> QED BY <3>1, <3>2
  <2> QED BY <2>1, <2>2, <2>3 DEF OutcomeInv, Waiting, Before
<1>2. ASSUME NEW r \in Reqs, PreflightFails(r) PROVE OutcomeInv'
  <2>1. \A q \in Reqs : q # r => caller'[q] = caller[q]
    BY <1>2 DEF PreflightFails, Return, Caller, dispatchVars, sessionVars, downVars, TypeInv
  <2>2. UNCHANGED << Pending, resp, gone, session >>
    BY <1>2 DEF PreflightFails, Return, Caller, dispatchVars, sessionVars, downVars, Pending
  <2>3. caller'[r].pc = "returned"
    BY <1>2 DEF PreflightFails, Return, Caller, dispatchVars, sessionVars, downVars, TypeInv
  <2> QED BY <1>2, <2>1, <2>2, <2>3 DEF PreflightFails, OutcomeInv, Waiting, Before
<1>3. ASSUME NEW r \in Reqs, Register(r) PROVE OutcomeInv'
  <2>1. caller'[r].pc = "send" /\ caller[r].pc = "preflight" /\ \A q \in Reqs : q # r => caller'[q] = caller[q]
    BY <1>3 DEF Register, Advance, TypeInv
  <2>2. UNCHANGED << resp, gone, session >> /\ session = caller[r].sess
    BY <1>3 DEF Register, MayRegister, sessionVars
  <2>3. Pending' = Pending \cup {r}
    BY <1>3, PendingWith DEF Register, Pending
  <2> QED BY <2>1, <2>2, <2>3 DEF OutcomeInv, Waiting, Before
<1>4. ASSUME NEW r \in Reqs, RegisterRefused(r) PROVE OutcomeInv'
  <2>1. \A q \in Reqs : q # r => caller'[q] = caller[q]
    BY <1>4 DEF RegisterRefused, Return, Caller, dispatchVars, sessionVars, downVars, TypeInv
  <2>2. UNCHANGED << Pending, resp, gone, session >>
    BY <1>4 DEF RegisterRefused, Return, Caller, dispatchVars, sessionVars, downVars, Pending
  <2>3. caller'[r].pc = "returned"
    BY <1>4 DEF RegisterRefused, Return, Caller, dispatchVars, sessionVars, downVars, TypeInv
  <2> QED BY <1>4, <2>1, <2>2, <2>3 DEF RegisterRefused, OutcomeInv, Waiting, Before
<1>5. ASSUME NEW r \in Reqs, Send(r) PROVE OutcomeInv'
  <2>1. \A q \in Reqs : q # r => caller'[q] = caller[q]
    BY <1>5 DEF Send, LogRequest, Advance, dispatchVars, sessionVars, downVars, TypeInv
  <2>2. UNCHANGED << Pending, resp, gone, session >>
    BY <1>5 DEF Send, LogRequest, Advance, dispatchVars, sessionVars, downVars, Pending
  <2>3. caller'[r].pc = "check"
    BY <1>5 DEF Send, LogRequest, Advance, dispatchVars, sessionVars, downVars, TypeInv
  <2> QED BY <1>5, <2>1, <2>2, <2>3 DEF Send, OutcomeInv, Waiting, Before
<1>6. ASSUME NEW r \in Reqs, SendFails(r) PROVE OutcomeInv'
  <2>1. caller'[r].pc = "returned" /\ \A q \in Reqs : q # r => caller'[q] = caller[q]
    BY <1>6 DEF SendFails, Return, Caller, TypeInv
  <2>2. UNCHANGED << resp, gone, session >>
    BY <1>6 DEF SendFails, sessionVars
  <2>3. Pending' = Pending \ {r}
    BY <1>6, PendingWithout DEF SendFails, DropPending, Pending
  <2> QED BY <2>1, <2>2, <2>3 DEF OutcomeInv, Waiting, Before
<1>7. ASSUME NEW r \in Reqs, Check(r) PROVE OutcomeInv'
  <2>10. CASE resp[r] # << >>
    <3>1. caller'[r].pc = "returned" /\ \A q \in Reqs : q # r => caller'[q] = caller[q] /\ resp'[q] = resp[q]
      BY <1>7, <2>10 DEF Check, TakeResponse, Advance, dispatchVars, sessionVars, downVars, TypeInv
    <3>2. UNCHANGED << Pending, gone, session >> /\ resp[r] # << >>
      BY <1>7, <2>10 DEF Check, TakeResponse, Advance, dispatchVars, sessionVars, downVars, Pending
    <3>3. resp'[r] = << >>
      <4>1. PICK x : resp[r] = << x >>
        BY <3>2 DEF OutcomeInv
      <4>2. resp' = [resp EXCEPT ![r] = Tail(resp[r])]
        BY <1>7, <2>10 DEF Check, TakeResponse, Advance, dispatchVars, sessionVars, downVars
      <4> QED BY <4>1, <4>2, OneElement DEF TypeInv
    <3> QED BY <3>1, <3>2, <3>3 DEF OutcomeInv, Waiting, Before
  <2>11. CASE resp[r] = << >>
    <3>1. caller'[r].pc = "wait" /\ \A q \in Reqs : q # r => caller'[q] = caller[q]
      BY <1>7, <2>11 DEF Check, Advance, TypeInv
    <3>2. UNCHANGED << Pending, resp, gone, session >> /\ caller[r].pc = "check"
      BY <1>7, <2>11 DEF Check, sessionVars, Pending
    <3> QED BY <3>1, <3>2 DEF OutcomeInv, Waiting, Before
  <2> QED BY <2>10, <2>11
<1>8. ASSUME NEW r \in Reqs, WaitResponse(r) PROVE OutcomeInv'
  <2>1. caller'[r].pc = "returned" /\ \A q \in Reqs : q # r => caller'[q] = caller[q] /\ resp'[q] = resp[q]
    BY <1>8 DEF WaitResponse, TakeResponse, dispatchVars, sessionVars, downVars, TypeInv
  <2>2. UNCHANGED << Pending, gone, session >> /\ resp[r] # << >>
    BY <1>8 DEF WaitResponse, TakeResponse, dispatchVars, sessionVars, downVars, Pending
  <2>3. resp'[r] = << >>
    <3>1. PICK x : resp[r] = << x >>
      BY <2>2 DEF OutcomeInv
    <3>2. resp' = [resp EXCEPT ![r] = Tail(resp[r])]
      BY <1>8 DEF WaitResponse, TakeResponse, dispatchVars, sessionVars, downVars
    <3> QED BY <3>1, <3>2, OneElement DEF TypeInv
  <2> QED BY <2>1, <2>2, <2>3 DEF OutcomeInv, Waiting, Before
<1>9. ASSUME NEW r \in Reqs, WaitGone(r) PROVE OutcomeInv'
  <2>1. \A q \in Reqs : q # r => caller'[q] = caller[q]
    BY <1>9 DEF WaitGone, Return, Caller, dispatchVars, sessionVars, downVars, TypeInv
  <2>2. UNCHANGED << Pending, resp, gone, session >>
    BY <1>9 DEF WaitGone, Return, Caller, dispatchVars, sessionVars, downVars, Pending
  <2>3. caller'[r].pc = "returned"
    BY <1>9 DEF WaitGone, Return, Caller, dispatchVars, sessionVars, downVars, TypeInv
  <2> QED BY <1>9, <2>1, <2>2, <2>3 DEF WaitGone, OutcomeInv, Waiting, Before
<1>10. ASSUME NEW r \in Reqs, WaitGivesUp(r) PROVE OutcomeInv'
  <2>1. caller'[r].pc = "returned" /\ \A q \in Reqs : q # r => caller'[q] = caller[q]
    BY <1>10 DEF WaitGivesUp, Return, Caller, TypeInv
  <2>2. UNCHANGED << resp, gone, session >>
    BY <1>10 DEF WaitGivesUp, sessionVars
  <2>3. Pending' = Pending \ {r}
    BY <1>10, PendingWithout DEF WaitGivesUp, DropPending, Pending
  <2> QED BY <2>1, <2>2, <2>3 DEF OutcomeInv, Waiting, Before
<1>11. ASSUME NEW r \in Reqs, ExpireRequest(r) PROVE OutcomeInv'
  <2>1. UNCHANGED << caller, Pending, resp, gone, session >>
    BY <1>11 DEF ExpireRequest, dispatchVars, sessionVars, downVars, Pending
  <2> QED BY <2>1 DEF OutcomeInv, Waiting
<1>12. ASSUME NEW r \in Reqs, FailExpired(r) PROVE OutcomeInv'
  <2>1. UNCHANGED << caller, gone, session >>
    BY <1>12 DEF FailExpired, sessionVars
  <2>2. CASE r \notin Pending
    BY <1>12, <2>1, <2>2 DEF FailExpired, Pending, OutcomeInv, Waiting
  <2>3. CASE r \in Pending
    <3>1. Pending' = Pending \ {r} /\ resp' = [resp EXCEPT ![r] = Append(resp[r], Failure)]
      BY <1>12, <2>3, PendingWithout DEF FailExpired, FailRequest, Pending
    <3>2. resp[r] = << >> /\ r \notin gone /\ resp'[r] # << >> /\ \E x : resp'[r] = << x >>
      BY <2>3, <3>1, OneElement DEF OutcomeInv, TypeInv
    <3>3. \A q \in Reqs : q # r => resp'[q] = resp[q]
      BY <3>1 DEF TypeInv
    <3> QED BY <2>1, <2>3, <3>1, <3>2, <3>3 DEF OutcomeInv, Waiting, Before
  <2> QED BY <2>2, <2>3
<1>13. ASSUME NEW r \in Reqs, AckRequest(r) PROVE OutcomeInv'
  <2>1. UNCHANGED << caller, Pending, resp, gone, session >>
    BY <1>13 DEF AckRequest, dispatchVars, sessionVars, downVars, Pending
  <2> QED BY <2>1 DEF OutcomeInv, Waiting
<1>14. ASSUME NEW r \in Reqs, HostRuns(r) PROVE OutcomeInv'
  <2>1. UNCHANGED << caller, Pending, resp, gone, session >>
    BY <1>14 DEF HostRuns, dispatchVars, sessionVars, downVars, Pending
  <2> QED BY <2>1 DEF OutcomeInv, Waiting
<1>15. ASSUME NEW r \in Reqs, HostSends(r) PROVE OutcomeInv'
  <2>1. UNCHANGED << caller, Pending, resp, gone, session >>
    BY <1>15 DEF HostSends, Frame, dispatchVars, sessionVars, downVars, Pending
  <2> QED BY <2>1 DEF OutcomeInv, Waiting
<1>16. ASSUME NEW r \in Reqs, HostForgets(r) PROVE OutcomeInv'
  <2>1. UNCHANGED << caller, Pending, resp, gone, session >>
    BY <1>16 DEF HostForgets, dispatchVars, sessionVars, downVars, Pending
  <2> QED BY <2>1 DEF OutcomeInv, Waiting
<1>17. ASSUME NEW f \in wire, AcceptRespond(f), RespondLate(f) PROVE OutcomeInv'
  <2>1. \/ Pending' = Pending /\ resp' = resp
        \/ /\ f.req \in Pending /\ Pending' = Pending \ {f.req}
           /\ \E x : resp' = [resp EXCEPT ![f.req] = Append(resp[f.req], x)]
    BY <1>17, RespondEffect
  <2>2. CASE Pending' = Pending /\ resp' = resp
    BY <1>17, <2>2 DEF AcceptRespond, sessionVars, OutcomeInv, Waiting
  <2>3. CASE /\ f.req \in Pending /\ Pending' = Pending \ {f.req}
             /\ \E x : resp' = [resp EXCEPT ![f.req] = Append(resp[f.req], x)]

    <3>1. UNCHANGED << caller, gone, session >> /\ f.req \in Reqs
      BY <1>17 DEF AcceptRespond, sessionVars, TypeInv
    <3>2. resp[f.req] = << >> /\ resp'[f.req] # << >> /\ f.req \notin gone /\ \E x : resp'[f.req] = << x >>
      BY <2>3, <3>1, OneElement DEF OutcomeInv, TypeInv
    <3>3. \A q \in Reqs : q # f.req => resp'[q] = resp[q]
      BY <2>3 DEF TypeInv
    <3> QED BY <2>3, <3>1, <3>2, <3>3 DEF OutcomeInv, Waiting, Before
  <2> QED BY <2>1, <2>2, <2>3
<1>18. ASSUME NEW f \in wire, AcceptRespond(f), RespondDuplicate(f) PROVE OutcomeInv'
  <2>1. \/ Pending' = Pending /\ resp' = resp
        \/ /\ f.req \in Pending /\ Pending' = Pending \ {f.req}
           /\ \E x : resp' = [resp EXCEPT ![f.req] = Append(resp[f.req], x)]
    BY <1>18, RespondEffect
  <2>2. CASE Pending' = Pending /\ resp' = resp
    BY <1>18, <2>2 DEF AcceptRespond, sessionVars, OutcomeInv, Waiting
  <2>3. CASE /\ f.req \in Pending /\ Pending' = Pending \ {f.req}
             /\ \E x : resp' = [resp EXCEPT ![f.req] = Append(resp[f.req], x)]

    <3>1. UNCHANGED << caller, gone, session >> /\ f.req \in Reqs
      BY <1>18 DEF AcceptRespond, sessionVars, TypeInv
    <3>2. resp[f.req] = << >> /\ resp'[f.req] # << >> /\ f.req \notin gone /\ \E x : resp'[f.req] = << x >>
      BY <2>3, <3>1, OneElement DEF OutcomeInv, TypeInv
    <3>3. \A q \in Reqs : q # f.req => resp'[q] = resp[q]
      BY <2>3 DEF TypeInv
    <3> QED BY <2>3, <3>1, <3>2, <3>3 DEF OutcomeInv, Waiting, Before
  <2> QED BY <2>1, <2>2, <2>3
<1>19. ASSUME NEW f \in wire, AcceptRespond(f), RespondGap(f) PROVE OutcomeInv'
  <2>1. \/ Pending' = Pending /\ resp' = resp
        \/ /\ f.req \in Pending /\ Pending' = Pending \ {f.req}
           /\ \E x : resp' = [resp EXCEPT ![f.req] = Append(resp[f.req], x)]
    BY <1>19, RespondEffect
  <2>2. CASE Pending' = Pending /\ resp' = resp
    BY <1>19, <2>2 DEF AcceptRespond, sessionVars, OutcomeInv, Waiting
  <2>3. CASE /\ f.req \in Pending /\ Pending' = Pending \ {f.req}
             /\ \E x : resp' = [resp EXCEPT ![f.req] = Append(resp[f.req], x)]

    <3>1. UNCHANGED << caller, gone, session >> /\ f.req \in Reqs
      BY <1>19 DEF AcceptRespond, sessionVars, TypeInv
    <3>2. resp[f.req] = << >> /\ resp'[f.req] # << >> /\ f.req \notin gone /\ \E x : resp'[f.req] = << x >>
      BY <2>3, <3>1, OneElement DEF OutcomeInv, TypeInv
    <3>3. \A q \in Reqs : q # f.req => resp'[q] = resp[q]
      BY <2>3 DEF TypeInv
    <3> QED BY <2>3, <3>1, <3>2, <3>3 DEF OutcomeInv, Waiting, Before
  <2> QED BY <2>1, <2>2, <2>3
<1>20. ASSUME NEW f \in wire, AcceptRespond(f), RespondNext(f) PROVE OutcomeInv'
  <2>1. \/ Pending' = Pending /\ resp' = resp
        \/ /\ f.req \in Pending /\ Pending' = Pending \ {f.req}
           /\ \E x : resp' = [resp EXCEPT ![f.req] = Append(resp[f.req], x)]
    BY <1>20, RespondEffect
  <2>2. CASE Pending' = Pending /\ resp' = resp
    BY <1>20, <2>2 DEF AcceptRespond, sessionVars, OutcomeInv, Waiting
  <2>3. CASE /\ f.req \in Pending /\ Pending' = Pending \ {f.req}
             /\ \E x : resp' = [resp EXCEPT ![f.req] = Append(resp[f.req], x)]

    <3>1. UNCHANGED << caller, gone, session >> /\ f.req \in Reqs
      BY <1>20 DEF AcceptRespond, sessionVars, TypeInv
    <3>2. resp[f.req] = << >> /\ resp'[f.req] # << >> /\ f.req \notin gone /\ \E x : resp'[f.req] = << x >>
      BY <2>3, <3>1, OneElement DEF OutcomeInv, TypeInv
    <3>3. \A q \in Reqs : q # f.req => resp'[q] = resp[q]
      BY <2>3 DEF TypeInv
    <3> QED BY <2>3, <3>1, <3>2, <3>3 DEF OutcomeInv, Waiting, Before
  <2> QED BY <2>1, <2>2, <2>3
<1>21. ASSUME NEW s \in 1 .. last, Finish(s) PROVE OutcomeInv'
  <2>1. UNCHANGED << caller, Pending, resp, gone, session >>
    BY <1>21 DEF Finish, dispatchVars, sessionVars, downVars, Pending
  <2> QED BY <2>1 DEF OutcomeInv, Waiting
<1>22. ASSUME NEW s \in 1 .. last, Detach(s) PROVE OutcomeInv'
  <2>1. UNCHANGED << caller, resp >> /\ Pending' = {} /\ gone' = gone \cup Pending
    BY <1>22 DEF Detach, FailPending, Pending
  <2> QED BY <2>1 DEF OutcomeInv, Waiting, Before
<1>23. ASSUME AttachResume PROVE OutcomeInv'
  <2>1. UNCHANGED << caller, Pending, resp, gone >> /\ session' # None
    BY <1>23 DEF AttachResume, dispatchVars, Pending, TypeInv, None
  <2> QED BY <2>1 DEF OutcomeInv, Waiting
<1>24. ASSUME AttachNewEpoch PROVE OutcomeInv'
  <2>1. UNCHANGED << caller, resp >> /\ Pending' = {} /\ gone' = gone \cup Pending
    BY <1>24 DEF AttachNewEpoch, Pending
  <2> QED BY <2>1 DEF OutcomeInv, Waiting, Before
<1>25. ASSUME ExpireTombstone PROVE OutcomeInv'
  <2>1. UNCHANGED << caller, Pending, resp, gone, session >>
    BY <1>25 DEF ExpireTombstone, dispatchVars, sessionVars, downVars, Pending
  <2> QED BY <2>1 DEF OutcomeInv, Waiting
<1>26. CASE UNCHANGED vars
  BY <1>26 DEF vars, OutcomeInv, Waiting, Pending, dispatchVars, sessionVars
<1> QED
  BY <1>1, <1>2, <1>3, <1>4, <1>5, <1>6, <1>7, <1>8, <1>9, <1>10, <1>11, <1>12, <1>13,
     <1>14, <1>15, <1>16, <1>17, <1>18, <1>19, <1>20, <1>21, <1>22, <1>23, <1>24,
     <1>25, <1>26 DEF Next, Dispatch, AcceptRespond

\* Every step keeps what has been sent so.
LEMMA LoggedStep ==
  ASSUME TypeInv, LoggedInv, [Next]_vars
  PROVE  LoggedInv'
<1>1. ASSUME NEW r \in Reqs, LookUp(r) PROVE LoggedInv'
  <2>1. UNCHANGED << downLog, reqAcks, expired, host, wire >>
    BY <1>1 DEF LookUp, Return, Caller, dispatchVars, sessionVars, downVars
  <2>2. \A q \in Reqs : caller'[q].pc \in Before \cup {"send"} => caller[q].pc \in Before \cup {"send"}
    BY <1>1 DEF LookUp, Return, Caller, dispatchVars, sessionVars, downVars, TypeInv, Before
  <2> QED BY <2>1, <2>2 DEF LoggedInv
<1>2. ASSUME NEW r \in Reqs, PreflightFails(r) PROVE LoggedInv'
  <2>1. UNCHANGED << downLog, reqAcks, expired, host, wire >>
    BY <1>2 DEF PreflightFails, Return, Caller, dispatchVars, sessionVars, downVars
  <2>2. \A q \in Reqs : caller'[q].pc \in Before \cup {"send"} => caller[q].pc \in Before \cup {"send"}
    BY <1>2 DEF PreflightFails, Return, Caller, dispatchVars, sessionVars, downVars, TypeInv, Before
  <2> QED BY <2>1, <2>2 DEF LoggedInv
<1>3. ASSUME NEW r \in Reqs, Register(r) PROVE LoggedInv'
  <2>1. UNCHANGED << downLog, reqAcks, expired, host, wire >>
    BY <1>3 DEF Register, Advance, WithPending, NoPending, Pending, dispatchVars, sessionVars, downVars
  <2>2. \A q \in Reqs : caller'[q].pc \in Before \cup {"send"} => caller[q].pc \in Before \cup {"send"}
    BY <1>3 DEF Register, Advance, WithPending, NoPending, Pending, dispatchVars, sessionVars, downVars, TypeInv, Before
  <2> QED BY <2>1, <2>2 DEF LoggedInv
<1>4. ASSUME NEW r \in Reqs, RegisterRefused(r) PROVE LoggedInv'
  <2>1. UNCHANGED << downLog, reqAcks, expired, host, wire >>
    BY <1>4 DEF RegisterRefused, Return, Caller, dispatchVars, sessionVars, downVars
  <2>2. \A q \in Reqs : caller'[q].pc \in Before \cup {"send"} => caller[q].pc \in Before \cup {"send"}
    BY <1>4 DEF RegisterRefused, Return, Caller, dispatchVars, sessionVars, downVars, TypeInv, Before
  <2> QED BY <2>1, <2>2 DEF LoggedInv
<1>5. ASSUME NEW r \in Reqs, Send(r) PROVE LoggedInv'
  <2>1. UNCHANGED << expired, host, wire >>
    BY <1>5 DEF Send, LogRequest, Advance, dispatchVars, sessionVars, downVars
  <2>2. caller'[r].pc \notin Before \cup {"send"} /\ \A q \in Reqs : q # r => caller'[q] = caller[q]
    BY <1>5 DEF Send, LogRequest, Advance, dispatchVars, sessionVars, downVars, TypeInv, Before
  <2>3. \/ downLog' = downLog /\ reqAcks' = reqAcks
        \/ downLog' = downLog \cup {r} /\ reqAcks' = reqAcks \cup {r}
    BY <1>5 DEF Send, LogRequest, Advance, dispatchVars, sessionVars, downVars
  <2>4. caller[r].pc = "send"
    BY <1>5 DEF Send, LogRequest, Advance, dispatchVars, sessionVars, downVars
  <2> QED BY <2>1, <2>2, <2>3, <2>4 DEF LoggedInv
<1>6. ASSUME NEW r \in Reqs, SendFails(r) PROVE LoggedInv'
  <2>1. UNCHANGED << expired, host, wire >>
    BY <1>6 DEF SendFails, LogRequest, DropPending, Return, Caller, dispatchVars, sessionVars, downVars
  <2>2. caller'[r].pc \notin Before \cup {"send"} /\ \A q \in Reqs : q # r => caller'[q] = caller[q]
    BY <1>6 DEF SendFails, LogRequest, DropPending, Return, Caller, dispatchVars, sessionVars, downVars, TypeInv, Before
  <2>3. \/ downLog' = downLog /\ reqAcks' = reqAcks
        \/ downLog' = downLog \cup {r} /\ reqAcks' = reqAcks \cup {r}
    BY <1>6 DEF SendFails, LogRequest, DropPending, Return, Caller, dispatchVars, sessionVars, downVars
  <2>4. caller[r].pc = "send"
    BY <1>6 DEF SendFails, LogRequest, DropPending, Return, Caller, dispatchVars, sessionVars, downVars
  <2> QED BY <2>1, <2>2, <2>3, <2>4 DEF LoggedInv
<1>7. ASSUME NEW r \in Reqs, Check(r) PROVE LoggedInv'
  <2>1. UNCHANGED << downLog, reqAcks, expired, host, wire >>
    BY <1>7 DEF Check, TakeResponse, Advance, dispatchVars, sessionVars, downVars
  <2>2. \A q \in Reqs : caller'[q].pc \in Before \cup {"send"} => caller[q].pc \in Before \cup {"send"}
    BY <1>7 DEF Check, TakeResponse, Advance, dispatchVars, sessionVars, downVars, TypeInv, Before
  <2> QED BY <2>1, <2>2 DEF LoggedInv
<1>8. ASSUME NEW r \in Reqs, WaitResponse(r) PROVE LoggedInv'
  <2>1. UNCHANGED << downLog, reqAcks, expired, host, wire >>
    BY <1>8 DEF WaitResponse, TakeResponse, dispatchVars, sessionVars, downVars
  <2>2. \A q \in Reqs : caller'[q].pc \in Before \cup {"send"} => caller[q].pc \in Before \cup {"send"}
    BY <1>8 DEF WaitResponse, TakeResponse, dispatchVars, sessionVars, downVars, TypeInv, Before
  <2> QED BY <2>1, <2>2 DEF LoggedInv
<1>9. ASSUME NEW r \in Reqs, WaitGone(r) PROVE LoggedInv'
  <2>1. UNCHANGED << downLog, reqAcks, expired, host, wire >>
    BY <1>9 DEF WaitGone, Return, Caller, dispatchVars, sessionVars, downVars
  <2>2. \A q \in Reqs : caller'[q].pc \in Before \cup {"send"} => caller[q].pc \in Before \cup {"send"}
    BY <1>9 DEF WaitGone, Return, Caller, dispatchVars, sessionVars, downVars, TypeInv, Before
  <2> QED BY <2>1, <2>2 DEF LoggedInv
<1>10. ASSUME NEW r \in Reqs, WaitGivesUp(r) PROVE LoggedInv'
  <2>1. UNCHANGED << downLog, reqAcks, expired, host, wire >>
    BY <1>10 DEF WaitGivesUp, DropPending, Return, Caller, dispatchVars, sessionVars, downVars
  <2>2. \A q \in Reqs : caller'[q].pc \in Before \cup {"send"} => caller[q].pc \in Before \cup {"send"}
    BY <1>10 DEF WaitGivesUp, DropPending, Return, Caller, dispatchVars, sessionVars, downVars, TypeInv, Before
  <2> QED BY <2>1, <2>2 DEF LoggedInv
<1>11. ASSUME NEW r \in Reqs, ExpireRequest(r) PROVE LoggedInv'
  BY <1>11 DEF ExpireRequest, dispatchVars, sessionVars, downVars, LoggedInv
<1>12. ASSUME NEW r \in Reqs, FailExpired(r) PROVE LoggedInv'
  BY <1>12 DEF FailExpired, FailRequest, dispatchVars, sessionVars, downVars, LoggedInv
<1>13. ASSUME NEW r \in Reqs, AckRequest(r) PROVE LoggedInv'
  BY <1>13 DEF AckRequest, dispatchVars, sessionVars, downVars, LoggedInv
<1>14. ASSUME NEW r \in Reqs, HostRuns(r) PROVE LoggedInv'
  <2>1. UNCHANGED << caller, downLog, reqAcks, expired, wire >> /\ r \in downLog /\ host[r] = Unknown
    BY <1>14 DEF HostRuns, dispatchVars, sessionVars, downVars
  <2>2. \A q \in Reqs : q # r => host'[q] = host[q]
    BY <1>14 DEF HostRuns, TypeInv
  <2>3. downLog \subseteq Reqs
    BY DEF TypeInv
  <2> QED BY <2>1, <2>2, <2>3 DEF LoggedInv
<1>15. ASSUME NEW r \in Reqs, HostSends(r) PROVE LoggedInv'
  <2>1. UNCHANGED << caller, downLog, reqAcks, expired, host >> /\ host[r] # Unknown
    BY <1>15 DEF HostSends, Frame, dispatchVars, sessionVars, downVars, Unknown
  <2>2. \A f \in wire' : f \in wire \/ f.req = r
    BY <1>15 DEF HostSends, Frame
  <2> QED BY <2>1, <2>2 DEF LoggedInv
<1>16. ASSUME NEW r \in Reqs, HostForgets(r) PROVE LoggedInv'
  <2>1. UNCHANGED << caller, downLog, reqAcks, expired, wire >> /\ host[r] # Unknown /\ host'[r] # Unknown
    BY <1>16 DEF HostForgets, dispatchVars, sessionVars, downVars, Unknown, TypeInv
  <2>2. \A q \in Reqs : q # r => host'[q] = host[q]
    BY <1>16 DEF HostForgets, TypeInv
  <2> QED BY <2>1, <2>2 DEF LoggedInv, TypeInv
<1>17. ASSUME NEW f \in wire, AcceptRespond(f), RespondLate(f) PROVE LoggedInv'
  <2>1. UNCHANGED << downLog, reqAcks, expired, host, wire >>
    BY <1>17 DEF AcceptRespond, RespondLate, dispatchVars, sessionVars, downVars
  <2>2. \A q \in Reqs : caller'[q].pc \in Before \cup {"send"} => caller[q].pc \in Before \cup {"send"}
    BY <1>17 DEF AcceptRespond, RespondLate, dispatchVars, sessionVars, downVars, TypeInv, Before
  <2> QED BY <2>1, <2>2 DEF LoggedInv
<1>18. ASSUME NEW f \in wire, AcceptRespond(f), RespondDuplicate(f) PROVE LoggedInv'
  <2>1. UNCHANGED << downLog, reqAcks, expired, host, wire >>
    BY <1>18 DEF AcceptRespond, RespondDuplicate, dispatchVars, sessionVars, downVars
  <2>2. \A q \in Reqs : caller'[q].pc \in Before \cup {"send"} => caller[q].pc \in Before \cup {"send"}
    BY <1>18 DEF AcceptRespond, RespondDuplicate, dispatchVars, sessionVars, downVars, TypeInv, Before
  <2> QED BY <2>1, <2>2 DEF LoggedInv
<1>19. ASSUME NEW f \in wire, AcceptRespond(f), RespondGap(f) PROVE LoggedInv'
  <2>1. UNCHANGED << downLog, reqAcks, expired, host, wire >>
    BY <1>19 DEF AcceptRespond, RespondGap, FailRequest, dispatchVars, sessionVars, downVars
  <2>2. \A q \in Reqs : caller'[q].pc \in Before \cup {"send"} => caller[q].pc \in Before \cup {"send"}
    BY <1>19 DEF AcceptRespond, RespondGap, FailRequest, dispatchVars, sessionVars, downVars, TypeInv, Before
  <2> QED BY <2>1, <2>2 DEF LoggedInv
<1>20. ASSUME NEW f \in wire, AcceptRespond(f), RespondNext(f) PROVE LoggedInv'
  <2>1. UNCHANGED << downLog, reqAcks, expired, host, wire >>
    BY <1>20 DEF AcceptRespond, RespondNext, FailRequest, dispatchVars, sessionVars, downVars
  <2>2. \A q \in Reqs : caller'[q].pc \in Before \cup {"send"} => caller[q].pc \in Before \cup {"send"}
    BY <1>20 DEF AcceptRespond, RespondNext, FailRequest, dispatchVars, sessionVars, downVars, TypeInv, Before
  <2> QED BY <2>1, <2>2 DEF LoggedInv
<1>21. ASSUME NEW s \in 1 .. last, Finish(s) PROVE LoggedInv'
  BY <1>21 DEF Finish, dispatchVars, sessionVars, downVars, LoggedInv
<1>22. ASSUME NEW s \in 1 .. last, Detach(s) PROVE LoggedInv'
  BY <1>22 DEF Detach, FailPending, dispatchVars, sessionVars, downVars, LoggedInv
<1>23. ASSUME AttachResume PROVE LoggedInv'
  BY <1>23 DEF AttachResume, dispatchVars, sessionVars, downVars, LoggedInv
<1>24. ASSUME AttachNewEpoch PROVE LoggedInv'
  BY <1>24 DEF AttachNewEpoch, dispatchVars, sessionVars, downVars, LoggedInv, TypeInv
<1>25. ASSUME ExpireTombstone PROVE LoggedInv'
  <2>1. UNCHANGED << downLog, reqAcks, expired, host, wire >>
    BY <1>25 DEF ExpireTombstone, dispatchVars, sessionVars, downVars
  <2>2. \A q \in Reqs : caller'[q].pc \in Before \cup {"send"} => caller[q].pc \in Before \cup {"send"}
    BY <1>25 DEF ExpireTombstone, dispatchVars, sessionVars, downVars, TypeInv, Before
  <2> QED BY <2>1, <2>2 DEF LoggedInv
<1>26. CASE UNCHANGED vars
  BY <1>26 DEF vars, LoggedInv, dispatchVars, downVars
<1> QED
  BY <1>1, <1>2, <1>3, <1>4, <1>5, <1>6, <1>7, <1>8, <1>9, <1>10, <1>11, <1>12, <1>13,
     <1>14, <1>15, <1>16, <1>17, <1>18, <1>19, <1>20, <1>21, <1>22, <1>23, <1>24,
     <1>25, <1>26 DEF Next, Dispatch, AcceptRespond

-----------------------------------------------------------------------------
(* What the operations on tombstones return. *)

\* A sequence without its i-th element.
LEMMA RemoveAtProperties ==
  ASSUME NEW S, NEW s \in Seq(S), NEW i \in 1 .. Len(s)
  PROVE  /\ RemoveAt(s, i) \in Seq(S) /\ Len(RemoveAt(s, i)) = Len(s) - 1
         /\ \A j \in 1 .. Len(s) - 1 : RemoveAt(s, i)[j] = IF j < i THEN s[j] ELSE s[j + 1]
<1> DEFINE a == SubSeq(s, 1, i - 1)
           b == SubSeq(s, i + 1, Len(s))
<1>1. a \in Seq(S) /\ Len(a) = i - 1 /\ \A j \in 1 .. i - 1 : a[j] = s[j]
  OBVIOUS
<1>2. b \in Seq(S) /\ Len(b) = Len(s) - i /\ \A j \in 1 .. Len(s) - i : b[j] = s[j + i]
  OBVIOUS
<1>3. RemoveAt(s, i) = a \o b
  BY DEF RemoveAt
<1> HIDE DEF a, b
<1>4. RemoveAt(s, i) \in Seq(S) /\ Len(RemoveAt(s, i)) = Len(s) - 1
  BY <1>1, <1>2, <1>3
<1>5. ASSUME NEW j \in 1 .. Len(s) - 1, j < i PROVE RemoveAt(s, i)[j] = s[j]
  BY <1>1, <1>2, <1>3, <1>5
<1>6. ASSUME NEW j \in 1 .. Len(s) - 1, ~(j < i) PROVE RemoveAt(s, i)[j] = s[j + 1]
  <2>1. (a \o b)[j] = b[j - Len(a)]
    BY <1>1, <1>2, <1>6, ConcatProperties
  <2>2. j - Len(a) = j + 1 - i /\ j + 1 - i \in 1 .. Len(s) - i
    BY <1>1, <1>6
  <2>3. b[j + 1 - i] = s[j + 1]
    BY <1>2, <2>2
  <2> QED BY <1>3, <2>1, <2>2, <2>3
<1> QED BY <1>4, <1>5, <1>6

\* Evicting the oldest entries leaves distinct entries of the table.
LEMMA NewestProperties ==
  ASSUME NEW ts \in Seq(Tombstones), Distinct(ts)
  PROVE  /\ Newest(ts) \in Seq(Tombstones) /\ Distinct(Newest(ts))
         /\ \A i \in DOMAIN Newest(ts) : Among(ts, Newest(ts)[i])
<1>0. MaxTombstones \in Nat \ {0} /\ Len(ts) \in Nat
  BY RelayAssumption
<1>1. CASE Len(ts) > MaxTombstones
  <2> DEFINE off == Len(ts) - MaxTombstones
             new == Newest(ts)
  <2>1. new = SubSeq(ts, off + 1, Len(ts))
    BY <1>1 DEF Newest
  <2>2. off \in Nat /\ off + 1 \in 1 .. Len(ts)
    BY <1>0, <1>1
  <2>3. new \in Seq(Tombstones) /\ Len(new) = Len(ts) - off
    BY <1>0, <2>1, <2>2
  <2>4. \A i \in 1 .. Len(new) : i + off \in DOMAIN ts /\ new[i] = ts[i + off]
    BY <1>0, <2>1, <2>2, <2>3
  <2> HIDE DEF new
  <2>5. DOMAIN new = 1 .. Len(new) /\ Len(new) \in Nat
    BY <2>3
  <2>6. Distinct(new)
    <3> SUFFICES ASSUME NEW i \in DOMAIN new, NEW j \in DOMAIN new, new[i].req = new[j].req PROVE i = j
      BY DEF Distinct
    <3>1. i + off = j + off
      BY <2>4, <2>5 DEF Distinct
    <3> QED BY <2>2, <2>5, <3>1
  <2>7. \A i \in DOMAIN new : Among(ts, new[i])
    BY <2>4, <2>5 DEF Among
  <2> QED BY <2>3, <2>6, <2>7 DEF new
<1>2. CASE ~(Len(ts) > MaxTombstones)
  BY <1>2 DEF Newest, Among
<1> QED BY <1>1, <1>2

\* The table without the entry of one request.
LEMMA WithoutEntry ==
  ASSUME NEW ts \in Seq(Tombstones), Distinct(ts), NEW k \in DOMAIN ts
  PROVE  /\ RemoveAt(ts, k) \in Seq(Tombstones) /\ Distinct(RemoveAt(ts, k))
         /\ \A i \in DOMAIN RemoveAt(ts, k) : Among(ts, RemoveAt(ts, k)[i]) /\ RemoveAt(ts, k)[i].req # ts[k].req
<1> DEFINE new == RemoveAt(ts, k)
           At(i) == IF i < k THEN i ELSE i + 1
<1>1. DOMAIN ts = 1 .. Len(ts) /\ Len(ts) \in Nat
  OBVIOUS
<1>2. /\ new \in Seq(Tombstones) /\ Len(new) = Len(ts) - 1
      /\ \A i \in 1 .. Len(ts) - 1 : new[i] = IF i < k THEN ts[i] ELSE ts[i + 1]
  BY <1>1, RemoveAtProperties
<1> HIDE DEF new
<1>3. DOMAIN new = 1 .. Len(ts) - 1
  BY <1>2
<1>4. \A i \in DOMAIN new : At(i) \in DOMAIN ts /\ At(i) # k /\ new[i] = ts[At(i)]
  BY <1>1, <1>2, <1>3
<1>5. Distinct(new)
  <2> SUFFICES ASSUME NEW i \in DOMAIN new, NEW j \in DOMAIN new, new[i].req = new[j].req PROVE i = j
    BY DEF Distinct
  <2>1. At(i) = At(j)
    BY <1>4 DEF Distinct
  <2> QED BY <1>1, <1>3, <2>1
<1>6. \A i \in DOMAIN new : Among(ts, new[i]) /\ new[i].req # ts[k].req
  <2> SUFFICES ASSUME NEW i \in DOMAIN new PROVE Among(ts, new[i]) /\ new[i].req # ts[k].req
    OBVIOUS
  <2>1. At(i) \in DOMAIN ts /\ At(i) # k /\ new[i] = ts[At(i)]
    BY <1>4
  <2> HIDE DEF At
  <2> QED BY <2>1 DEF Among, Distinct
<1> QED BY <1>2, <1>5, <1>6 DEF new

\* A table with an entry appended for a request that has none.
LEMMA EntryAppended ==
  ASSUME NEW ts \in Seq(Tombstones), Distinct(ts), NEW t \in Tombstones, \A i \in DOMAIN ts : ts[i].req # t.req
  PROVE  /\ Append(ts, t) \in Seq(Tombstones) /\ Distinct(Append(ts, t))
         /\ \A i \in DOMAIN Append(ts, t) : Append(ts, t)[i] = t \/ Among(ts, Append(ts, t)[i])
<1> DEFINE new == Append(ts, t)
           n == Len(ts)
<1>1. n \in Nat /\ DOMAIN ts = 1 .. n
  OBVIOUS
<1>2. new \in Seq(Tombstones) /\ DOMAIN new = 1 .. n + 1 /\ new[n + 1] = t /\ \A i \in 1 .. n : new[i] = ts[i]
  BY <1>1, AppendProperties
<1> HIDE DEF new, n
<1>3. Distinct(new)
  BY <1>1, <1>2 DEF Distinct
<1>4. \A i \in DOMAIN new : new[i] = t \/ Among(ts, new[i])
  BY <1>1, <1>2 DEF Among
<1> QED BY <1>2, <1>3, <1>4 DEF new

\* addRelayTombstoneLocked: one entry per request still, the new one or one of
\* another request.
LEMMA AddTombstoneProperties ==
  ASSUME NEW ts \in Seq(Tombstones), Distinct(ts), NEW r \in Reqs, NEW d \in BOOLEAN
  PROVE  LET new == AddTombstone(ts, r, d)
         IN  /\ new \in Seq(Tombstones) /\ Distinct(new)
             /\ \A i \in DOMAIN new : new[i] = Tombstone(r, d) \/ Among(ts, new[i])
<1> DEFINE old == {i \in DOMAIN ts : ts[i].req = r}
           k == CHOOSE i \in old : TRUE
           kept == IF old = {} THEN ts ELSE RemoveAt(ts, k)
           t == Tombstone(r, d)
           all == Append(kept, t)
<1>1. t \in Tombstones /\ t.req = r
  BY DEF Tombstone, Tombstones
<1>2. /\ kept \in Seq(Tombstones) /\ Distinct(kept)
      /\ \A i \in DOMAIN kept : Among(ts, kept[i]) /\ kept[i].req # r
  <2>1. CASE old = {}
    BY <2>1 DEF Among
  <2>2. CASE old # {}
    <3>1. k \in DOMAIN ts /\ ts[k].req = r
      BY <2>2
    <3> HIDE DEF k
    <3> QED BY <2>2, <3>1, WithoutEntry
  <2> QED BY <2>1, <2>2
<1> HIDE DEF kept, t
<1>3. /\ all \in Seq(Tombstones) /\ Distinct(all)
      /\ \A i \in DOMAIN all : all[i] = t \/ Among(kept, all[i])
  BY <1>1, <1>2, EntryAppended
<1>4. \A x : Among(kept, x) => Among(ts, x)
  BY <1>2 DEF Among
<1> HIDE DEF all
<1>5. /\ Newest(all) \in Seq(Tombstones) /\ Distinct(Newest(all))
      /\ \A i \in DOMAIN Newest(all) : Among(all, Newest(all)[i])
  BY <1>3, NewestProperties
<1>6. \A x : Among(all, x) => x = t \/ Among(ts, x)
  BY <1>3, <1>4 DEF Among
<1>7. AddTombstone(ts, r, d) = Newest(all)
  BY DEF AddTombstone, all, kept, t
<1> QED BY <1>5, <1>6, <1>7 DEF t

\* failPendingLocked: the entries there were and aborts of the pending requests.
LEMMA FailPendingProperties ==
  ASSUME TypeInv, TombInv, FailPending
  PROVE  /\ tombs' \in Seq(Tombstones) /\ Distinct(tombs')
         /\ \A i \in DOMAIN tombs' :
               \/ Among(tombs, tombs'[i])
               \/ \E r \in Pending : tombs'[i] = Tombstone(r, FALSE)
<1>1. PICK order \in SetToSeqs(Pending) :
          tombs' = Newest(tombs \o [i \in DOMAIN order |-> Tombstone(order[i], FALSE)])
  BY DEF FailPending
<1> DEFINE m == Cardinality(Pending)
           n == Len(tombs)
           aborts == [i \in DOMAIN order |-> Tombstone(order[i], FALSE)]
           all == tombs \o aborts
<1>2. m \in Nat /\ n \in Nat /\ DOMAIN tombs = 1 .. n
  BY FS_CardinalityType DEF TypeInv, TombInv
<1>3. DOMAIN order = 1 .. m /\ (\A i \in 1 .. m : order[i] \in Pending) /\ \A i, j \in 1 .. m : i # j => order[i] # order[j]
  BY <1>1 DEF SetToSeqs
<1>4. \A r \in Pending : Tombstone(r, FALSE) \in Tombstones /\ Tombstone(r, FALSE).req = r
  BY DEF Tombstone, Tombstones, TypeInv
<1>5. aborts \in Seq(Tombstones) /\ Len(aborts) = m /\ \A i \in 1 .. m : aborts[i] = Tombstone(order[i], FALSE)
  <2>1. aborts \in [1 .. m -> Tombstones]
    BY <1>3, <1>4
  <2>2. \A i \in 1 .. m : aborts[i] = Tombstone(order[i], FALSE)
    BY <1>3
  <2> HIDE DEF aborts, m
  <2>3. aborts \in Seq(Tombstones)
    BY <1>2, <2>1, SeqDef
  <2>4. Len(aborts) = m
    BY <1>2, <2>1, <2>3, LenProperties
  <2> QED BY <2>2, <2>3, <2>4
<1> HIDE DEF aborts, n, m
<1>6. /\ all \in Seq(Tombstones) /\ Len(all) = n + m
      /\ \A i \in 1 .. n + m : all[i] = IF i <= n THEN tombs[i] ELSE aborts[i - n]
  BY <1>2, <1>5, ConcatProperties DEF TombInv, n
<1> HIDE DEF all
<1>7. DOMAIN all = 1 .. n + m
  BY <1>2, <1>6
<1>8. \A i \in 1 .. n + m : i > n => all[i] = Tombstone(order[i - n], FALSE) /\ order[i - n] \in Pending
  <2> SUFFICES ASSUME NEW i \in 1 .. n + m, i > n
               PROVE  all[i] = Tombstone(order[i - n], FALSE) /\ order[i - n] \in Pending
    OBVIOUS
  <2>1. i - n \in 1 .. m /\ all[i] = aborts[i - n]
    BY <1>2, <1>6
  <2> QED BY <1>3, <1>5, <2>1
<1>9. \A i \in 1 .. n + m : i <= n => all[i] = tombs[i] /\ tombs[i].req \notin Pending
  BY <1>2, <1>6 DEF TombInv
<1>10. Distinct(all)
  <2> SUFFICES ASSUME NEW i \in 1 .. n + m, NEW j \in 1 .. n + m, all[i].req = all[j].req PROVE i = j
    BY <1>7 DEF Distinct
  <2>1. CASE i <= n /\ j <= n
    BY <1>2, <1>9, <2>1 DEF TombInv, Distinct
  <2>2. CASE i > n /\ j > n
    <3>1. order[i - n] = order[j - n]
      BY <1>4, <1>8, <2>2
    <3>2. i - n \in 1 .. m /\ j - n \in 1 .. m
      BY <1>2, <2>2
    <3>3. i - n = j - n
      BY <1>3, <3>1, <3>2
    <3> QED BY <1>2, <3>3
  <2>3. CASE ~(i <= n) /\ j <= n
    <3>1. i > n
      BY <1>2, <2>3
    <3>2. all[i].req \in Pending /\ all[j].req \notin Pending
      BY <1>4, <1>8, <1>9, <2>3, <3>1
    <3> QED BY <3>2
  <2>4. CASE i <= n /\ ~(j <= n)
    <3>1. j > n
      BY <1>2, <2>4
    <3>2. all[j].req \in Pending /\ all[i].req \notin Pending
      BY <1>4, <1>8, <1>9, <2>4, <3>1
    <3> QED BY <3>2
  <2> QED BY <1>2, <2>1, <2>2, <2>3, <2>4
<1>11. \A x : Among(all, x) => Among(tombs, x) \/ \E r \in Pending : x = Tombstone(r, FALSE)
  <2> SUFFICES ASSUME NEW i \in 1 .. n + m
               PROVE  Among(tombs, all[i]) \/ \E r \in Pending : all[i] = Tombstone(r, FALSE)
    BY <1>7 DEF Among
  <2>1. CASE i <= n
    <3>1. i \in DOMAIN tombs /\ all[i] = tombs[i]
      BY <1>2, <1>9, <2>1
    <3> QED BY <3>1 DEF Among
  <2>2. CASE ~(i <= n)
    <3>1. i > n
      BY <1>2, <2>2
    <3> QED BY <1>8, <3>1
  <2> QED BY <2>1, <2>2
<1>12. tombs' = Newest(all)
  BY <1>1 DEF all, aborts
<1> QED BY <1>6, <1>10, <1>11, <1>12, NewestProperties


-----------------------------------------------------------------------------
(* Verdicts are final. *)

\* A step that leaves the tombstones adds none.
LEMMA TombsKept == ASSUME TombInv, tombs' = tombs PROVE TombDelta
BY DEF TombInv, TombDelta, Among, Distinct

\* addAbortTombstoneLocked on a request that is no longer pending.
LEMMA AbortIsAdded ==
  ASSUME TombInv, NEW r \in Reqs, r \notin Pending', caller[r].pc \notin Before, tombs' = AddAbort(tombs, r)
  PROVE  TombDelta
<1>1. CASE Done(r)
  BY <1>1, TombsKept DEF AddAbort, Done
<1>2. CASE ~Done(r)
  <2>1. tombs' = AddTombstone(tombs, r, FALSE)
    BY <1>2 DEF AddAbort, Done
  <2>2. /\ tombs' \in Seq(Tombstones) /\ Distinct(tombs')
        /\ \A i \in DOMAIN tombs' : tombs'[i] = Tombstone(r, FALSE) \/ Among(tombs, tombs'[i])
    BY <2>1, AddTombstoneProperties DEF TombInv
  <2>3. AbortAdded(Tombstone(r, FALSE))
    BY <1>2 DEF AbortAdded, Tombstone
  <2>4. \A i \in DOMAIN tombs' : AbortAdded(tombs'[i]) \/ Among(tombs, tombs'[i])
    BY <2>2, <2>3
  <2> QED BY <2>2, <2>4 DEF TombDelta
<1> QED BY <1>1, <1>2

\* addDoneTombstoneLocked on a request that is answered.
LEMMA DoneIsAdded ==
  ASSUME TombInv, NEW r \in Reqs, r \in Pending, r \notin Pending', tombs' = AddTombstone(tombs, r, TRUE),
         \E b : resp' = [resp EXCEPT ![r] = Append(resp[r], Answer(b))]
  PROVE  TombDelta
<1>1. /\ tombs' \in Seq(Tombstones) /\ Distinct(tombs')
      /\ \A i \in DOMAIN tombs' : tombs'[i] = Tombstone(r, TRUE) \/ Among(tombs, tombs'[i])
  BY AddTombstoneProperties DEF TombInv
<1>2. Tombstone(r, TRUE).req = r
  BY DEF Tombstone
<1>3. DoneAdded(Tombstone(r, TRUE))
  BY <1>2 DEF DoneAdded
<1>4. \A i \in DOMAIN tombs' : DoneAdded(tombs'[i]) \/ Among(tombs, tombs'[i])
  BY <1>1, <1>3
<1> QED BY <1>1, <1>4 DEF TombDelta

\* A pending request is past its registration.
LEMMA PendingIsRegistered ==
  ASSUME OutcomeInv, NEW r \in Reqs, r \in Pending PROVE caller[r].pc \notin Before
BY DEF OutcomeInv, Before

\* How a chunk that is next may end its request.
LEMMA RespondNextEnds ==
  ASSUME NEW f, RespondNext(f)
  PROVE  \/ tombs' = tombs \/ FailRequest(f.req)
         \/ /\ pending' = WithoutPending({f.req}) /\ tombs' = AddTombstone(tombs, f.req, TRUE)
            /\ \E b : resp' = [resp EXCEPT ![f.req] = Append(resp[f.req], Answer(b))]
BY DEF RespondNext

\* failRelayRequestLocked adds an abort.
LEMMA FailedIsAborted ==
  ASSUME TypeInv, OutcomeInv, TombInv, NEW r \in Reqs, r \in Pending, FailRequest(r)
  PROVE  TombDelta
<1>0. DOMAIN pending' = Pending \ {r}
  BY PendingWithout DEF FailRequest
<1>1. r \notin Pending'
  BY <1>0 DEF Pending
<1>2. tombs' = AddAbort(tombs, r)
  BY DEF FailRequest
<1> QED BY <1>1, <1>2, AbortIsAdded, PendingIsRegistered

\* What every step does to the tombstones.
LEMMA TombChange ==
  ASSUME TypeInv, OutcomeInv, LoggedInv, TombInv, [Next]_vars
  PROVE  TombDelta
<1>1. ASSUME NEW r \in Reqs, LookUp(r) PROVE TombDelta
  BY <1>1, TombsKept DEF LookUp, Return, Caller, dispatchVars, sessionVars, downVars
<1>2. ASSUME NEW r \in Reqs, PreflightFails(r) PROVE TombDelta
  BY <1>2, TombsKept DEF PreflightFails, Return, Caller, dispatchVars, sessionVars, downVars
<1>3. ASSUME NEW r \in Reqs, Register(r) PROVE TombDelta
  BY <1>3, TombsKept DEF Register, Advance, WithPending, NoPending, Pending, dispatchVars, sessionVars, downVars
<1>4. ASSUME NEW r \in Reqs, RegisterRefused(r) PROVE TombDelta
  BY <1>4, TombsKept DEF RegisterRefused, Return, Caller, dispatchVars, sessionVars, downVars
<1>5. ASSUME NEW r \in Reqs, Send(r) PROVE TombDelta
  BY <1>5, TombsKept DEF Send, LogRequest, Advance, dispatchVars, sessionVars, downVars
<1>6. ASSUME NEW r \in Reqs, SendFails(r) PROVE TombDelta
  <2>1. CASE r \in Pending
    <3>0. pending' = WithoutPending({r}) /\ tombs' = AddAbort(tombs, r)
      BY <1>6, <2>1 DEF SendFails, DropPending
    <3>1. DOMAIN pending' = Pending \ {r}
      BY <3>0, PendingWithout
    <3>2. r \notin Pending'
      BY <3>1 DEF Pending
    <3> QED BY <2>1, <3>0, <3>2, AbortIsAdded, PendingIsRegistered
  <2>2. CASE r \notin Pending
    BY <1>6, <2>2, TombsKept DEF SendFails, DropPending
  <2> QED BY <2>1, <2>2
<1>7. ASSUME NEW r \in Reqs, Check(r) PROVE TombDelta
  BY <1>7, TombsKept DEF Check, TakeResponse, Advance, dispatchVars, sessionVars, downVars
<1>8. ASSUME NEW r \in Reqs, WaitResponse(r) PROVE TombDelta
  BY <1>8, TombsKept DEF WaitResponse, TakeResponse, dispatchVars, sessionVars, downVars
<1>9. ASSUME NEW r \in Reqs, WaitGone(r) PROVE TombDelta
  BY <1>9, TombsKept DEF WaitGone, Return, Caller, dispatchVars, sessionVars, downVars
<1>10. ASSUME NEW r \in Reqs, WaitGivesUp(r) PROVE TombDelta
  <2>1. CASE r \in Pending
    <3>0. pending' = WithoutPending({r}) /\ tombs' = AddAbort(tombs, r)
      BY <1>10, <2>1 DEF WaitGivesUp, DropPending
    <3>1. DOMAIN pending' = Pending \ {r}
      BY <3>0, PendingWithout
    <3>2. r \notin Pending'
      BY <3>1 DEF Pending
    <3> QED BY <2>1, <3>0, <3>2, AbortIsAdded, PendingIsRegistered
  <2>2. CASE r \notin Pending
    BY <1>10, <2>2, TombsKept DEF WaitGivesUp, DropPending
  <2> QED BY <2>1, <2>2
<1>11. ASSUME NEW r \in Reqs, ExpireRequest(r) PROVE TombDelta
  BY <1>11, TombsKept DEF ExpireRequest, dispatchVars, sessionVars, downVars
<1>12. ASSUME NEW r \in Reqs, FailExpired(r) PROVE TombDelta
  <2>1. CASE r \in Pending
    BY <1>12, <2>1, FailedIsAborted DEF FailExpired
  <2>2. CASE r \notin Pending
    BY <1>12, <2>2, TombsKept DEF FailExpired
  <2> QED BY <2>1, <2>2
<1>13. ASSUME NEW r \in Reqs, AckRequest(r) PROVE TombDelta
  BY <1>13, TombsKept DEF AckRequest, dispatchVars, sessionVars, downVars
<1>14. ASSUME NEW r \in Reqs, HostRuns(r) PROVE TombDelta
  BY <1>14, TombsKept DEF HostRuns, dispatchVars, sessionVars, downVars
<1>15. ASSUME NEW r \in Reqs, HostSends(r) PROVE TombDelta
  BY <1>15, TombsKept DEF HostSends, Frame, dispatchVars, sessionVars, downVars
<1>16. ASSUME NEW r \in Reqs, HostForgets(r) PROVE TombDelta
  BY <1>16, TombsKept DEF HostForgets, dispatchVars, sessionVars, downVars
<1>17. ASSUME NEW f \in wire, AcceptRespond(f), RespondLate(f) PROVE TombDelta
  <2>1. f.req \in Reqs /\ caller[f.req].pc \notin Before
    BY <1>17 DEF TypeInv, LoggedInv
  <2>2. f.req \notin Pending' /\ tombs' = AddAbort(tombs, f.req)
    BY <1>17 DEF RespondLate, Pending
  <2> QED BY <2>1, <2>2, AbortIsAdded
<1>18. ASSUME NEW f \in wire, AcceptRespond(f), RespondDuplicate(f) PROVE TombDelta
  BY <1>18, TombsKept DEF RespondDuplicate
<1>19. ASSUME NEW f \in wire, AcceptRespond(f), RespondGap(f) PROVE TombDelta
  <2>1. f.req \in Reqs /\ f.req \in Pending
    BY <1>19 DEF TypeInv, RespondGap
  <2>2. FailRequest(f.req) \/ tombs' = tombs
    BY <1>19 DEF RespondGap
  <2> QED BY <2>1, <2>2, FailedIsAborted, TombsKept
<1>20. ASSUME NEW f \in wire, AcceptRespond(f), RespondNext(f) PROVE TombDelta
  <2>1. f.req \in Reqs /\ f.req \in Pending
    BY <1>20 DEF TypeInv, RespondNext
  <2>2. CASE tombs' = tombs \/ FailRequest(f.req)
    BY <2>1, <2>2, FailedIsAborted, TombsKept
  <2>3. CASE /\ pending' = WithoutPending({f.req}) /\ tombs' = AddTombstone(tombs, f.req, TRUE)
             /\ \E b : resp' = [resp EXCEPT ![f.req] = Append(resp[f.req], Answer(b))]
    <3>1. f.req \notin Pending'
      BY <2>3, PendingWithout DEF Pending
    <3> QED BY <2>1, <2>3, <3>1, DoneIsAdded
  <2> QED BY <1>20, <2>2, <2>3, RespondNextEnds
<1>21. ASSUME NEW s \in 1 .. last, Finish(s) PROVE TombDelta
  BY <1>21, TombsKept DEF Finish, dispatchVars, sessionVars, downVars
<1>22. ASSUME NEW s \in 1 .. last, Detach(s) PROVE TombDelta
  <2>1. /\ tombs' \in Seq(Tombstones) /\ Distinct(tombs')
        /\ \A i \in DOMAIN tombs' :
              \/ Among(tombs, tombs'[i])
              \/ \E r \in Pending : tombs'[i] = Tombstone(r, FALSE)
    BY <1>22, FailPendingProperties DEF Detach
  <2>2. Pending' = {}
    BY <1>22 DEF Detach, FailPending, Pending
  <2>3. ASSUME NEW r \in Pending PROVE AbortAdded(Tombstone(r, FALSE))
    <3>1. r \in Reqs /\ caller[r].pc \notin Before
      BY PendingIsRegistered DEF TypeInv
    <3>2. ~Done(r)
      BY DEF TombInv, Done
    <3>3. Tombstone(r, FALSE).req = r
      BY DEF Tombstone
    <3> QED BY <2>2, <3>1, <3>2, <3>3 DEF AbortAdded
  <2>4. \A i \in DOMAIN tombs' : Among(tombs, tombs'[i]) \/ AbortAdded(tombs'[i])
    BY <2>1, <2>3
  <2> QED BY <2>1, <2>4 DEF TombDelta
<1>23. ASSUME AttachResume PROVE TombDelta
  BY <1>23, TombsKept DEF AttachResume, dispatchVars, sessionVars, downVars
<1>24. ASSUME AttachNewEpoch PROVE TombDelta
  <2>1. tombs' = << >>
    BY <1>24 DEF AttachNewEpoch
  <2> QED BY <2>1, EmptySeq DEF TombDelta, Distinct
<1>25. ASSUME ExpireTombstone PROVE TombDelta
  <2> DEFINE n == Len(tombs)
  <2>1. tombs # << >> /\ tombs' = Tail(tombs)
    BY <1>25 DEF ExpireTombstone
  <2>2. n \in Nat \ {0} /\ DOMAIN tombs = 1 .. n
    BY <2>1 DEF TombInv
  <2>3. tombs' \in Seq(Tombstones) /\ DOMAIN tombs' = 1 .. n - 1 /\ \A i \in 1 .. n - 1 : tombs'[i] = tombs[i + 1]
    BY <2>1, <2>2 DEF TombInv
  <2> HIDE DEF n
  <2>4. \A i \in 1 .. n - 1 : i + 1 \in DOMAIN tombs
    BY <2>2
  <2>5. Distinct(tombs')
    <3> SUFFICES ASSUME NEW i \in 1 .. n - 1, NEW j \in 1 .. n - 1, tombs'[i].req = tombs'[j].req PROVE i = j
      BY <2>3 DEF Distinct
    <3>1. i + 1 = j + 1
      BY <2>3, <2>4 DEF TombInv, Distinct
    <3> QED BY <2>2, <3>1
  <2>6. \A i \in DOMAIN tombs' : Among(tombs, tombs'[i])
    BY <2>3, <2>4 DEF Among
  <2> QED BY <2>3, <2>5, <2>6 DEF TombDelta
<1>26. CASE UNCHANGED vars
  BY <1>26, TombsKept DEF vars, dispatchVars
<1> QED
  BY <1>1, <1>2, <1>3, <1>4, <1>5, <1>6, <1>7, <1>8, <1>9, <1>10, <1>11, <1>12, <1>13,
     <1>14, <1>15, <1>16, <1>17, <1>18, <1>19, <1>20, <1>21, <1>22, <1>23, <1>24,
     <1>25, <1>26 DEF Next, Dispatch, AcceptRespond

\* Every step stays within its bounds.
LEMMA StepIsBounded ==
  ASSUME TypeInv, OutcomeInv, [Next]_vars
  PROVE  StepBound
<1>1. ASSUME NEW r \in Reqs, LookUp(r) PROVE StepBound
  <2>1. UNCHANGED << Pending, resp, gone, host >>
    BY <1>1 DEF LookUp, Return, Caller, dispatchVars, sessionVars, downVars, Pending
  <2>2. \A q \in Reqs : caller'[q].pc \in Before => caller[q].pc \in Before
    BY <1>1 DEF LookUp, Return, Caller, dispatchVars, sessionVars, downVars, TypeInv, Before
  <2> QED BY <2>1, <2>2 DEF StepBound
<1>2. ASSUME NEW r \in Reqs, PreflightFails(r) PROVE StepBound
  <2>1. UNCHANGED << Pending, resp, gone, host >>
    BY <1>2 DEF PreflightFails, Return, Caller, dispatchVars, sessionVars, downVars, Pending
  <2>2. \A q \in Reqs : caller'[q].pc \in Before => caller[q].pc \in Before
    BY <1>2 DEF PreflightFails, Return, Caller, dispatchVars, sessionVars, downVars, TypeInv, Before
  <2> QED BY <2>1, <2>2 DEF StepBound
<1>3. ASSUME NEW r \in Reqs, Register(r) PROVE StepBound
  <2>1. UNCHANGED << resp, gone, host >> /\ caller[r].pc = "preflight"
    BY <1>3 DEF Register
  <2>2. \A q \in Reqs : caller'[q].pc \in Before => caller[q].pc \in Before
    BY <1>3 DEF Register, Advance, TypeInv, Before
  <2>3. DOMAIN pending' = Pending \cup {r}
    BY <1>3, PendingWith DEF Register
  <2> QED BY <2>1, <2>2, <2>3 DEF StepBound, Pending
<1>4. ASSUME NEW r \in Reqs, RegisterRefused(r) PROVE StepBound
  <2>1. UNCHANGED << Pending, resp, gone, host >>
    BY <1>4 DEF RegisterRefused, Return, Caller, dispatchVars, sessionVars, downVars, Pending
  <2>2. \A q \in Reqs : caller'[q].pc \in Before => caller[q].pc \in Before
    BY <1>4 DEF RegisterRefused, Return, Caller, dispatchVars, sessionVars, downVars, TypeInv, Before
  <2> QED BY <2>1, <2>2 DEF StepBound
<1>5. ASSUME NEW r \in Reqs, Send(r) PROVE StepBound
  <2>1. UNCHANGED << Pending, resp, gone, host >>
    BY <1>5 DEF Send, LogRequest, Advance, dispatchVars, sessionVars, downVars, Pending
  <2>2. \A q \in Reqs : caller'[q].pc \in Before => caller[q].pc \in Before
    BY <1>5 DEF Send, LogRequest, Advance, dispatchVars, sessionVars, downVars, TypeInv, Before
  <2> QED BY <2>1, <2>2 DEF StepBound
<1>6. ASSUME NEW r \in Reqs, SendFails(r) PROVE StepBound
  <2>1. UNCHANGED << resp, gone, host >>
    BY <1>6 DEF SendFails
  <2>2. DOMAIN pending' \in {Pending, Pending \ {r}}
    BY <1>6, PendingWithout DEF SendFails, DropPending, Pending
  <2>3. \A q \in Reqs : caller'[q].pc \in Before => caller[q].pc \in Before
    BY <1>6 DEF SendFails, Return, Caller, TypeInv, Before
  <2> QED BY <2>1, <2>2, <2>3 DEF StepBound, Pending
<1>7. ASSUME NEW r \in Reqs, Check(r) PROVE StepBound
  <2>1. UNCHANGED << Pending, gone, host >>
    BY <1>7 DEF Check, TakeResponse, Advance, dispatchVars, sessionVars, downVars, Pending
  <2>2. \A q \in Reqs : caller'[q].pc \in Before => caller[q].pc \in Before
    BY <1>7 DEF Check, TakeResponse, Advance, dispatchVars, sessionVars, downVars, TypeInv, Before
  <2>3. resp' = resp \/ (resp[r] # << >> /\ resp' = [resp EXCEPT ![r] = Tail(resp[r])])
    BY <1>7 DEF Check, TakeResponse, Advance, dispatchVars, sessionVars, downVars
  <2>4. resp[r] = << >> \/ \E x : resp[r] = << x >>
    BY DEF OutcomeInv
  <2>5. \A q \in Reqs : resp'[q] = resp[q] \/ resp'[q] = << >>
    BY <2>3, <2>4, OneElement DEF TypeInv
  <2> QED BY <2>1, <2>2, <2>5 DEF StepBound
<1>8. ASSUME NEW r \in Reqs, WaitResponse(r) PROVE StepBound
  <2>1. UNCHANGED << Pending, gone, host >>
    BY <1>8 DEF WaitResponse, TakeResponse, dispatchVars, sessionVars, downVars, Pending
  <2>2. \A q \in Reqs : caller'[q].pc \in Before => caller[q].pc \in Before
    BY <1>8 DEF WaitResponse, TakeResponse, dispatchVars, sessionVars, downVars, TypeInv, Before
  <2>3. resp' = resp \/ (resp[r] # << >> /\ resp' = [resp EXCEPT ![r] = Tail(resp[r])])
    BY <1>8 DEF WaitResponse, TakeResponse, dispatchVars, sessionVars, downVars
  <2>4. resp[r] = << >> \/ \E x : resp[r] = << x >>
    BY DEF OutcomeInv
  <2>5. \A q \in Reqs : resp'[q] = resp[q] \/ resp'[q] = << >>
    BY <2>3, <2>4, OneElement DEF TypeInv
  <2> QED BY <2>1, <2>2, <2>5 DEF StepBound
<1>9. ASSUME NEW r \in Reqs, WaitGone(r) PROVE StepBound
  <2>1. UNCHANGED << Pending, resp, gone, host >>
    BY <1>9 DEF WaitGone, Return, Caller, dispatchVars, sessionVars, downVars, Pending
  <2>2. \A q \in Reqs : caller'[q].pc \in Before => caller[q].pc \in Before
    BY <1>9 DEF WaitGone, Return, Caller, dispatchVars, sessionVars, downVars, TypeInv, Before
  <2> QED BY <2>1, <2>2 DEF StepBound
<1>10. ASSUME NEW r \in Reqs, WaitGivesUp(r) PROVE StepBound
  <2>1. UNCHANGED << resp, gone, host >>
    BY <1>10 DEF WaitGivesUp
  <2>2. DOMAIN pending' \in {Pending, Pending \ {r}}
    BY <1>10, PendingWithout DEF WaitGivesUp, DropPending, Pending
  <2>3. \A q \in Reqs : caller'[q].pc \in Before => caller[q].pc \in Before
    BY <1>10 DEF WaitGivesUp, Return, Caller, TypeInv, Before
  <2> QED BY <2>1, <2>2, <2>3 DEF StepBound, Pending
<1>11. ASSUME NEW r \in Reqs, ExpireRequest(r) PROVE StepBound
  <2>1. UNCHANGED << Pending, resp, gone, host >>
    BY <1>11 DEF ExpireRequest, dispatchVars, sessionVars, downVars, Pending
  <2>2. \A q \in Reqs : caller'[q].pc \in Before => caller[q].pc \in Before
    BY <1>11 DEF ExpireRequest, dispatchVars, sessionVars, downVars, TypeInv, Before
  <2> QED BY <2>1, <2>2 DEF StepBound
<1>12. ASSUME NEW r \in Reqs, FailExpired(r) PROVE StepBound
  <2>1. UNCHANGED << caller, gone, host >>
    BY <1>12 DEF FailExpired
  <2>2. CASE r \notin Pending
    <3>1. pending' = pending /\ resp' = resp
      BY <1>12, <2>2 DEF FailExpired
    <3> QED BY <2>1, <3>1 DEF StepBound, Pending
  <2>3. CASE r \in Pending
    <3>1. pending' = WithoutPending({r}) /\ resp' = [resp EXCEPT ![r] = Append(@, Failure)]
      BY <1>12, <2>3 DEF FailExpired, FailRequest
    <3>2. DOMAIN pending' = Pending \ {r}
      BY <3>1, PendingWithout
    <3>3. \A q \in Reqs : q # r => resp'[q] = resp[q]
      BY <3>1 DEF TypeInv
    <3> QED BY <2>1, <2>3, <3>2, <3>3 DEF StepBound, Pending
  <2> QED BY <2>2, <2>3
<1>13. ASSUME NEW r \in Reqs, AckRequest(r) PROVE StepBound
  <2>1. UNCHANGED << Pending, resp, gone, host >>
    BY <1>13 DEF AckRequest, dispatchVars, sessionVars, downVars, Pending
  <2>2. \A q \in Reqs : caller'[q].pc \in Before => caller[q].pc \in Before
    BY <1>13 DEF AckRequest, dispatchVars, sessionVars, downVars, TypeInv, Before
  <2> QED BY <2>1, <2>2 DEF StepBound
<1>14. ASSUME NEW r \in Reqs, HostRuns(r) PROVE StepBound
  <2>1. UNCHANGED << caller, Pending, resp, gone >>
    BY <1>14 DEF HostRuns, dispatchVars, sessionVars, downVars, Pending
  <2>2. \A q \in Reqs : host'[q].state = "forgot" => host[q].state = "forgot"
    BY <1>14 DEF HostRuns, TypeInv
  <2> QED BY <2>1, <2>2 DEF StepBound
<1>15. ASSUME NEW r \in Reqs, HostSends(r) PROVE StepBound
  <2>1. UNCHANGED << Pending, resp, gone, host >>
    BY <1>15 DEF HostSends, Frame, dispatchVars, sessionVars, downVars, Pending
  <2>2. \A q \in Reqs : caller'[q].pc \in Before => caller[q].pc \in Before
    BY <1>15 DEF HostSends, Frame, dispatchVars, sessionVars, downVars, TypeInv, Before
  <2> QED BY <2>1, <2>2 DEF StepBound
<1>16. ASSUME NEW r \in Reqs, HostForgets(r) PROVE StepBound
  <2>1. UNCHANGED << caller, Pending, resp, gone >> /\ r \notin Pending
    BY <1>16 DEF HostForgets, dispatchVars, sessionVars, downVars, Pending
  <2>2. \A q \in Reqs : q # r => host'[q] = host[q]
    BY <1>16 DEF HostForgets, TypeInv
  <2> QED BY <2>1, <2>2 DEF StepBound
<1>17. ASSUME NEW f \in wire, AcceptRespond(f), RespondLate(f) PROVE StepBound
  <2>1. \/ Pending' = Pending /\ resp' = resp
        \/ /\ f.req \in Pending /\ Pending' = Pending \ {f.req}
           /\ \E x : resp' = [resp EXCEPT ![f.req] = Append(resp[f.req], x)]
    BY <1>17, RespondEffect
  <2>2. UNCHANGED << caller, gone, host >>
    BY <1>17 DEF AcceptRespond
  <2>3. \A q \in Reqs : q # f.req \/ f.req \notin Pending => resp'[q] = resp[q]
    BY <2>1 DEF TypeInv
  <2> QED BY <2>1, <2>2, <2>3 DEF StepBound
<1>18. ASSUME NEW f \in wire, AcceptRespond(f), RespondDuplicate(f) PROVE StepBound
  <2>1. \/ Pending' = Pending /\ resp' = resp
        \/ /\ f.req \in Pending /\ Pending' = Pending \ {f.req}
           /\ \E x : resp' = [resp EXCEPT ![f.req] = Append(resp[f.req], x)]
    BY <1>18, RespondEffect
  <2>2. UNCHANGED << caller, gone, host >>
    BY <1>18 DEF AcceptRespond
  <2>3. \A q \in Reqs : q # f.req \/ f.req \notin Pending => resp'[q] = resp[q]
    BY <2>1 DEF TypeInv
  <2> QED BY <2>1, <2>2, <2>3 DEF StepBound
<1>19. ASSUME NEW f \in wire, AcceptRespond(f), RespondGap(f) PROVE StepBound
  <2>1. \/ Pending' = Pending /\ resp' = resp
        \/ /\ f.req \in Pending /\ Pending' = Pending \ {f.req}
           /\ \E x : resp' = [resp EXCEPT ![f.req] = Append(resp[f.req], x)]
    BY <1>19, RespondEffect
  <2>2. UNCHANGED << caller, gone, host >>
    BY <1>19 DEF AcceptRespond
  <2>3. \A q \in Reqs : q # f.req \/ f.req \notin Pending => resp'[q] = resp[q]
    BY <2>1 DEF TypeInv
  <2> QED BY <2>1, <2>2, <2>3 DEF StepBound
<1>20. ASSUME NEW f \in wire, AcceptRespond(f), RespondNext(f) PROVE StepBound
  <2>1. \/ Pending' = Pending /\ resp' = resp
        \/ /\ f.req \in Pending /\ Pending' = Pending \ {f.req}
           /\ \E x : resp' = [resp EXCEPT ![f.req] = Append(resp[f.req], x)]
    BY <1>20, RespondEffect
  <2>2. UNCHANGED << caller, gone, host >>
    BY <1>20 DEF AcceptRespond
  <2>3. \A q \in Reqs : q # f.req \/ f.req \notin Pending => resp'[q] = resp[q]
    BY <2>1 DEF TypeInv
  <2> QED BY <2>1, <2>2, <2>3 DEF StepBound
<1>21. ASSUME NEW s \in 1 .. last, Finish(s) PROVE StepBound
  <2>1. UNCHANGED << Pending, resp, gone, host >>
    BY <1>21 DEF Finish, dispatchVars, sessionVars, downVars, Pending
  <2>2. \A q \in Reqs : caller'[q].pc \in Before => caller[q].pc \in Before
    BY <1>21 DEF Finish, dispatchVars, sessionVars, downVars, TypeInv, Before
  <2> QED BY <2>1, <2>2 DEF StepBound
<1>22. ASSUME NEW s \in 1 .. last, Detach(s) PROVE StepBound
  <2>1. UNCHANGED << caller, resp, host >> /\ Pending' = {} /\ gone' = gone \cup Pending
    BY <1>22 DEF Detach, FailPending, Pending
  <2> QED BY <2>1 DEF StepBound
<1>23. ASSUME AttachResume PROVE StepBound
  <2>1. UNCHANGED << Pending, resp, gone, host >>
    BY <1>23 DEF AttachResume, dispatchVars, sessionVars, downVars, Pending
  <2>2. \A q \in Reqs : caller'[q].pc \in Before => caller[q].pc \in Before
    BY <1>23 DEF AttachResume, dispatchVars, sessionVars, downVars, TypeInv, Before
  <2> QED BY <2>1, <2>2 DEF StepBound
<1>24. ASSUME AttachNewEpoch PROVE StepBound
  <2>1. UNCHANGED << caller, resp >> /\ Pending' = {} /\ gone' = gone \cup Pending /\ host' = [r \in Reqs |-> Unknown]
    BY <1>24 DEF AttachNewEpoch, Pending
  <2>2. \A q \in Reqs : host'[q].state # "forgot"
    BY <2>1 DEF Unknown
  <2> QED BY <2>1, <2>2 DEF StepBound
<1>25. ASSUME ExpireTombstone PROVE StepBound
  <2>1. UNCHANGED << Pending, resp, gone, host >>
    BY <1>25 DEF ExpireTombstone, dispatchVars, sessionVars, downVars, Pending
  <2>2. \A q \in Reqs : caller'[q].pc \in Before => caller[q].pc \in Before
    BY <1>25 DEF ExpireTombstone, dispatchVars, sessionVars, downVars, TypeInv, Before
  <2> QED BY <2>1, <2>2 DEF StepBound
<1>26. CASE UNCHANGED vars
  BY <1>26 DEF vars, StepBound, Pending, dispatchVars, sessionVars, downVars
<1> QED
  BY <1>1, <1>2, <1>3, <1>4, <1>5, <1>6, <1>7, <1>8, <1>9, <1>10, <1>11, <1>12, <1>13,
     <1>14, <1>15, <1>16, <1>17, <1>18, <1>19, <1>20, <1>21, <1>22, <1>23, <1>24,
     <1>25, <1>26 DEF Next, Dispatch, AcceptRespond

\* Every step keeps the tombstones verdicts.
LEMMA TombStep ==
  ASSUME TypeInv, OutcomeInv, LoggedInv, TombInv, [Next]_vars
  PROVE  TombInv'
<1>1. TombDelta /\ StepBound
  BY TombChange, StepIsBounded
<1>2. ASSUME NEW i \in DOMAIN tombs'
      PROVE  /\ tombs'[i].req \in Reqs /\ tombs'[i].req \notin Pending' /\ caller'[tombs'[i].req].pc \notin Before
             /\ tombs'[i].done =>
                    /\ tombs'[i].req \notin gone'
                    /\ \A j \in DOMAIN resp'[tombs'[i].req] : resp'[tombs'[i].req][j].status = "ok"
  <2> DEFINE t == tombs'[i]
  <2>0. t.req \in Reqs
    <3>1. tombs' \in Seq(Tombstones)
      BY <1>1 DEF TombDelta
    <3>2. t \in Tombstones
      BY <1>2, <3>1, ElementOfSeq, LenProperties
    <3> QED BY <3>2 DEF Tombstones
  <2>1. CASE Among(tombs, t)
    <3>1. PICK j \in DOMAIN tombs : tombs[j] = t
      BY <2>1 DEF Among
    <3> HIDE DEF t
    <3>2. t.req \notin Pending /\ caller[t.req].pc \notin Before
      BY <3>1 DEF TombInv
    <3>3. t.req \notin Pending' /\ caller'[t.req].pc \notin Before
      BY <1>1, <2>0, <3>2 DEF StepBound, Before
    <3>4. ASSUME t.done PROVE t.req \notin gone'
      BY <1>1, <3>1, <3>2, <3>4 DEF StepBound, TombInv
    <3>5. ASSUME t.done PROVE \A k \in DOMAIN resp'[t.req] : resp'[t.req][k].status = "ok"
      <4>1. \A k \in DOMAIN resp[t.req] : resp[t.req][k].status = "ok"
        BY <3>1, <3>5 DEF TombInv
      <4>2. resp'[t.req] = resp[t.req] \/ resp'[t.req] = << >>
        BY <1>1, <2>0, <3>2 DEF StepBound
      <4> QED BY <4>1, <4>2
    <3> QED BY <2>0, <3>3, <3>4, <3>5 DEF t
  <2>2. CASE AbortAdded(t)
    <3> HIDE DEF t
    <3>1. t.req \notin Pending' /\ caller'[t.req].pc \notin Before
      BY <1>1, <2>0, <2>2 DEF AbortAdded, StepBound
    <3>2. ~t.done
      BY <2>2 DEF AbortAdded, Tombstone
    <3> QED BY <2>0, <3>1, <3>2 DEF t
  <2>3. CASE DoneAdded(t)
    <3> HIDE DEF t
    <3>1. t.req \notin Pending' /\ caller'[t.req].pc \notin Before /\ resp[t.req] = << >> /\ t.req \notin gone
      BY <1>1, <2>0, <2>3, PendingIsRegistered DEF DoneAdded, StepBound, OutcomeInv
    <3>2. PICK b : resp' = [resp EXCEPT ![t.req] = Append(resp[t.req], Answer(b))]
      BY <2>3 DEF DoneAdded
    <3>3. resp'[t.req] = << Answer(b) >>
      BY <2>0, <3>1, <3>2, OneElement DEF TypeInv
    <3>4. resp' # resp
      BY <3>1, <3>3, OneElement
    <3>5. t.req \notin gone'
      BY <1>1, <3>1, <3>4 DEF StepBound
    <3>6. \A k \in DOMAIN resp'[t.req] : resp'[t.req][k].status = "ok"
      BY <3>3 DEF Answer
    <3> QED BY <2>0, <3>1, <3>5, <3>6 DEF t
  <2> QED BY <1>1, <2>1, <2>2, <2>3 DEF TombDelta
<1>3. ASSUME NEW r \in Reqs, host'[r].state = "forgot" PROVE r \notin Pending'
  <2>1. CASE host[r].state = "forgot"
    <3>1. r \notin Pending
      BY <2>1 DEF TombInv
    <3>2. caller[r].pc # "preflight"
      BY <2>1 DEF LoggedInv, Before, Unknown
    <3> QED BY <1>1, <3>1, <3>2 DEF StepBound
  <2>2. CASE host[r].state # "forgot"
    BY <1>1, <1>3, <2>2 DEF StepBound
  <2> QED BY <2>1, <2>2
<1> QED BY <1>1, <1>2, <1>3 DEF TombInv, TombDelta

\* A done tombstone never becomes an abort.
LEMMA DoneStays ==
  ASSUME TombInv, TombDelta, NEW r \in Reqs, Done(r), NEW i \in DOMAIN tombs', tombs'[i].req = r
  PROVE  tombs'[i].done
<1>1. PICK k \in DOMAIN tombs : tombs[k].req = r /\ tombs[k].done
  BY DEF Done
<1>2. CASE Among(tombs, tombs'[i])
  <2>1. PICK j \in DOMAIN tombs : tombs[j] = tombs'[i]
    BY <1>2 DEF Among
  <2>2. j = k
    BY <1>1, <2>1 DEF TombInv, Distinct
  <2> QED BY <1>1, <2>1, <2>2
<1>3. CASE AbortAdded(tombs'[i])
  BY <1>3 DEF AbortAdded
<1>4. CASE DoneAdded(tombs'[i])
  BY <1>4 DEF DoneAdded, Tombstone
<1> QED BY <1>2, <1>3, <1>4 DEF TombDelta


-----------------------------------------------------------------------------
(* Answers arrive whole. *)

\* Every step keeps the frames of a request in agreement.
LEMMA WireStep ==
  ASSUME TypeInv, LoggedInv, WireInv, [Next]_vars
  PROVE  WireInv'
<1>1. ASSUME NEW r \in Reqs, LookUp(r) PROVE WireInv'
  BY <1>1 DEF LookUp, Return, Caller, dispatchVars, sessionVars, downVars, WireInv
<1>2. ASSUME NEW r \in Reqs, PreflightFails(r) PROVE WireInv'
  BY <1>2 DEF PreflightFails, Return, Caller, dispatchVars, sessionVars, downVars, WireInv
<1>3. ASSUME NEW r \in Reqs, Register(r) PROVE WireInv'
  BY <1>3 DEF Register, Advance, WithPending, NoPending, Pending, dispatchVars, sessionVars, downVars, WireInv
<1>4. ASSUME NEW r \in Reqs, RegisterRefused(r) PROVE WireInv'
  BY <1>4 DEF RegisterRefused, Return, Caller, dispatchVars, sessionVars, downVars, WireInv
<1>5. ASSUME NEW r \in Reqs, Send(r) PROVE WireInv'
  BY <1>5 DEF Send, LogRequest, Advance, dispatchVars, sessionVars, downVars, WireInv
<1>6. ASSUME NEW r \in Reqs, SendFails(r) PROVE WireInv'
  BY <1>6 DEF SendFails, LogRequest, DropPending, Return, Caller, dispatchVars, sessionVars, downVars, WireInv
<1>7. ASSUME NEW r \in Reqs, Check(r) PROVE WireInv'
  BY <1>7 DEF Check, TakeResponse, Advance, dispatchVars, sessionVars, downVars, WireInv
<1>8. ASSUME NEW r \in Reqs, WaitResponse(r) PROVE WireInv'
  BY <1>8 DEF WaitResponse, TakeResponse, dispatchVars, sessionVars, downVars, WireInv
<1>9. ASSUME NEW r \in Reqs, WaitGone(r) PROVE WireInv'
  BY <1>9 DEF WaitGone, Return, Caller, dispatchVars, sessionVars, downVars, WireInv
<1>10. ASSUME NEW r \in Reqs, WaitGivesUp(r) PROVE WireInv'
  BY <1>10 DEF WaitGivesUp, DropPending, Return, Caller, dispatchVars, sessionVars, downVars, WireInv
<1>11. ASSUME NEW r \in Reqs, ExpireRequest(r) PROVE WireInv'
  BY <1>11 DEF ExpireRequest, dispatchVars, sessionVars, downVars, WireInv
<1>12. ASSUME NEW r \in Reqs, FailExpired(r) PROVE WireInv'
  BY <1>12 DEF FailExpired, FailRequest, dispatchVars, sessionVars, downVars, WireInv
<1>13. ASSUME NEW r \in Reqs, AckRequest(r) PROVE WireInv'
  BY <1>13 DEF AckRequest, dispatchVars, sessionVars, downVars, WireInv
<1>14. ASSUME NEW r \in Reqs, HostRuns(r) PROVE WireInv'
  <2>1. UNCHANGED wire /\ r \in downLog /\ host[r] = Unknown /\ \A f \in wire : f.req \in Reqs
    BY <1>14 DEF HostRuns, TypeInv
  <2>2. \A f \in wire : f.req # r
    BY <2>1 DEF LoggedInv
  <2>3. \A q \in Reqs : q # r => host'[q] = host[q]
    BY <1>14 DEF HostRuns, TypeInv
  <2>4. host'[r].n \in 1 .. MaxChunks
    BY <1>14 DEF HostRuns, TypeInv
  <2>5. \A f \in wire' : f.chunk \in 1 .. MaxChunks
    BY <2>1 DEF WireInv
  <2>6. \A f \in wire' : host'[f.req] # Unknown => f.chunk <= host'[f.req].n /\ (f.more <=> f.chunk < host'[f.req].n)
    BY <2>1, <2>2, <2>3 DEF WireInv
  <2>7. \A q \in Reqs : host'[q] # Unknown => host'[q].n \in 1 .. MaxChunks
    BY <2>3, <2>4 DEF WireInv
  <2> QED BY <2>5, <2>6, <2>7 DEF WireInv
<1>15. ASSUME NEW r \in Reqs, HostSends(r) PROVE WireInv'
  <2>1. PICK c \in 1 .. host[r].n : wire' = wire \cup {Frame(r, c)}
    BY <1>15 DEF HostSends
  <2>2. UNCHANGED host /\ host[r].n \in 1 .. MaxChunks
    BY <1>15 DEF HostSends, WireInv, Unknown
  <2>3. MaxChunks \in Nat
    BY RelayAssumption
  <2>4. LET f == Frame(r, c) IN f.req = r /\ f.chunk = c /\ f.more = (c < host[r].n)
    BY DEF Frame
  <2>5. \A f \in wire' : f \in wire \/ (f.req = r /\ f.chunk = c /\ f.more = (c < host[r].n))
    BY <2>1, <2>4
  <2>6. c \in 1 .. MaxChunks /\ c <= host[r].n
    BY <2>2, <2>3
  <2>7. \A f \in wire' : f.chunk \in 1 .. MaxChunks
    BY <2>5, <2>6 DEF WireInv
  <2>8. \A f \in wire' : host'[f.req] # Unknown => f.chunk <= host'[f.req].n /\ (f.more <=> f.chunk < host'[f.req].n)
    BY <2>2, <2>5, <2>6 DEF WireInv
  <2> QED BY <2>2, <2>7, <2>8 DEF WireInv
<1>16. ASSUME NEW r \in Reqs, HostForgets(r) PROVE WireInv'
  <2>1. UNCHANGED wire /\ host[r] # Unknown /\ host'[r].n = host[r].n
    BY <1>16 DEF HostForgets, Unknown, TypeInv
  <2>2. \A q \in Reqs : q # r => host'[q] = host[q]
    BY <1>16 DEF HostForgets, TypeInv
  <2>3. \A q \in Reqs : host'[q] # Unknown => host[q] # Unknown /\ host'[q].n = host[q].n
    BY <2>1, <2>2
  <2> QED BY <2>1, <2>3 DEF WireInv, TypeInv
<1>17. ASSUME NEW f \in wire, AcceptRespond(f), RespondLate(f) PROVE WireInv'
  BY <1>17 DEF AcceptRespond, RespondLate, dispatchVars, sessionVars, downVars, WireInv
<1>18. ASSUME NEW f \in wire, AcceptRespond(f), RespondDuplicate(f) PROVE WireInv'
  BY <1>18 DEF AcceptRespond, RespondDuplicate, dispatchVars, sessionVars, downVars, WireInv
<1>19. ASSUME NEW f \in wire, AcceptRespond(f), RespondGap(f) PROVE WireInv'
  BY <1>19 DEF AcceptRespond, RespondGap, FailRequest, dispatchVars, sessionVars, downVars, WireInv
<1>20. ASSUME NEW f \in wire, AcceptRespond(f), RespondNext(f) PROVE WireInv'
  BY <1>20 DEF AcceptRespond, RespondNext, FailRequest, dispatchVars, sessionVars, downVars, WireInv
<1>21. ASSUME NEW s \in 1 .. last, Finish(s) PROVE WireInv'
  BY <1>21 DEF Finish, dispatchVars, sessionVars, downVars, WireInv
<1>22. ASSUME NEW s \in 1 .. last, Detach(s) PROVE WireInv'
  BY <1>22 DEF Detach, FailPending, dispatchVars, sessionVars, downVars, WireInv
<1>23. ASSUME AttachResume PROVE WireInv'
  BY <1>23 DEF AttachResume, dispatchVars, sessionVars, downVars, WireInv
<1>24. ASSUME AttachNewEpoch PROVE WireInv'
  <2>1. UNCHANGED wire /\ \A q \in Reqs : host'[q] = Unknown
    BY <1>24 DEF AttachNewEpoch
  <2> QED BY <2>1 DEF WireInv, TypeInv
<1>25. ASSUME ExpireTombstone PROVE WireInv'
  BY <1>25 DEF ExpireTombstone, dispatchVars, sessionVars, downVars, WireInv
<1>26. CASE UNCHANGED vars
  BY <1>26 DEF vars, WireInv
<1> QED
  BY <1>1, <1>2, <1>3, <1>4, <1>5, <1>6, <1>7, <1>8, <1>9, <1>10, <1>11, <1>12, <1>13,
     <1>14, <1>15, <1>16, <1>17, <1>18, <1>19, <1>20, <1>21, <1>22, <1>23, <1>24,
     <1>25, <1>26 DEF Next, Dispatch, AcceptRespond

\* A nonempty set of naturals has a least element.
LEMMA LeastElement ==
  ASSUME NEW T \in SUBSET Nat, T # {}
  PROVE  \E m \in T : \A k \in T : m <= k
<1> DEFINE R == OpToRel(<, Nat)
<1>1. IsWellFoundedOn(R, Nat)
  BY NatLessThanWellFounded
<1>2. \A x, y \in Nat : << y, x >> \in R <=> y < x
  BY DEF OpToRel
<1> HIDE DEF R
<1>3. PICK m \in T : \A k \in T : ~(<< k, m >> \in R)
  BY <1>1, WFMin
<1>4. \A k \in T : m \in Nat /\ k \in Nat /\ ~(k < m)
  BY <1>2, <1>3
<1> QED BY <1>4

\* What Min returns.
LEMMA MinProperties ==
  ASSUME NEW T \in SUBSET Nat, T # {} PROVE Min(T) \in T /\ \A k \in T : Min(T) <= k
BY LeastElement DEF Min

\* RunEnd is well defined when the parked numbers are bounded: it is the end of
\* the contiguous parked run behind n.
LEMMA RunEndIsEndOfRun ==
  ASSUME NEW buf, NEW n \in Nat, NEW top \in Nat, n <= top, DOMAIN buf \subseteq 0 .. top
  PROVE  LET k == RunEnd(buf, n)
         IN  k \in Nat /\ n <= k /\ k <= top /\ (\A q \in (n + 1) .. k : q \in DOMAIN buf) /\ k + 1 \notin DOMAIN buf
<1> DEFINE Missing == {m \in Nat : m > n /\ m \notin DOMAIN buf}
           Good(k) == n <= k /\ (n + 1) .. k \subseteq DOMAIN buf /\ k + 1 \notin DOMAIN buf
<1>1. Missing \in SUBSET Nat /\ top + 1 \in Missing
  OBVIOUS
<1>2. PICK m \in Missing : \A j \in Missing : m <= j
  BY <1>1, LeastElement
<1>3. m \in Nat /\ n < m /\ m \notin DOMAIN buf
  BY <1>2
<1>4. (n + 1) .. (m - 1) \subseteq DOMAIN buf
  BY <1>2, <1>3
<1>5. m - 1 \in {n} \cup DOMAIN buf /\ Good(m - 1)
  BY <1>3, <1>4
<1>6. \E k \in {n} \cup DOMAIN buf : Good(k)
  BY <1>5
<1>7. RunEnd(buf, n) \in {n} \cup DOMAIN buf /\ Good(RunEnd(buf, n))
  BY <1>6 DEF RunEnd
<1> QED BY <1>7

\* Appending the chunks n + 1 .. n + m to the chunks up to n.
LEMMA ChunksAppended ==
  ASSUME NEW b, NEW n \in Nat, Chunks(b, n), NEW m \in Nat, NEW t, t = [i \in 1 .. m |-> n + 1 + i - 1]
  PROVE  Chunks(b \o t, n + m)
<1>1. b \in Seq(Nat) /\ Len(b) = n /\ \A i \in 1 .. n : b[i] = i
  BY DEF Chunks
<1>2. t \in [1 .. m -> Nat] /\ \A i \in 1 .. m : t[i] = n + i
  OBVIOUS
<1>3. t \in Seq(Nat) /\ Len(t) = m
  BY <1>2, SeqDef, LenProperties
<1>4. b \o t \in Seq(Nat) /\ Len(b \o t) = n + m
  BY <1>1, <1>3, ConcatProperties
<1>5. ASSUME NEW i \in 1 .. n + m PROVE (b \o t)[i] = i
  <2>1. (b \o t)[i] = IF i <= n THEN b[i] ELSE t[i - n]
    BY <1>1, <1>3, ConcatProperties
  <2>2. CASE i <= n
    BY <1>1, <2>1, <2>2
  <2>3. CASE ~(i <= n)
    <3>1. i - n \in 1 .. m
      BY <2>3
    <3>2. t[i - n] = n + (i - n) /\ n + (i - n) = i
      BY <1>2, <3>1
    <3>3. (b \o t)[i] = t[i - n]
      BY <2>1, <2>3
    <3> QED BY <3>2, <3>3
  <2> QED BY <2>2, <2>3
<1> QED BY <1>4, <1>5 DEF Chunks

\* A chunk behind a gap: dropped with its request, or parked within the budget.
LEMMA GapEffect ==
  ASSUME TypeInv, WireInv, AnswerInv, NEW f \in wire, RespondGap(f)
  PROVE  \/ FailRequest(f.req)
         \/ /\ ~OverBudget(f) /\ UNCHANGED << resp, tombs >>
            /\ \E p : /\ pending' = WithPending(f.req, p) /\ EntryOK(f.req, p)
                      /\ DOMAIN p.parked \subseteq DOMAIN pending[f.req].parked \cup {f.chunk}
<1>1. CASE OverBudget(f)
  BY <1>1 DEF RespondGap
<1>2. CASE ~OverBudget(f)
  <2> DEFINE p == pending[f.req]
             parked == [c \in DOMAIN p.parked \cup {f.chunk} |-> IF c \in DOMAIN p.parked THEN p.parked[c] ELSE f]
             new == [p EXCEPT !.parked = parked]
  <2>1. f.req \in Pending /\ Gap(f) /\ pending' = WithPending(f.req, new) /\ UNCHANGED << resp, tombs >>
    BY <1>2 DEF RespondGap
  <2>2. EntryOK(f.req, p) /\ DOMAIN p = {"next", "parked", "body"}
    BY <2>1 DEF AnswerInv, EntryOK
  <2>3. DOMAIN new = {"next", "parked", "body"} /\ new.next = p.next /\ new.body = p.body /\ new.parked = parked
    BY <2>2
  <2>4. \A c \in DOMAIN parked : (c \in DOMAIN p.parked /\ parked[c] = p.parked[c]) \/ (c = f.chunk /\ parked[c] = f)
    OBVIOUS
  <2>5. f.chunk \in 1 .. MaxChunks /\ f.chunk > p.next + 1
    BY <2>1 DEF WireInv, Gap
  <2>6. DOMAIN parked = DOMAIN p.parked \cup {f.chunk}
    OBVIOUS
  <2> HIDE DEF new, parked, p
  <2>7. EntryOK(f.req, new)
    BY <2>2, <2>3, <2>4, <2>5 DEF EntryOK
  <2> QED BY <1>2, <2>1, <2>3, <2>6, <2>7 DEF p
<1> QED BY <1>1, <1>2


\* The chunk that is next: applied with the parked ones behind it, until one of
\* them fails the request or answers it.
LEMMA NextEffect ==
  ASSUME TypeInv, WireInv, AnswerInv, NEW f \in wire, RespondNext(f)
  PROVE  \/ FailRequest(f.req)
         \/ /\ UNCHANGED << resp, tombs >>
            /\ \E p : /\ pending' = WithPending(f.req, p) /\ EntryOK(f.req, p)
                      /\ DOMAIN p.parked \subseteq DOMAIN pending[f.req].parked
         \/ /\ pending' = WithoutPending({f.req})
            /\ \E b : resp' = [resp EXCEPT ![f.req] = Append(resp[f.req], Answer(b))] /\ Whole(f.req, b)
<1> DEFINE p == pending[f.req]
           c0 == f.chunk
           last0 == RunEnd(p.parked, c0)
           At(c) == IF c = c0 THEN f ELSE p.parked[c]
           run == c0 .. last0
           ends == {c \in run : At(c).bad \/ ~At(c).more}
           stop == IF ends = {} THEN last0 ELSE Min(ends)
           tail == [i \in 1 .. (stop - c0 + 1) |-> c0 + i - 1]
           body == p.body \o tail
           new == [next |-> stop, body |-> body, parked |-> [c \in {d \in DOMAIN p.parked : d > stop} |-> p.parked[c]]]
<1>0. f.req \in Pending /\ f.chunk \in 1 .. MaxChunks /\ EntryOK(f.req, p) /\ ~Duplicate(f) /\ ~Gap(f) /\ MaxChunks \in Nat
  BY RelayAssumption DEF RespondNext, AnswerInv, WireInv
<1>1. p.next \in Nat /\ c0 \in Nat /\ c0 = p.next + 1 /\ Chunks(p.body, p.next)
  BY <1>0 DEF EntryOK, Duplicate, Gap
<1>2. /\ last0 \in Nat /\ c0 <= last0 /\ last0 + 1 \notin DOMAIN p.parked
      /\ \A c \in (c0 + 1) .. last0 : c \in DOMAIN p.parked
  <2>1. DOMAIN p.parked \subseteq 0 .. MaxChunks /\ c0 <= MaxChunks
    BY <1>0 DEF EntryOK
  <2> HIDE DEF p, c0
  <2> QED BY <1>0, <1>1, <2>1, RunEndIsEndOfRun
<1> HIDE DEF last0
<1>3. \A c \in run : At(c) \in wire /\ At(c).req = f.req /\ At(c).chunk = c
  <2> SUFFICES ASSUME NEW c \in run PROVE At(c) \in wire /\ At(c).req = f.req /\ At(c).chunk = c
    OBVIOUS
  <2>1. CASE c = c0
    BY <2>1
  <2>2. CASE c # c0
    <3>1. c \in (c0 + 1) .. last0
      BY <1>1, <1>2, <2>2
    <3> QED BY <1>0, <1>2, <2>2, <3>1 DEF EntryOK
  <2> QED BY <2>1, <2>2
<1> HIDE DEF At
<1>4. stop \in run /\ (ends # {} => stop \in ends) /\ stop \in Nat /\ c0 <= stop
  <2>1. ends \in SUBSET Nat /\ last0 \in run
    BY <1>1, <1>2
  <2>2. ends # {} => Min(ends) \in ends
    <3> HIDE DEF ends
    <3> QED BY <2>1, MinProperties
  <2>3. stop \in run /\ (ends # {} => stop \in ends)
    BY <2>1, <2>2
  <2> QED BY <1>1, <1>2, <2>3
<1>5. ends = {} => stop = last0
  OBVIOUS
<1> HIDE DEF stop
<1>6. Chunks(body, stop)
  <2> DEFINE m == stop - c0 + 1
  <2>1. m \in Nat /\ p.next + m = stop /\ p.next \in Nat
    BY <1>1, <1>4
  <2>2. tail = [i \in 1 .. m |-> p.next + 1 + i - 1]
    BY <1>1
  <2> HIDE DEF m, tail, p
  <2>3. Chunks(p.body \o tail, p.next + m)
    BY <1>1, <2>1, <2>2, ChunksAppended
  <2> QED BY <2>1, <2>3 DEF p
<1> HIDE DEF body
<1>7. CASE ends = {}
  <2>1. pending' = WithPending(f.req, new) /\ UNCHANGED << resp, tombs >>
    BY <1>7 DEF RespondNext, stop, last0, At, body
  <2>2. DOMAIN new = {"next", "parked", "body"} /\ new.next = stop /\ new.body = body
    OBVIOUS
  <2>3. /\ DOMAIN new.parked = {d \in DOMAIN p.parked : d > stop}
        /\ \A c \in DOMAIN new.parked : new.parked[c] = p.parked[c]
    OBVIOUS
  <2> HIDE DEF new
  <2>4. \A c \in DOMAIN new.parked : c \in DOMAIN p.parked /\ c \in 1 .. MaxChunks /\ c > stop + 1
    <3> SUFFICES ASSUME NEW c \in DOMAIN new.parked PROVE c \in DOMAIN p.parked /\ c \in 1 .. MaxChunks /\ c > stop + 1
      OBVIOUS
    <3>1. c \in DOMAIN p.parked /\ c \in 1 .. MaxChunks /\ c > stop
      BY <1>0, <2>3 DEF EntryOK
    <3>2. c # stop + 1
      BY <1>7, <1>2, <1>5, <3>1
    <3> QED BY <1>4, <3>1, <3>2
  <2>5. EntryOK(f.req, new)
    <3>1. \A c \in DOMAIN new.parked : new.parked[c] \in wire /\ new.parked[c].req = f.req /\ new.parked[c].chunk = c
      BY <1>0, <2>3, <2>4 DEF EntryOK
    <3> QED BY <1>4, <1>6, <2>2, <2>4, <3>1 DEF EntryOK
  <2>6. DOMAIN new.parked \subseteq DOMAIN p.parked
    BY <2>4
  <2> QED BY <2>1, <2>5, <2>6
<1>8. CASE ends # {} /\ At(stop).bad
  BY <1>8 DEF RespondNext, stop, last0, At
<1>9. CASE ends # {} /\ ~At(stop).bad
  <2>1. pending' = WithoutPending({f.req}) /\ resp' = [resp EXCEPT ![f.req] = Append(resp[f.req], Answer(body))]
    BY <1>9 DEF RespondNext, stop, last0, At, body
  <2>2. At(stop) \in wire /\ At(stop).req = f.req /\ At(stop).chunk = stop /\ ~At(stop).more
    BY <1>9, <1>3, <1>4
  <2>3. Whole(f.req, body)
    BY <1>6, <2>2 DEF Whole
  <2> QED BY <2>1, <2>3
<1> QED BY <1>7, <1>8, <1>9

\* What a respond frame does to answers.
LEMMA RespondAnswers ==
  ASSUME TypeInv, OutcomeInv, WireInv, AnswerInv, NEW f \in wire, UNCHANGED << caller, wire >>,
         RespondLate(f) \/ RespondDuplicate(f) \/ RespondGap(f) \/ RespondNext(f)
  PROVE  AnswerDelta
<1>1. CASE UNCHANGED << pending, resp >>
  BY <1>1 DEF AnswerDelta, AnswerInv, Pending
<1>2. ASSUME f.req \in Pending, FailRequest(f.req) PROVE AnswerDelta
  <2>1. pending' = WithoutPending({f.req}) /\ resp' = [resp EXCEPT ![f.req] = Append(resp[f.req], Failure)]
    BY <1>2 DEF FailRequest
  <2>2. Pending' \subseteq Pending /\ \A q \in Pending' : pending'[q] = pending[q]
    BY <2>1, PendingWithout DEF Pending
  <2>3. \A q \in Reqs : resp'[q] = resp[q] \/ resp'[q] = << Failure >>
    BY <1>2, <2>1, OneElement DEF TypeInv, OutcomeInv
  <2>4. \A q \in Reqs : \A i \in DOMAIN resp'[q] : resp'[q][i].status = "ok" => Whole(q, resp'[q][i].body)
    BY <2>3 DEF AnswerInv, Failure
  <2> QED BY <2>2, <2>4 DEF AnswerDelta, AnswerInv
<1>3. ASSUME f.req \in Pending, UNCHANGED resp, NEW p, pending' = WithPending(f.req, p), EntryOK(f.req, p)
      PROVE  AnswerDelta
  <2>0. /\ DOMAIN WithPending(f.req, p) = Pending \cup {f.req} /\ WithPending(f.req, p)[f.req] = p
        /\ \A q \in Pending : q # f.req => WithPending(f.req, p)[q] = pending[q]
    BY DEF WithPending
  <2>1. DOMAIN pending' = Pending \cup {f.req} /\ pending'[f.req] = p /\ \A q \in Pending : q # f.req => pending'[q] = pending[q]
    BY <1>3, <2>0
  <2>2. \A q \in Pending' : (q \in Pending /\ pending'[q] = pending[q]) \/ EntryOK(q, pending'[q])
    BY <1>3, <2>1 DEF Pending
  <2> QED BY <1>3, <2>2 DEF AnswerDelta, AnswerInv
<1>4. ASSUME f.req \in Pending, pending' = WithoutPending({f.req}),
             NEW b, resp' = [resp EXCEPT ![f.req] = Append(resp[f.req], Answer(b))], Whole(f.req, b)
      PROVE  AnswerDelta
  <2>1. Pending' \subseteq Pending /\ \A q \in Pending' : pending'[q] = pending[q]
    BY <1>4, PendingWithout DEF Pending
  <2>2. resp'[f.req] = << Answer(b) >> /\ \A q \in Reqs : q # f.req => resp'[q] = resp[q]
    BY <1>4, OneElement DEF TypeInv, OutcomeInv
  <2>3. \A i \in DOMAIN resp'[f.req] : resp'[f.req][i].body = b
    BY <2>2 DEF Answer
  <2>4. \A q \in Reqs : \A i \in DOMAIN resp'[q] : resp'[q][i].status = "ok" => Whole(q, resp'[q][i].body)
    <3> SUFFICES ASSUME NEW q \in Reqs, NEW i \in DOMAIN resp'[q], resp'[q][i].status = "ok"
                 PROVE  Whole(q, resp'[q][i].body)
      OBVIOUS
    <3>1. CASE q = f.req
      BY <1>4, <2>3, <3>1
    <3>2. CASE q # f.req
      BY <2>2, <3>2 DEF AnswerInv
    <3> QED BY <3>1, <3>2
  <2> QED BY <2>1, <2>4 DEF AnswerDelta, AnswerInv
<1>5. CASE RespondLate(f) \/ RespondDuplicate(f)
  BY <1>1, <1>5 DEF RespondLate, RespondDuplicate
<1>6. CASE RespondGap(f)
  <2>1. f.req \in Pending
    BY <1>6 DEF RespondGap
  <2> QED BY <1>2, <1>3, <1>6, <2>1, GapEffect
<1>7. CASE RespondNext(f)
  <2>1. f.req \in Pending
    BY <1>7 DEF RespondNext
  <2> QED BY <1>2, <1>3, <1>4, <1>7, <2>1, NextEffect
<1> QED BY <1>5, <1>6, <1>7

\* What every step does to answers.
LEMMA AnswerChange ==
  ASSUME TypeInv, OutcomeInv, WireInv, AnswerInv, [Next]_vars
  PROVE  AnswerDelta
<1>1. ASSUME NEW r \in Reqs, LookUp(r) PROVE AnswerDelta
  <2>1. UNCHANGED << pending, resp, wire >>
    BY <1>1 DEF LookUp, Return, Caller, dispatchVars, sessionVars, downVars
  <2>2. \A q \in Reqs : caller'[q].result = "ok" => caller[q].result = "ok" /\ caller'[q].body = caller[q].body
    <3>1. CASE Return(r, "error")
      BY <3>1 DEF Return, Caller, TypeInv
    <3>2. CASE caller' = [caller EXCEPT ![r].pc = "preflight", ![r].sess = session]
      BY <3>2 DEF TypeInv
    <3> QED BY <1>1, <3>1, <3>2 DEF LookUp
  <2> QED BY <2>1, <2>2 DEF AnswerDelta, AnswerInv, Pending
<1>2. ASSUME NEW r \in Reqs, PreflightFails(r) PROVE AnswerDelta
  <2>1. UNCHANGED << pending, resp, wire >>
    BY <1>2 DEF PreflightFails, Return, Caller, dispatchVars, sessionVars, downVars
  <2>2. \A q \in Reqs : caller'[q].result = "ok" => caller[q].result = "ok" /\ caller'[q].body = caller[q].body
    BY <1>2 DEF PreflightFails, Return, Caller, dispatchVars, sessionVars, downVars, TypeInv
  <2> QED BY <2>1, <2>2 DEF AnswerDelta, AnswerInv, Pending
<1>3. ASSUME NEW r \in Reqs, Register(r) PROVE AnswerDelta
  <2>1. UNCHANGED << resp, wire >> /\ pending' = WithPending(r, NoPending)
    BY <1>3 DEF Register
  <2>2. \A q \in Reqs : caller'[q].result = "ok" => caller[q].result = "ok" /\ caller'[q].body = caller[q].body
    BY <1>3 DEF Register, Advance, TypeInv
  <2>3. EntryOK(r, NoPending)
    <3>1. DOMAIN NoPending = {"next", "parked", "body"} /\ NoPending.next = 0 /\ NoPending.body = << >> /\ NoPending.parked = << >>
      BY DEF NoPending
    <3>2. Chunks(<< >>, 0) /\ DOMAIN << >> = {}
      BY DEF Chunks
    <3> QED BY <3>1, <3>2 DEF EntryOK
  <2>6. /\ DOMAIN WithPending(r, NoPending) = Pending \cup {r} /\ WithPending(r, NoPending)[r] = NoPending
        /\ \A q \in Pending : q # r => WithPending(r, NoPending)[q] = pending[q]
    BY DEF WithPending
  <2>4. DOMAIN pending' = Pending \cup {r} /\ pending'[r] = NoPending /\ \A q \in Pending : q # r => pending'[q] = pending[q]
    BY <2>1, <2>6
  <2>5. \A q \in Pending' : (q \in Pending /\ pending'[q] = pending[q]) \/ EntryOK(q, pending'[q])
    BY <2>3, <2>4 DEF Pending
  <2> QED BY <2>1, <2>2, <2>5 DEF AnswerDelta, AnswerInv
<1>4. ASSUME NEW r \in Reqs, RegisterRefused(r) PROVE AnswerDelta
  <2>1. UNCHANGED << pending, resp, wire >>
    BY <1>4 DEF RegisterRefused, Return, Caller, dispatchVars, sessionVars, downVars
  <2>2. \A q \in Reqs : caller'[q].result = "ok" => caller[q].result = "ok" /\ caller'[q].body = caller[q].body
    BY <1>4 DEF RegisterRefused, Return, Caller, dispatchVars, sessionVars, downVars, TypeInv
  <2> QED BY <2>1, <2>2 DEF AnswerDelta, AnswerInv, Pending
<1>5. ASSUME NEW r \in Reqs, Send(r) PROVE AnswerDelta
  <2>1. UNCHANGED << pending, resp, wire >>
    BY <1>5 DEF Send, LogRequest, Advance, dispatchVars, sessionVars, downVars
  <2>2. \A q \in Reqs : caller'[q].result = "ok" => caller[q].result = "ok" /\ caller'[q].body = caller[q].body
    BY <1>5 DEF Send, LogRequest, Advance, dispatchVars, sessionVars, downVars, TypeInv
  <2> QED BY <2>1, <2>2 DEF AnswerDelta, AnswerInv, Pending
<1>6. ASSUME NEW r \in Reqs, SendFails(r) PROVE AnswerDelta
  <2>1. UNCHANGED << resp, wire >>
    BY <1>6 DEF SendFails
  <2>2. \A q \in Reqs : caller'[q].result = "ok" => caller[q].result = "ok" /\ caller'[q].body = caller[q].body
    <3>1. \E x : x # "ok" /\ Return(r, x)
      BY <1>6 DEF SendFails
    <3> QED BY <3>1 DEF Return, Caller, TypeInv
  <2>3. pending' \in {pending, WithoutPending({r})}
    BY <1>6 DEF SendFails, DropPending
  <2>4. Pending' \subseteq Pending /\ \A q \in Pending' : pending'[q] = pending[q]
    <3>1. CASE pending' = pending
      BY <3>1 DEF Pending
    <3>2. CASE pending' = WithoutPending({r})
      <4>1. DOMAIN pending' = Pending \ {r} /\ \A q \in Pending \ {r} : pending'[q] = pending[q]
        BY <3>2, PendingWithout
      <4> QED BY <4>1 DEF Pending
    <3> QED BY <2>3, <3>1, <3>2
  <2> QED BY <2>1, <2>2, <2>4 DEF AnswerDelta, AnswerInv
<1>7. ASSUME NEW r \in Reqs, Check(r) PROVE AnswerDelta
  <2>10. CASE resp[r] # << >>
    <3>1. UNCHANGED << pending, wire >> /\ resp[r] # << >>
      BY <1>7, <2>10 DEF Check, TakeResponse, Advance, dispatchVars, sessionVars, downVars
    <3>2. PICK x : resp[r] = << x >>
      BY <3>1 DEF OutcomeInv
    <3>3. resp' = [resp EXCEPT ![r] = Tail(resp[r])]
      BY <1>7, <2>10 DEF Check, TakeResponse, Advance, dispatchVars, sessionVars, downVars
    <3>4. \A q \in Reqs : resp'[q] = resp[q] \/ resp'[q] = << >>
      BY <3>2, <3>3, OneElement DEF TypeInv
    <3>5. /\ \A q \in Reqs : q # r => caller'[q] = caller[q]
          /\ caller'[r].result = x.status /\ caller'[r].body = x.body
      BY <1>7, <2>10, <3>2 DEF Check, TakeResponse, Advance, dispatchVars, sessionVars, downVars, TypeInv
    <3>6. x.status = "ok" => Whole(r, x.body)
      <4>1. 1 \in DOMAIN resp[r] /\ resp[r][1] = x
        BY <3>2
      <4> QED BY <4>1 DEF AnswerInv
    <3>7. \A q \in Reqs : caller'[q].result = "ok" => Whole(q, caller'[q].body)
      BY <3>5, <3>6 DEF AnswerInv
    <3> QED BY <3>1, <3>4, <3>7 DEF AnswerDelta, AnswerInv, Pending
  <2>11. CASE resp[r] = << >>
    <3>1. UNCHANGED << pending, resp, wire >>
      BY <1>7, <2>11 DEF Check
    <3>2. \A q \in Reqs : caller'[q].result = "ok" => caller[q].result = "ok" /\ caller'[q].body = caller[q].body
      BY <1>7, <2>11 DEF Check, Advance, TypeInv
    <3> QED BY <3>1, <3>2 DEF AnswerDelta, AnswerInv, Pending
  <2> QED BY <2>10, <2>11
<1>8. ASSUME NEW r \in Reqs, WaitResponse(r) PROVE AnswerDelta
  <2>1. UNCHANGED << pending, wire >> /\ resp[r] # << >>
    BY <1>8 DEF WaitResponse, TakeResponse, dispatchVars, sessionVars, downVars
  <2>2. PICK x : resp[r] = << x >>
    BY <2>1 DEF OutcomeInv
  <2>3. resp' = [resp EXCEPT ![r] = Tail(resp[r])]
    BY <1>8 DEF WaitResponse, TakeResponse, dispatchVars, sessionVars, downVars
  <2>4. \A q \in Reqs : resp'[q] = resp[q] \/ resp'[q] = << >>
    BY <2>2, <2>3, OneElement DEF TypeInv
  <2>5. /\ \A q \in Reqs : q # r => caller'[q] = caller[q]
        /\ caller'[r].result = x.status /\ caller'[r].body = x.body
    BY <1>8, <2>2 DEF WaitResponse, TakeResponse, dispatchVars, sessionVars, downVars, TypeInv
  <2>6. x.status = "ok" => Whole(r, x.body)
    <3>1. 1 \in DOMAIN resp[r] /\ resp[r][1] = x
      BY <2>2
    <3> QED BY <3>1 DEF AnswerInv
  <2>7. \A q \in Reqs : caller'[q].result = "ok" => Whole(q, caller'[q].body)
    BY <2>5, <2>6 DEF AnswerInv
  <2> QED BY <2>1, <2>4, <2>7 DEF AnswerDelta, AnswerInv, Pending
<1>9. ASSUME NEW r \in Reqs, WaitGone(r) PROVE AnswerDelta
  <2>1. UNCHANGED << pending, resp, wire >>
    BY <1>9 DEF WaitGone, Return, Caller, dispatchVars, sessionVars, downVars
  <2>2. \A q \in Reqs : caller'[q].result = "ok" => caller[q].result = "ok" /\ caller'[q].body = caller[q].body
    BY <1>9 DEF WaitGone, Return, Caller, dispatchVars, sessionVars, downVars, TypeInv
  <2> QED BY <2>1, <2>2 DEF AnswerDelta, AnswerInv, Pending
<1>10. ASSUME NEW r \in Reqs, WaitGivesUp(r) PROVE AnswerDelta
  <2>1. UNCHANGED << resp, wire >>
    BY <1>10 DEF WaitGivesUp
  <2>2. \A q \in Reqs : caller'[q].result = "ok" => caller[q].result = "ok" /\ caller'[q].body = caller[q].body
    <3>1. \E x : x # "ok" /\ Return(r, x)
      BY <1>10 DEF WaitGivesUp
    <3> QED BY <3>1 DEF Return, Caller, TypeInv
  <2>3. pending' \in {pending, WithoutPending({r})}
    BY <1>10 DEF WaitGivesUp, DropPending
  <2>4. Pending' \subseteq Pending /\ \A q \in Pending' : pending'[q] = pending[q]
    <3>1. CASE pending' = pending
      BY <3>1 DEF Pending
    <3>2. CASE pending' = WithoutPending({r})
      <4>1. DOMAIN pending' = Pending \ {r} /\ \A q \in Pending \ {r} : pending'[q] = pending[q]
        BY <3>2, PendingWithout
      <4> QED BY <4>1 DEF Pending
    <3> QED BY <2>3, <3>1, <3>2
  <2> QED BY <2>1, <2>2, <2>4 DEF AnswerDelta, AnswerInv
<1>11. ASSUME NEW r \in Reqs, ExpireRequest(r) PROVE AnswerDelta
  <2>1. UNCHANGED << pending, resp, wire >>
    BY <1>11 DEF ExpireRequest, dispatchVars, sessionVars, downVars
  <2>2. \A q \in Reqs : caller'[q].result = "ok" => caller[q].result = "ok" /\ caller'[q].body = caller[q].body
    BY <1>11 DEF ExpireRequest, dispatchVars, sessionVars, downVars, TypeInv
  <2> QED BY <2>1, <2>2 DEF AnswerDelta, AnswerInv, Pending
<1>12. ASSUME NEW r \in Reqs, FailExpired(r) PROVE AnswerDelta
  <2>1. UNCHANGED << caller, wire >>
    BY <1>12 DEF FailExpired
  <2>2. CASE r \notin Pending
    <3>1. pending' = pending /\ resp' = resp
      BY <1>12, <2>2 DEF FailExpired
    <3> QED BY <2>1, <3>1 DEF AnswerDelta, AnswerInv, Pending
  <2>3. CASE r \in Pending
    <3>0. FailRequest(r)
      BY <1>12, <2>3 DEF FailExpired
    <3>1. pending' = WithoutPending({r}) /\ resp' = [resp EXCEPT ![r] = Append(resp[r], Failure)]
      BY <2>3, <3>0 DEF FailRequest
    <3>2. Pending' \subseteq Pending /\ \A q \in Pending' : pending'[q] = pending[q]
      BY <3>1, PendingWithout DEF Pending
    <3>3. \A q \in Reqs : resp'[q] = resp[q] \/ resp'[q] = << Failure >>
      BY <2>3, <3>0, <3>1, OneElement DEF TypeInv, OutcomeInv
    <3>4. \A q \in Reqs : \A i \in DOMAIN resp'[q] : resp'[q][i].status = "ok" => Whole(q, resp'[q][i].body)
      BY <3>3 DEF AnswerInv, Failure
    <3> QED BY <2>1, <3>2, <3>4 DEF AnswerDelta, AnswerInv
  <2> QED BY <2>2, <2>3
<1>13. ASSUME NEW r \in Reqs, AckRequest(r) PROVE AnswerDelta
  <2>1. UNCHANGED << pending, resp, wire >>
    BY <1>13 DEF AckRequest, dispatchVars, sessionVars, downVars
  <2>2. \A q \in Reqs : caller'[q].result = "ok" => caller[q].result = "ok" /\ caller'[q].body = caller[q].body
    BY <1>13 DEF AckRequest, dispatchVars, sessionVars, downVars, TypeInv
  <2> QED BY <2>1, <2>2 DEF AnswerDelta, AnswerInv, Pending
<1>14. ASSUME NEW r \in Reqs, HostRuns(r) PROVE AnswerDelta
  <2>1. UNCHANGED << pending, resp, wire >>
    BY <1>14 DEF HostRuns, dispatchVars, sessionVars, downVars
  <2>2. \A q \in Reqs : caller'[q].result = "ok" => caller[q].result = "ok" /\ caller'[q].body = caller[q].body
    BY <1>14 DEF HostRuns, dispatchVars, sessionVars, downVars, TypeInv
  <2> QED BY <2>1, <2>2 DEF AnswerDelta, AnswerInv, Pending
<1>15. ASSUME NEW r \in Reqs, HostSends(r) PROVE AnswerDelta
  <2>1. UNCHANGED << pending, resp >> /\ wire \subseteq wire'
    BY <1>15 DEF HostSends, Frame, dispatchVars, sessionVars, downVars
  <2>2. \A q \in Reqs : caller'[q].result = "ok" => caller[q].result = "ok" /\ caller'[q].body = caller[q].body
    BY <1>15 DEF HostSends, Frame, dispatchVars, sessionVars, downVars, TypeInv
  <2> QED BY <2>1, <2>2 DEF AnswerDelta, AnswerInv, Pending
<1>16. ASSUME NEW r \in Reqs, HostForgets(r) PROVE AnswerDelta
  <2>1. UNCHANGED << pending, resp, wire >>
    BY <1>16 DEF HostForgets, dispatchVars, sessionVars, downVars
  <2>2. \A q \in Reqs : caller'[q].result = "ok" => caller[q].result = "ok" /\ caller'[q].body = caller[q].body
    BY <1>16 DEF HostForgets, dispatchVars, sessionVars, downVars, TypeInv
  <2> QED BY <2>1, <2>2 DEF AnswerDelta, AnswerInv, Pending
<1>17. ASSUME NEW f \in wire, AcceptRespond(f), RespondLate(f) PROVE AnswerDelta
  <2>1. UNCHANGED << caller, wire >>
    BY <1>17 DEF AcceptRespond
  <2> QED BY <1>17, <2>1, RespondAnswers
<1>18. ASSUME NEW f \in wire, AcceptRespond(f), RespondDuplicate(f) PROVE AnswerDelta
  <2>1. UNCHANGED << caller, wire >>
    BY <1>18 DEF AcceptRespond
  <2> QED BY <1>18, <2>1, RespondAnswers
<1>19. ASSUME NEW f \in wire, AcceptRespond(f), RespondGap(f) PROVE AnswerDelta
  <2>1. UNCHANGED << caller, wire >>
    BY <1>19 DEF AcceptRespond
  <2> QED BY <1>19, <2>1, RespondAnswers
<1>20. ASSUME NEW f \in wire, AcceptRespond(f), RespondNext(f) PROVE AnswerDelta
  <2>1. UNCHANGED << caller, wire >>
    BY <1>20 DEF AcceptRespond
  <2> QED BY <1>20, <2>1, RespondAnswers
<1>21. ASSUME NEW s \in 1 .. last, Finish(s) PROVE AnswerDelta
  <2>1. UNCHANGED << pending, resp, wire >>
    BY <1>21 DEF Finish, dispatchVars, sessionVars, downVars
  <2>2. \A q \in Reqs : caller'[q].result = "ok" => caller[q].result = "ok" /\ caller'[q].body = caller[q].body
    BY <1>21 DEF Finish, dispatchVars, sessionVars, downVars, TypeInv
  <2> QED BY <2>1, <2>2 DEF AnswerDelta, AnswerInv, Pending
<1>22. ASSUME NEW s \in 1 .. last, Detach(s) PROVE AnswerDelta
  <2>1. UNCHANGED << caller, resp, wire >> /\ Pending' = {}
    BY <1>22 DEF Detach, FailPending, Pending
  <2> QED BY <2>1 DEF AnswerDelta, AnswerInv
<1>23. ASSUME AttachResume PROVE AnswerDelta
  <2>1. UNCHANGED << pending, resp, wire >>
    BY <1>23 DEF AttachResume, dispatchVars, sessionVars, downVars
  <2>2. \A q \in Reqs : caller'[q].result = "ok" => caller[q].result = "ok" /\ caller'[q].body = caller[q].body
    BY <1>23 DEF AttachResume, dispatchVars, sessionVars, downVars, TypeInv
  <2> QED BY <2>1, <2>2 DEF AnswerDelta, AnswerInv, Pending
<1>24. ASSUME AttachNewEpoch PROVE AnswerDelta
  <2>1. UNCHANGED << caller, resp, wire >> /\ Pending' = {}
    BY <1>24 DEF AttachNewEpoch, Pending
  <2> QED BY <2>1 DEF AnswerDelta, AnswerInv
<1>25. ASSUME ExpireTombstone PROVE AnswerDelta
  <2>1. UNCHANGED << pending, resp, wire >>
    BY <1>25 DEF ExpireTombstone, dispatchVars, sessionVars, downVars
  <2>2. \A q \in Reqs : caller'[q].result = "ok" => caller[q].result = "ok" /\ caller'[q].body = caller[q].body
    BY <1>25 DEF ExpireTombstone, dispatchVars, sessionVars, downVars, TypeInv
  <2> QED BY <2>1, <2>2 DEF AnswerDelta, AnswerInv, Pending
<1>26. CASE UNCHANGED vars
  BY <1>26 DEF vars, AnswerDelta, AnswerInv, Pending, dispatchVars
<1> QED
  BY <1>1, <1>2, <1>3, <1>4, <1>5, <1>6, <1>7, <1>8, <1>9, <1>10, <1>11, <1>12, <1>13,
     <1>14, <1>15, <1>16, <1>17, <1>18, <1>19, <1>20, <1>21, <1>22, <1>23, <1>24,
     <1>25, <1>26 DEF Next, Dispatch, AcceptRespond

\* Every step keeps answers whole.
LEMMA AnswerStep ==
  ASSUME TypeInv, OutcomeInv, WireInv, AnswerInv, [Next]_vars
  PROVE  AnswerInv'
<1>1. AnswerDelta
  BY AnswerChange
<1>2. ASSUME NEW r, NEW p, EntryOK(r, p) PROVE EntryOK(r, p)'
  BY <1>1, <1>2 DEF AnswerDelta, EntryOK, Chunks
<1>3. ASSUME NEW r, NEW b, Whole(r, b) PROVE Whole(r, b)'
  BY <1>1, <1>3 DEF AnswerDelta, Whole, Chunks
<1>4. ASSUME NEW r \in Pending' PROVE EntryOK(r, pending[r])'
  <2>1. PICK p : p = pending'[r]
    OBVIOUS
  <2>2. EntryOK(r, p)
    BY <1>1, <1>4, <2>1 DEF AnswerDelta, AnswerInv
  <2>3. EntryOK(r, p)'
    BY <1>2, <2>2
  <2> QED BY <2>1, <2>3 DEF EntryOK, Chunks
<1>5. ASSUME NEW r \in Reqs, NEW i \in DOMAIN resp'[r], resp'[r][i].status = "ok"
      PROVE  Whole(r, resp[r][i].body)'
  <2>1. PICK b : b = resp'[r][i].body
    OBVIOUS
  <2>2. Whole(r, b)
    BY <1>1, <1>5, <2>1 DEF AnswerDelta
  <2>3. Whole(r, b)'
    BY <1>3, <2>2
  <2> QED BY <2>1, <2>3 DEF Whole, Chunks
<1>6. ASSUME NEW r \in Reqs, caller'[r].result = "ok" PROVE Whole(r, caller[r].body)'
  <2>1. PICK b : b = caller'[r].body
    OBVIOUS
  <2>2. Whole(r, b)
    BY <1>1, <1>6, <2>1 DEF AnswerDelta
  <2>3. Whole(r, b)'
    BY <1>3, <2>2
  <2> QED BY <2>1, <2>3 DEF Whole, Chunks
<1> QED BY <1>4, <1>5, <1>6 DEF AnswerInv


-----------------------------------------------------------------------------
(* Parked chunks stay within their budget. *)

\* Chunks that leave keep the budget, and so does one more that fits in it.
LEMMA FewerParked == ASSUME ParkInv, Parked' \subseteq Parked PROVE ParkInv'
<1>1. IsFiniteSet(Parked') /\ Cardinality(Parked') <= Cardinality(Parked)
  BY FS_Subset DEF ParkInv
<1>2. Cardinality(Parked) \in Nat /\ Cardinality(Parked') \in Nat /\ MaxParked \in Nat
  BY <1>1, FS_CardinalityType, RelayAssumption DEF ParkInv
<1> QED BY <1>1, <1>2 DEF ParkInv, ParkedTotal

\* Parking one segment adds at most one to what is parked.
LEMMA OneMoreParked ==
  ASSUME ParkInv, NEW f, ~OverBudget(f), NEW x, Parked' \subseteq Parked \cup {x}
  PROVE  ParkInv'
<1>1. IsFiniteSet(Parked \cup {x}) /\ Cardinality(Parked \cup {x}) \in {Cardinality(Parked), Cardinality(Parked) + 1}
  BY FS_AddElement DEF ParkInv
<1>2. IsFiniteSet(Parked') /\ Cardinality(Parked') <= Cardinality(Parked \cup {x})
  BY <1>1, FS_Subset
<1>3. Cardinality(Parked) \in Nat /\ Cardinality(Parked') \in Nat /\ MaxParked \in Nat
  BY <1>2, FS_CardinalityType, RelayAssumption DEF ParkInv
<1> QED BY <1>1, <1>2, <1>3 DEF ParkInv, ParkedTotal, OverBudget

\* What is parked, pair by pair.
LEMMA ParkedPairs ==
  /\ \A x : x \in Parked <=> \E r \in Pending : \E c \in DOMAIN pending[r].parked : x = << r, c >>
  /\ \A x : x \in Parked' <=> \E r \in Pending' : \E c \in DOMAIN pending'[r].parked : x = << r, c >>
BY DEF Parked

\* Entries that leave take their parked chunks along.
LEMMA RestrictedParks == ASSUME ParkInv, Restricted PROVE ParkInv'
<1>1. Parked' \subseteq Parked
  BY ParkedPairs DEF Restricted
<1> QED BY <1>1, FewerParked

\* A new entry, or one that changed, parks nothing more than cs.
LEMMA EntryParks ==
  ASSUME NEW r, NEW p, NEW cs, pending' = WithPending(r, p),
         r \in Pending => DOMAIN p.parked \subseteq DOMAIN pending[r].parked \cup cs,
         r \notin Pending => DOMAIN p.parked \subseteq cs
  PROVE  Parked' \subseteq Parked \cup {<< r, c >> : c \in cs}
<1>1. DOMAIN pending' = Pending \cup {r} /\ pending'[r] = p /\ \A q \in Pending : q # r => pending'[q] = pending[q]
  BY DEF WithPending
<1> SUFFICES ASSUME NEW x \in Parked' PROVE x \in Parked \cup {<< r, c >> : c \in cs}
  OBVIOUS
<1>2. PICK q \in Pending' : \E c \in DOMAIN pending'[q].parked : x = << q, c >>
  BY ParkedPairs
<1>3. CASE q = r
  BY <1>1, <1>2, <1>3, ParkedPairs
<1>4. CASE q # r
  <2>1. q \in Pending /\ pending'[q] = pending[q]
    BY <1>1, <1>4 DEF Pending
  <2> QED BY <1>2, <2>1, ParkedPairs
<1> QED BY <1>3, <1>4

\* What a respond frame parks.
LEMMA RespondParks ==
  ASSUME TypeInv, WireInv, AnswerInv, ParkInv, NEW f \in wire,
         RespondLate(f) \/ RespondDuplicate(f) \/ RespondGap(f) \/ RespondNext(f)
  PROVE  ParkInv'
<1>1. CASE pending' = pending
  BY <1>1, RestrictedParks DEF Restricted, Pending
<1>2. CASE pending' = WithoutPending({f.req})
  <2>1. DOMAIN pending' = Pending \ {f.req} /\ \A q \in Pending \ {f.req} : pending'[q] = pending[q]
    BY <1>2, PendingWithout
  <2> QED BY <2>1, RestrictedParks DEF Restricted, Pending
<1>3. CASE RespondLate(f) \/ RespondDuplicate(f)
  BY <1>1, <1>3 DEF RespondLate, RespondDuplicate
<1>4. CASE RespondGap(f)
  <2>1. CASE FailRequest(f.req)
    BY <1>2, <2>1 DEF FailRequest
  <2>2. CASE ~FailRequest(f.req)
    <3>1. f.req \in Pending /\ ~OverBudget(f)
      BY <1>4, <2>2, GapEffect DEF RespondGap
    <3>2. PICK p : /\ pending' = WithPending(f.req, p)
                   /\ DOMAIN p.parked \subseteq DOMAIN pending[f.req].parked \cup {f.chunk}
      BY <1>4, <2>2, GapEffect
    <3>3. PICK cs : cs = {f.chunk}
      OBVIOUS
    <3>4. DOMAIN p.parked \subseteq DOMAIN pending[f.req].parked \cup cs
      BY <3>2, <3>3
    <3>5. Parked' \subseteq Parked \cup {<< f.req, c >> : c \in cs}
      BY <3>1, <3>2, <3>4, EntryParks
    <3>6. Parked' \subseteq Parked \cup {<< f.req, f.chunk >>}
      BY <3>3, <3>5
    <3> QED BY <3>1, <3>6, OneMoreParked
  <2> QED BY <2>1, <2>2
<1>5. CASE RespondNext(f)
  <2>1. CASE FailRequest(f.req)
    BY <1>2, <2>1 DEF FailRequest
  <2>2. CASE ~FailRequest(f.req) /\ pending' # WithoutPending({f.req})
    <3>1. f.req \in Pending
      BY <1>5 DEF RespondNext
    <3>2. PICK p : pending' = WithPending(f.req, p) /\ DOMAIN p.parked \subseteq DOMAIN pending[f.req].parked
      BY <1>5, <2>2, NextEffect
    <3>3. Parked' \subseteq Parked \cup {<< f.req, c >> : c \in {}}
      BY <3>1, <3>2, EntryParks
    <3>4. Parked' \subseteq Parked
      BY <3>3
    <3> QED BY <3>4, FewerParked
  <2> QED BY <1>2, <2>1, <2>2
<1> QED BY <1>3, <1>4, <1>5

\* Every step keeps the budget.
LEMMA ParkStep ==
  ASSUME TypeInv, OutcomeInv, WireInv, AnswerInv, ParkInv, [Next]_vars
  PROVE  ParkInv'
<1>1. ASSUME NEW r \in Reqs, LookUp(r) PROVE ParkInv'
  <2>1. pending' = pending
    BY <1>1 DEF LookUp, Return, Caller, dispatchVars, sessionVars, downVars
  <2> QED BY <2>1, RestrictedParks DEF Restricted, Pending
<1>2. ASSUME NEW r \in Reqs, PreflightFails(r) PROVE ParkInv'
  <2>1. pending' = pending
    BY <1>2 DEF PreflightFails, Return, Caller, dispatchVars, sessionVars, downVars
  <2> QED BY <2>1, RestrictedParks DEF Restricted, Pending
<1>3. ASSUME NEW r \in Reqs, Register(r) PROVE ParkInv'
  <2>1. r \notin Pending /\ pending' = WithPending(r, NoPending)
    BY <1>3 DEF Register, OutcomeInv, Before
  <2>2. DOMAIN NoPending.parked \subseteq {}
    BY DEF NoPending
  <2>3. Parked' \subseteq Parked \cup {<< r, c >> : c \in {}}
    BY <2>1, <2>2, EntryParks
  <2>4. Parked' \subseteq Parked
    BY <2>3
  <2> QED BY <2>4, FewerParked
<1>4. ASSUME NEW r \in Reqs, RegisterRefused(r) PROVE ParkInv'
  <2>1. pending' = pending
    BY <1>4 DEF RegisterRefused, Return, Caller, dispatchVars, sessionVars, downVars
  <2> QED BY <2>1, RestrictedParks DEF Restricted, Pending
<1>5. ASSUME NEW r \in Reqs, Send(r) PROVE ParkInv'
  <2>1. pending' = pending
    BY <1>5 DEF Send, LogRequest, Advance, dispatchVars, sessionVars, downVars
  <2> QED BY <2>1, RestrictedParks DEF Restricted, Pending
<1>6. ASSUME NEW r \in Reqs, SendFails(r) PROVE ParkInv'
  <2>1. pending' \in {pending, WithoutPending({r})}
    BY <1>6 DEF SendFails, DropPending
  <2>2. Restricted
    <3>1. CASE pending' = pending
      BY <3>1 DEF Restricted, Pending
    <3>2. CASE pending' = WithoutPending({r})
      <4>1. DOMAIN pending' = Pending \ {r} /\ \A q \in Pending \ {r} : pending'[q] = pending[q]
        BY <3>2, PendingWithout
      <4> QED BY <4>1 DEF Restricted, Pending
    <3> QED BY <2>1, <3>1, <3>2
  <2> QED BY <2>2, RestrictedParks
<1>7. ASSUME NEW r \in Reqs, Check(r) PROVE ParkInv'
  <2>1. pending' = pending
    BY <1>7 DEF Check, TakeResponse, Advance, dispatchVars, sessionVars, downVars
  <2> QED BY <2>1, RestrictedParks DEF Restricted, Pending
<1>8. ASSUME NEW r \in Reqs, WaitResponse(r) PROVE ParkInv'
  <2>1. pending' = pending
    BY <1>8 DEF WaitResponse, TakeResponse, dispatchVars, sessionVars, downVars
  <2> QED BY <2>1, RestrictedParks DEF Restricted, Pending
<1>9. ASSUME NEW r \in Reqs, WaitGone(r) PROVE ParkInv'
  <2>1. pending' = pending
    BY <1>9 DEF WaitGone, Return, Caller, dispatchVars, sessionVars, downVars
  <2> QED BY <2>1, RestrictedParks DEF Restricted, Pending
<1>10. ASSUME NEW r \in Reqs, WaitGivesUp(r) PROVE ParkInv'
  <2>1. pending' \in {pending, WithoutPending({r})}
    BY <1>10 DEF WaitGivesUp, DropPending
  <2>2. Restricted
    <3>1. CASE pending' = pending
      BY <3>1 DEF Restricted, Pending
    <3>2. CASE pending' = WithoutPending({r})
      <4>1. DOMAIN pending' = Pending \ {r} /\ \A q \in Pending \ {r} : pending'[q] = pending[q]
        BY <3>2, PendingWithout
      <4> QED BY <4>1 DEF Restricted, Pending
    <3> QED BY <2>1, <3>1, <3>2
  <2> QED BY <2>2, RestrictedParks
<1>11. ASSUME NEW r \in Reqs, ExpireRequest(r) PROVE ParkInv'
  <2>1. pending' = pending
    BY <1>11 DEF ExpireRequest, dispatchVars, sessionVars, downVars
  <2> QED BY <2>1, RestrictedParks DEF Restricted, Pending
<1>12. ASSUME NEW r \in Reqs, FailExpired(r) PROVE ParkInv'
  <2>1. pending' \in {pending, WithoutPending({r})}
    BY <1>12 DEF FailExpired, FailRequest
  <2>2. Restricted
    <3>1. CASE pending' = pending
      BY <3>1 DEF Restricted, Pending
    <3>2. CASE pending' = WithoutPending({r})
      <4>1. DOMAIN pending' = Pending \ {r} /\ \A q \in Pending \ {r} : pending'[q] = pending[q]
        BY <3>2, PendingWithout
      <4> QED BY <4>1 DEF Restricted, Pending
    <3> QED BY <2>1, <3>1, <3>2
  <2> QED BY <2>2, RestrictedParks
<1>13. ASSUME NEW r \in Reqs, AckRequest(r) PROVE ParkInv'
  <2>1. pending' = pending
    BY <1>13 DEF AckRequest, dispatchVars, sessionVars, downVars
  <2> QED BY <2>1, RestrictedParks DEF Restricted, Pending
<1>14. ASSUME NEW r \in Reqs, HostRuns(r) PROVE ParkInv'
  <2>1. pending' = pending
    BY <1>14 DEF HostRuns, dispatchVars, sessionVars, downVars
  <2> QED BY <2>1, RestrictedParks DEF Restricted, Pending
<1>15. ASSUME NEW r \in Reqs, HostSends(r) PROVE ParkInv'
  <2>1. pending' = pending
    BY <1>15 DEF HostSends, Frame, dispatchVars, sessionVars, downVars
  <2> QED BY <2>1, RestrictedParks DEF Restricted, Pending
<1>16. ASSUME NEW r \in Reqs, HostForgets(r) PROVE ParkInv'
  <2>1. pending' = pending
    BY <1>16 DEF HostForgets, dispatchVars, sessionVars, downVars
  <2> QED BY <2>1, RestrictedParks DEF Restricted, Pending
<1>17. ASSUME NEW f \in wire, AcceptRespond(f), RespondLate(f) PROVE ParkInv'
  BY <1>17, RespondParks
<1>18. ASSUME NEW f \in wire, AcceptRespond(f), RespondDuplicate(f) PROVE ParkInv'
  BY <1>18, RespondParks
<1>19. ASSUME NEW f \in wire, AcceptRespond(f), RespondGap(f) PROVE ParkInv'
  BY <1>19, RespondParks
<1>20. ASSUME NEW f \in wire, AcceptRespond(f), RespondNext(f) PROVE ParkInv'
  BY <1>20, RespondParks
<1>21. ASSUME NEW s \in 1 .. last, Finish(s) PROVE ParkInv'
  <2>1. pending' = pending
    BY <1>21 DEF Finish, dispatchVars, sessionVars, downVars
  <2> QED BY <2>1, RestrictedParks DEF Restricted, Pending
<1>22. ASSUME NEW s \in 1 .. last, Detach(s) PROVE ParkInv'
  <2>1. Pending' = {}
    BY <1>22 DEF Detach, FailPending, dispatchVars, sessionVars, downVars, Pending
  <2> QED BY <2>1, RestrictedParks DEF Restricted
<1>23. ASSUME AttachResume PROVE ParkInv'
  <2>1. pending' = pending
    BY <1>23 DEF AttachResume, dispatchVars, sessionVars, downVars
  <2> QED BY <2>1, RestrictedParks DEF Restricted, Pending
<1>24. ASSUME AttachNewEpoch PROVE ParkInv'
  <2>1. Pending' = {}
    BY <1>24 DEF AttachNewEpoch, dispatchVars, sessionVars, downVars, Pending
  <2> QED BY <2>1, RestrictedParks DEF Restricted
<1>25. ASSUME ExpireTombstone PROVE ParkInv'
  <2>1. pending' = pending
    BY <1>25 DEF ExpireTombstone, dispatchVars, sessionVars, downVars
  <2> QED BY <2>1, RestrictedParks DEF Restricted, Pending
<1>26. CASE UNCHANGED vars
  BY <1>26, RestrictedParks DEF vars, dispatchVars, Restricted, Pending
<1> QED
  BY <1>1, <1>2, <1>3, <1>4, <1>5, <1>6, <1>7, <1>8, <1>9, <1>10, <1>11, <1>12, <1>13,
     <1>14, <1>15, <1>16, <1>17, <1>18, <1>19, <1>20, <1>21, <1>22, <1>23, <1>24,
     <1>25, <1>26 DEF Next, Dispatch, AcceptRespond

-----------------------------------------------------------------------------
(* The theorems. *)

\* All the parts together are inductive: outcomes rest on the entries they count,
\* tombstones on outcomes and on what was sent, and answers on the agreement of
\* the frames that the host sent.
RelayInv == TypeInv /\ OutcomeInv /\ LoggedInv /\ TombInv /\ WireInv /\ AnswerInv /\ ParkInv

\* A hub without a session has no request.
LEMMA InitRelay == Init => RelayInv
<1> SUFFICES ASSUME Init PROVE RelayInv
  OBVIOUS
<1>1. /\ caller = [r \in Reqs |-> Caller] /\ pending = << >> /\ resp = [r \in Reqs |-> << >>]
      /\ gone = {} /\ tombs = << >> /\ session = None /\ last = None
      /\ downLog = {} /\ reqAcks = {} /\ expired = {} /\ host = [r \in Reqs |-> Unknown] /\ wire = {}
  BY DEF Init
<1>2. Pending = {}
  BY <1>1 DEF Pending
<1>3. DOMAIN Caller = {"pc", "sess", "result", "body"} /\ Caller.pc = "new" /\ Caller.result = "none"
  BY DEF Caller
<1>4. DOMAIN Unknown = {"state", "n", "bad"} /\ Unknown.state = "unknown"
  BY DEF Unknown
<1>5. TypeInv
  BY <1>1, <1>2, <1>3, <1>4, FS_EmptySet DEF TypeInv, None
<1>6. OutcomeInv
  BY <1>1, <1>2, <1>3 DEF OutcomeInv, Before, Waiting
<1>7. LoggedInv
  BY <1>1 DEF LoggedInv
<1>8. TombInv
  <2>1. DOMAIN tombs = {} /\ tombs \in Seq(Tombstones)
    BY <1>1
  <2> QED BY <1>1, <1>4, <2>1 DEF TombInv, Distinct
<1>9. WireInv
  BY <1>1 DEF WireInv
<1>10. AnswerInv
  BY <1>1, <1>2, <1>3 DEF AnswerInv
<1>11. ParkInv
  <2>1. Parked = {}
    BY <1>2 DEF Parked
  <2> QED BY <2>1, FS_EmptySet, RelayAssumption DEF ParkInv, ParkedTotal
<1> QED BY <1>5, <1>6, <1>7, <1>8, <1>9, <1>10, <1>11 DEF RelayInv

\* The invariant holds in every reachable state.
THEOREM RelayInvariant == Spec => []RelayInv
<1>1. RelayInv /\ [Next]_vars => RelayInv'
  <2> SUFFICES ASSUME RelayInv, [Next]_vars PROVE RelayInv'
    OBVIOUS
  <2>1. TypeInv /\ OutcomeInv /\ LoggedInv /\ TombInv /\ WireInv /\ AnswerInv /\ ParkInv
    BY DEF RelayInv
  <2>2. TypeInv' /\ OutcomeInv' /\ LoggedInv'
    BY <2>1, TypeStep, OutcomeStep, LoggedStep
  <2>3. TombInv' /\ WireInv'
    BY <2>1, TombStep, WireStep
  <2>4. AnswerInv' /\ ParkInv'
    BY <2>1, AnswerStep, ParkStep
  <2> QED BY <2>2, <2>3, <2>4 DEF RelayInv
<1> QED BY <1>1, InitRelay, PTL DEF Spec

\* A waiting browser has exactly one thing coming, and a pending request an
\* attached session (Dispatch, failPendingLocked, detach).
THEOREM OneOutcomeComes == Spec => []OneOutcome
<1>1. RelayInv => OneOutcome
  <2> SUFFICES ASSUME RelayInv, NEW r \in Reqs
               PROVE  /\ r \in Pending => session # None /\ Waiting(r) /\ resp[r] = << >> /\ r \notin gone
                      /\ Len(resp[r]) <= 1 /\ (resp[r] # << >> => r \notin gone)
                      /\ Waiting(r) => r \in Pending \/ resp[r] # << >> \/ r \in gone
    BY DEF OneOutcome
  <2>1. OutcomeInv
    BY DEF RelayInv
  <2>2. Len(resp[r]) <= 1
    <3>1. CASE resp[r] = << >>
      BY <3>1
    <3>2. CASE \E x : resp[r] = << x >>
      BY <3>2
    <3> QED BY <2>1, <3>1, <3>2 DEF OutcomeInv
  <2> QED BY <2>1, <2>2 DEF OutcomeInv
<1> QED BY <1>1, RelayInvariant, PTL

\* A tombstone is of a settled request, a done one of an answered request, and the
\* host forgets nothing that a browser still waits for (addRelayTombstoneLocked,
\* relayAcksLocked).
THEOREM TombstonesAreFinal == Spec => []TombstonesAreVerdicts
<1>1. RelayInv => TombstonesAreVerdicts
  BY DEF RelayInv, TombInv, TombstonesAreVerdicts, Done
<1> QED BY <1>1, RelayInvariant, PTL

\* No step turns a done tombstone into an abort (addAbortTombstoneLocked).
THEOREM DoneStaysDone == Spec => DoneIsSticky
<1>1. RelayInv /\ [Next]_vars =>
          [\A r \in Reqs : Done(r) => \A i \in DOMAIN tombs' : tombs'[i].req = r => tombs'[i].done]_vars
  <2> SUFFICES ASSUME RelayInv, [Next]_vars, NEW r \in Reqs, Done(r), NEW i \in DOMAIN tombs', tombs'[i].req = r
               PROVE  tombs'[i].done
    OBVIOUS
  <2>1. TypeInv /\ OutcomeInv /\ LoggedInv /\ TombInv
    BY DEF RelayInv
  <2> QED BY <2>1, TombChange, DoneStays
<1> QED BY <1>1, RelayInvariant, PTL DEF Spec, DoneIsSticky

\* Chunks parked ahead of a gap stay within the budget of the host, and each really
\* waits (acceptRespond).
THEOREM ParkingIsBounded == Spec => []ParkedWithinBudget
<1>1. RelayInv => ParkedWithinBudget
  BY DEF RelayInv, ParkInv, AnswerInv, EntryOK, ParkedWithinBudget
<1> QED BY <1>1, RelayInvariant, PTL

\* The answer a browser gets is the whole answer of the host, each chunk once and
\* in order (acceptRespond, applyRespondLocked).
THEOREM AnswersArriveWhole == Spec => []AnswerIntact
<1>1. RelayInv => AnswerIntact
  <2> SUFFICES ASSUME RelayInv, NEW r \in Reqs, caller[r].result = "ok"
               PROVE  /\ \A i \in DOMAIN caller[r].body : caller[r].body[i] = i
                      /\ host[r] # Unknown => Len(caller[r].body) = host[r].n
    BY DEF AnswerIntact
  <2>1. Whole(r, caller[r].body)
    BY DEF RelayInv, AnswerInv
  <2>2. PICK f \in wire : f.req = r /\ ~f.more /\ Chunks(caller[r].body, f.chunk)
    BY <2>1 DEF Whole
  <2>3. caller[r].body \in Seq(Nat) /\ Len(caller[r].body) = f.chunk /\ \A i \in 1 .. f.chunk : caller[r].body[i] = i
    BY <2>2 DEF Chunks
  <2>4. f.chunk \in Nat /\ MaxChunks \in Nat /\ WireInv
    BY RelayAssumption DEF RelayInv, WireInv
  <2>5. host[r] # Unknown => f.chunk = host[r].n
    BY <2>2, <2>4 DEF WireInv
  <2> QED BY <2>3, <2>5
<1> QED BY <1>1, RelayInvariant, PTL

=============================================================================
