------------------------------- MODULE Relay --------------------------------
(***************************************************************************)
(* The request relay of one host: browser requests (Hub.Dispatch), the     *)
(* pending table, the chunked answers the host sends back (acceptRespond), *)
(* and the tombstones that tell the host which answers it may forget       *)
(* (internal/hub/hub.go).                                                  *)
(*                                                                         *)
(* Dispatch is a goroutine per request and releases h.mu several times;    *)
(* each stretch between two releases is an action.  Of the HTTP statuses it *)
(* returns only "ok" and the 504 of a timeout are told apart from the      *)
(* others (404, 429, 499, 502, 503: "error").  The pending table, the      *)
(* tombstones and the registered session are only touched under h.mu.  A   *)
(* chunk is its number in the answer; the host process is external.        *)
(***************************************************************************)
EXTENDS Wire, FiniteSetsExt, SequencesExt

CONSTANTS Reqs,           \* request ids (never reused within one hub process)
          MaxSessions,    \* bound: sessions attached in one behaviour
          MaxEpoch,       \* bound: host processes
          MaxChunks,      \* bound: chunks of one answer
          MaxPending,     \* maxPendingRelayPerHost
          MaxParked,      \* maxParkedRelayChunksPerHost
          MaxTombstones   \* maxRelayTombstonesPerHost

ASSUME RelayAssumption ==
    {MaxSessions, MaxEpoch, MaxChunks, MaxPending, MaxTombstones} \subseteq Nat \ {0}
    /\ MaxParked \in Nat

VARIABLES
    caller,     \* caller[r]: pc, captured session and result of Dispatch
    pending,    \* pending[r]: the pendingReq of r, on the pending reqIds
    resp,       \* resp[r]: pendingReq.resp, a channel of capacity 1
    gone,       \* requests whose pendingReq.done is closed
    tombs,      \* relayTombstones, oldest first
    session,    \* the registered session, or None
    last,       \* the newest session id
    finished,   \* sessions whose finished flag is set
    epoch,      \* epoch[s]: the sequence space session s was attached in
    downLog,    \* requests logged and unacked in the newest space
    reqAcks,    \* ... whose delivery deadline still runs
    expired,    \* taken by expireRequests, about to be failed
    host,       \* host[r]: what the host process has of r (external)
    wire        \* respond frames on their way to the hub

dispatchVars == << caller, pending, resp, gone, tombs >>
sessionVars  == << session, last, finished, epoch >>
downVars     == << downLog, reqAcks, expired >>
vars == << dispatchVars, sessionVars, downVars, host, wire >>

None == 0
CurrentEpoch == IF last = None THEN 0 ELSE epoch[last]

Caller == [pc |-> "new", sess |-> None, result |-> "none", body |-> << >>]
NoPending == [next |-> 0, parked |-> << >>, body |-> << >>]

\* What the host process knows of a request; an answer has n chunks, of which
\* number bad (0: none) cannot be decoded, or makes the body invalid or too big.
Unknown == [state |-> "unknown", n |-> 0, bad |-> 0]

Frame(r, c) == [req |-> r, chunk |-> c, more |-> c < host[r].n, bad |-> c = host[r].bad]

Answer(b) == [status |-> "ok", body |-> b]
Failure == [status |-> "error", body |-> << >>]

Init ==
    /\ caller = [r \in Reqs |-> Caller]
    /\ pending = << >> /\ resp = [r \in Reqs |-> << >>] /\ gone = {} /\ tombs = << >>
    /\ session = None /\ last = None /\ finished = {}
    /\ epoch = [s \in 1 .. MaxSessions |-> 0]
    /\ downLog = {} /\ reqAcks = {} /\ expired = {}
    /\ host = [r \in Reqs |-> Unknown] /\ wire = {}

-----------------------------------------------------------------------------
(* The pending table and the tombstones, under h.mu. *)

Pending == DOMAIN pending

WithPending(r, p) == [q \in Pending \cup {r} |-> IF q = r THEN p ELSE pending[q]]
WithoutPending(rs) == [q \in Pending \ rs |-> pending[q]]

Done(r) == \E i \in DOMAIN tombs : tombs[i].req = r /\ tombs[i].done

\* Over the limit the oldest entries are evicted.
Newest(ts) ==
    IF Len(ts) > MaxTombstones THEN SubSeq(ts, Len(ts) - MaxTombstones + 1, Len(ts)) ELSE ts

Tombstone(r, done) == [req |-> r, done |-> done]

\* A new entry replaces the old one of its request: the table is a map.
AddTombstone(ts, r, done) ==
    LET old  == {i \in DOMAIN ts : ts[i].req = r}
        kept == IF old = {} THEN ts ELSE RemoveAt(ts, CHOOSE i \in old : TRUE)
    IN  Newest(Append(kept, Tombstone(r, done)))

\* Mutant: an abort replaces whatever is recorded.
AddAbort_Always(ts, r) == AddTombstone(ts, r, FALSE)

\* A request that already completed keeps its done tombstone.
AddAbort(ts, r) ==
    IF \E i \in DOMAIN ts : ts[i].req = r /\ ts[i].done THEN ts ELSE AddTombstone(ts, r, FALSE)

\* takePendingLocked, the abort tombstone and the answer channel: how one
\* request fails (failRelayRequestLocked, failRequest).
FailRequest_KeepsPending(r) ==   \* Mutant: the entry stays in the table.
    /\ pending' = pending
    /\ tombs' = AddAbort(tombs, r)
    /\ resp' = [resp EXCEPT ![r] = Append(@, Failure)]

FailRequest(r) ==
    /\ pending' = WithoutPending({r})
    /\ tombs' = AddAbort(tombs, r)
    /\ resp' = [resp EXCEPT ![r] = Append(@, Failure)]

\* failPendingLocked: every pending request, in the order of a map iteration, gets
\* an abort.  None has a tombstone yet (TombstonesAreVerdicts).
FailPending ==
    /\ \E order \in SetToSeqs(Pending) :
           tombs' = Newest(tombs \o [i \in DOMAIN order |-> Tombstone(order[i], FALSE)])
    /\ gone' = gone \cup Pending
    /\ pending' = << >>

\* dropPending: the browser stops waiting.
DropPending(r) ==
    IF r \in Pending
    THEN tombs' = AddAbort(tombs, r) /\ pending' = WithoutPending({r})
    ELSE UNCHANGED << tombs, pending >>

-----------------------------------------------------------------------------
(* Dispatch. *)

\* The goroutine and what it captured are gone.
Return(r, result) == caller' = [caller EXCEPT ![r] = [Caller EXCEPT !.pc = "returned", !.result = result]]

Advance(r, pc) == caller' = [caller EXCEPT ![r].pc = pc]

TableFull == Cardinality(Pending) >= MaxPending

LookUp(r) ==
    /\ caller[r].pc = "new"
    /\ IF session = None \/ TableFull
       THEN Return(r, "error")
       ELSE caller' = [caller EXCEPT ![r].pc = "preflight", ![r].sess = session]
    /\ UNCHANGED << pending, resp, gone, tombs, sessionVars, downVars, host, wire >>

\* The link was silent and the probe failed, or the browser left meanwhile.
PreflightFails(r) ==
    /\ caller[r].pc = "preflight"
    /\ Return(r, "error")
    /\ UNCHANGED << pending, resp, gone, tombs, sessionVars, downVars, host, wire >>

\* Mutant: the check in front of the probe is trusted.
MayRegister_Unchecked(r) == ~TableFull

\* After the probe both checks are made again.
MayRegister(r) == session = caller[r].sess /\ ~TableFull

Register(r) ==
    /\ caller[r].pc = "preflight" /\ MayRegister(r)
    /\ pending' = WithPending(r, NoPending)
    /\ Advance(r, "send")
    /\ UNCHANGED << resp, gone, tombs, sessionVars, downVars, host, wire >>

RegisterRefused(r) ==
    /\ caller[r].pc = "preflight" /\ ~MayRegister(r)
    /\ Return(r, "error")
    /\ UNCHANGED << pending, resp, gone, tombs, sessionVars, downVars, host, wire >>

\* session.dispatch logs the request in the space its session belongs to.
LogRequest(r) ==
    IF epoch[caller[r].sess] = CurrentEpoch
    THEN downLog' = downLog \cup {r} /\ reqAcks' = reqAcks \cup {r} /\ UNCHANGED expired
    ELSE UNCHANGED downVars

Send(r) ==
    /\ caller[r].pc = "send" /\ caller[r].sess \notin finished
    /\ LogRequest(r)
    /\ Advance(r, "check")
    /\ UNCHANGED << pending, resp, gone, tombs, sessionVars, host, wire >>

\* The session has ended, or the log is over its byte cap: then the request
\* stays logged all the same.
SendFails(r) ==
    /\ caller[r].pc = "send"
    /\ IF caller[r].sess \in finished THEN UNCHANGED downVars ELSE LogRequest(r)
    /\ DropPending(r)
    /\ Return(r, "error")
    /\ UNCHANGED << resp, gone, sessionVars, host, wire >>

TakeResponse(r) ==
    /\ resp' = [resp EXCEPT ![r] = Tail(@)]
    /\ caller' = [caller EXCEPT ![r] = [pc |-> "returned", sess |-> None,
                      result |-> Head(resp[r]).status, body |-> Head(resp[r]).body]]

\* A response that is already there is taken first ...
Check(r) ==
    /\ caller[r].pc = "check"
    /\ IF resp[r] # << >> THEN TakeResponse(r) ELSE Advance(r, "wait") /\ UNCHANGED resp
    /\ UNCHANGED << pending, gone, tombs, sessionVars, downVars, host, wire >>

\* ... and then the first ready case of the select, any of them.
WaitResponse(r) ==
    /\ caller[r].pc = "wait" /\ resp[r] # << >>
    /\ TakeResponse(r)
    /\ UNCHANGED << pending, gone, tombs, sessionVars, downVars, host, wire >>

WaitGone(r) ==
    /\ caller[r].pc = "wait" /\ r \in gone
    /\ Return(r, "error")
    /\ UNCHANGED << pending, resp, gone, tombs, sessionVars, downVars, host, wire >>

\* The browser's context is cancelled, or RelayTimeout has passed.
WaitGivesUp(r) ==
    /\ caller[r].pc = "wait"
    /\ DropPending(r)
    /\ \E result \in {"error", "504"} : Return(r, result)
    /\ UNCHANGED << resp, gone, sessionVars, downVars, host, wire >>

-----------------------------------------------------------------------------
(* acceptRespond: one respond frame, under h.mu. *)

Parked == UNION {{r} \X DOMAIN pending[r].parked : r \in Pending}
ParkedTotal == Cardinality(Parked)

\* Mutants: one chunk too many is parked; a repeated chunk is applied again.
OverBudget_OffByOne(f) == ParkedTotal > MaxParked
Duplicate_Newest(f) == f.chunk < pending[f.req].next

OverBudget(f) == ParkedTotal + 1 > MaxParked
Duplicate(f)  == f.chunk <= pending[f.req].next
Gap(f)        == f.chunk > pending[f.req].next + 1

\* No pending entry: the host is told to drop the answer.
RespondLate(f) ==
    /\ f.req \notin Pending
    /\ tombs' = AddAbort(tombs, f.req)
    /\ UNCHANGED << pending, resp >>

RespondDuplicate(f) ==
    /\ f.req \in Pending /\ Duplicate(f)
    /\ UNCHANGED << pending, resp, tombs >>

RespondGap(f) ==
    /\ f.req \in Pending /\ ~Duplicate(f) /\ Gap(f)
    /\ IF OverBudget(f)
       THEN FailRequest(f.req)
       ELSE LET p == pending[f.req]
                parked == [c \in DOMAIN p.parked \cup {f.chunk} |->
                               IF c \in DOMAIN p.parked THEN p.parked[c] ELSE f]
            IN  /\ pending' = WithPending(f.req, [p EXCEPT !.parked = parked])
                /\ UNCHANGED << resp, tombs >>

\* applyRespondLocked on the chunk and on the parked ones behind it, up to the
\* first that ends the request: a bad one fails it, the last one answers it.
RespondNext(f) ==
    /\ f.req \in Pending /\ ~Duplicate(f) /\ ~Gap(f)
    /\ LET p     == pending[f.req]
           At(c) == IF c = f.chunk THEN f ELSE p.parked[c]
           run   == f.chunk .. RunEnd(p.parked, f.chunk)
           ends  == {c \in run : At(c).bad \/ ~At(c).more}
           stop  == IF ends = {} THEN RunEnd(p.parked, f.chunk) ELSE Min(ends)
           body  == p.body \o [i \in 1 .. (stop - f.chunk + 1) |-> f.chunk + i - 1]
       IN  CASE ends = {} ->
                  /\ pending' = WithPending(f.req, [next |-> stop, body |-> body,
                         parked |-> [c \in {d \in DOMAIN p.parked : d > stop} |-> p.parked[c]]])
                  /\ UNCHANGED << resp, tombs >>
             [] ends # {} /\ At(stop).bad -> FailRequest(f.req)
             [] OTHER ->
                  /\ pending' = WithoutPending({f.req})
                  /\ tombs' = AddTombstone(tombs, f.req, TRUE)
                  /\ resp' = [resp EXCEPT ![f.req] = Append(@, Answer(body))]

\* The frame stays: the host may send it again.  One that is never accepted
\* is a lost one.
AcceptRespond(f) ==
    /\ f \in wire
    /\ RespondLate(f) \/ RespondDuplicate(f) \/ RespondGap(f) \/ RespondNext(f)
    /\ UNCHANGED << caller, gone, sessionVars, downVars, host, wire >>

-----------------------------------------------------------------------------
(* Sessions. *)

\* Some loop still serves the newest sequence space.
Live == \E s \in 1 .. last : s \notin finished /\ epoch[s] = CurrentEpoch

\* A same-epoch attach keeps the pending requests; resume.down releases the
\* requests the host has received.
AttachResume ==
    /\ last # None /\ last < MaxSessions
    /\ last' = last + 1 /\ session' = last + 1
    /\ epoch' = [epoch EXCEPT ![last + 1] = CurrentEpoch]
    /\ downLog' = {r \in downLog : host[r] = Unknown}
    /\ reqAcks' = {r \in reqAcks : host[r] = Unknown}
    /\ UNCHANGED << dispatchVars, finished, expired, host, wire >>

\* A new epoch fails what was pending and forgets the relay memory.
AttachNewEpoch ==
    /\ last < MaxSessions /\ CurrentEpoch < MaxEpoch
    /\ last' = last + 1 /\ session' = last + 1
    /\ epoch' = [epoch EXCEPT ![last + 1] = CurrentEpoch + 1]
    /\ gone' = gone \cup Pending /\ pending' = << >> /\ tombs' = << >>
    /\ downLog' = {} /\ reqAcks' = {}
    /\ host' = [r \in Reqs |-> Unknown]
    /\ UNCHANGED << caller, resp, finished, expired, wire >>

\* finish sets the flag first and detaches in a later step.
Finish(s) ==
    /\ s \notin finished
    /\ finished' = finished \cup {s}
    /\ UNCHANGED << dispatchVars, session, last, epoch, downVars, host, wire >>

Detach(s) ==
    /\ s \in finished /\ session = s
    /\ session' = None
    /\ FailPending
    /\ UNCHANGED << caller, resp, last, finished, epoch, downVars, host, wire >>

\* expireRequests, under proto.mu, on requests written and never acked ...
ExpireRequest(r) ==
    /\ Live /\ r \in reqAcks
    /\ reqAcks' = reqAcks \ {r} /\ expired' = expired \cup {r}
    /\ UNCHANGED << dispatchVars, sessionVars, downLog, host, wire >>

\* ... then failRequest, under h.mu.
FailExpired(r) ==
    /\ r \in expired
    /\ expired' = expired \ {r}
    /\ IF r \in Pending THEN FailRequest(r) ELSE UNCHANGED << pending, tombs, resp >>
    /\ UNCHANGED << caller, gone, sessionVars, downLog, reqAcks, host, wire >>

\* ackDown: the cumulative ack covers the request.
AckRequest(r) ==
    /\ Live /\ r \in downLog /\ host[r] # Unknown
    /\ downLog' = downLog \ {r} /\ reqAcks' = reqAcks \ {r}
    /\ UNCHANGED << dispatchVars, sessionVars, expired, host, wire >>

\* relayAcksLocked drops entries older than their TTL.
ExpireTombstone ==
    /\ tombs # << >>
    /\ tombs' = Tail(tombs)
    /\ UNCHANGED << caller, pending, resp, gone, sessionVars, downVars, host, wire >>

-----------------------------------------------------------------------------
(* The host process (external): it runs a request once, sends and resends *)
(* the chunks of its answer in any order, and forgets it when told so.    *)

HostRuns(r) ==
    /\ Live /\ r \in downLog /\ host[r] = Unknown
    /\ \E n \in 1 .. MaxChunks : \E bad \in {0, n} :
           host' = [host EXCEPT ![r] = [state |-> "running", n |-> n, bad |-> bad]]
    /\ UNCHANGED << dispatchVars, sessionVars, downVars, wire >>

HostSends(r) ==
    /\ Live /\ host[r].state = "running"
    /\ \E c \in 1 .. host[r].n : Frame(r, c) \notin wire /\ wire' = wire \cup {Frame(r, c)}
    /\ UNCHANGED << dispatchVars, sessionVars, downVars, host >>

\* The acknowledgement table of a heartbeat or hello_ack.
HostForgets(r) ==
    /\ Live /\ host[r].state = "running"
    /\ r \notin Pending /\ \E i \in DOMAIN tombs : tombs[i].req = r
    /\ host' = [host EXCEPT ![r].state = "forgot"]
    /\ UNCHANGED << dispatchVars, sessionVars, downVars, wire >>

-----------------------------------------------------------------------------

Dispatch(r) ==
    \/ LookUp(r) \/ PreflightFails(r) \/ Register(r) \/ RegisterRefused(r) \/ Send(r)
    \/ SendFails(r) \/ Check(r) \/ WaitResponse(r) \/ WaitGone(r) \/ WaitGivesUp(r)

Next ==
    \/ \E r \in Reqs : \/ Dispatch(r) \/ ExpireRequest(r) \/ FailExpired(r) \/ AckRequest(r)
                       \/ HostRuns(r) \/ HostSends(r) \/ HostForgets(r)
    \/ \E f \in wire : AcceptRespond(f)
    \/ \E s \in 1 .. last : Finish(s) \/ Detach(s)
    \/ AttachResume \/ AttachNewEpoch \/ ExpireTombstone

Spec == Init /\ [][Next]_vars

-----------------------------------------------------------------------------
(* Properties. *)

Waiting(r) == caller[r].pc \in {"send", "check", "wait"}

\* A waiting browser has exactly one thing coming: its entry is still pending,
\* or its answer is in the channel, or its done channel is closed.  It is never
\* orphaned: a pending request has an attached session that can answer it, though
\* Dispatch lets go of the host while it probes, and no second send can block
\* the hub on the one-slot channel (Dispatch, failPendingLocked, detach).
OneOutcome ==
    \A r \in Reqs :
        /\ r \in Pending => session # None /\ Waiting(r) /\ resp[r] = << >> /\ r \notin gone
        /\ Len(resp[r]) <= 1 /\ (resp[r] # << >> => r \notin gone)
        /\ Waiting(r) => r \in Pending \/ resp[r] # << >> \/ r \in gone

\* The answer a browser gets is the whole answer, each chunk once and in
\* order, through reordering, repetition and retransmission of its chunks.
AnswerIntact ==
    \A r \in Reqs : caller[r].result = "ok" =>
        /\ \A i \in DOMAIN caller[r].body : caller[r].body[i] = i
        /\ host[r] # Unknown => Len(caller[r].body) = host[r].n

\* Chunks parked ahead of a gap never exceed the budget of the host, and a
\* parked chunk really waits: the one in front of it has not been applied.
ParkedWithinBudget ==
    /\ ParkedTotal <= MaxParked
    /\ \A r \in Pending : \A c \in DOMAIN pending[r].parked : c > pending[r].next + 1

\* A tombstone is a verdict: its request is settled, a done one by an answer;
\* so a host that forgets an answer on its word takes it from nobody.
TombstonesAreVerdicts ==
    /\ \A i \in DOMAIN tombs : tombs[i].req \notin Pending
    /\ \A r \in Reqs : Done(r) => r \notin gone /\ \A i \in DOMAIN resp[r] : resp[r][i].status = "ok"
    /\ \A r \in Reqs : host[r].state = "forgot" => r \notin Pending

\* "A late duplicate chunk must not turn a delivered answer into an aborted
\* one": a done tombstone is evicted or expires, it never becomes an abort.
DoneIsSticky ==
    [][\A r \in Reqs : Done(r) =>
           \A i \in DOMAIN tombs' : tombs'[i].req = r => tombs'[i].done]_vars
=============================================================================
