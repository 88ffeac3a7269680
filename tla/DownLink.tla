------------------------------- MODULE DownLink -------------------------------
(***************************************************************************)
(* The downlink of one host: the reliable log that a sequence space keeps  *)
(* (sessionProto), the audience snapshot that is updated in place in it,   *)
(* request deadlines, and the writer goroutine of every session that puts  *)
(* the log on a transport (internal/hub/session.go, writer.go, hub.go).    *)
(*                                                                         *)
(* An audience is its generation: a generation is minted whenever the      *)
(* viewing set differs from the last snapshot, so the two determine each   *)
(* other.  A log entry carries a generation, or 0 when it is a relay       *)
(* request.  Actions end where proto.mu or h.mu is released.  Control      *)
(* frames are left out: heartbeats only wake the writer, at any time.      *)
(***************************************************************************)
EXTENDS Wire, SequencesExt

CONSTANTS MaxSessions,   \* bound: transports opened in one behaviour
          MaxEpoch,      \* bound: host processes
          MaxChanges,    \* bound: changes of the viewing set
          MaxRequests,   \* bound: relay requests
          MaxSeq,        \* bound: down seqs
          MaxLink,       \* frames a transport holds before a write blocks
          Batch          \* retransmitBatch

ASSUME DownLinkAssumption ==
    /\ {MaxSessions, MaxEpoch, MaxSeq, MaxLink, Batch} \subseteq Nat \ {0}
    /\ {MaxChanges, MaxRequests} \subseteq Nat

Sessions == 1 .. MaxSessions
Epochs   == 1 .. MaxEpoch
None     == 0
Request  == 0

VARIABLES
    reg,        \* hostState: session, epoch, audienceGen, and whether the viewing
                \* set has changed since that generation was minted
    notifiers,  \* goroutines between a change and their notifyAudience
    proto,      \* proto[e]: the protocol state of sequence space e
    sess,       \* sess[s]: the session loop and its writer
    pushes,     \* pushAudience calls under way
    link,       \* link[s]: frames on the transport of s, oldest first
    acks,       \* acks[s]: the newest down watermark the host has reported on s
    host,       \* the host process (external): epoch, link, receiver, generation
    handed,     \* history: handed[s], the seqs completely written on transport s
    expired,    \* history: << epoch, seq >> of requests failed as never acked
    missed,     \* history: the host discarded a newer generation of a seq it had parked
    doubled,    \* history: a writer wrote while a later one of its epoch was at work
    changes, requests   \* how much of the bounds is used

histVars == << handed, expired, missed, doubled, changes, requests >>
vars == << reg, notifiers, proto, sess, pushes, link, acks, host, histVars >>

\* sessionProto: the down sender; audienceSeq, audienceGen, audienceSentGen;
\* the newest generation pushed, the one to be sent again (0: none), and the
\* unacked requests, armed once their frame was written.
NewProto == [down |-> NewSender(0), seq |-> 0, gen |-> 0, sentGen |-> 0,
             latest |-> 0, resend |-> 0, reqAcks |-> << >>]

\* A session: its loop, its writer's program counter, the entries the writer
\* holds, its progress watermark and its rewrite slot; aud is hello_ack's.
NewSession == [pc |-> "new", epoch |-> 0, old |-> None, aud |-> 0, stop |-> FALSE,
               lastAck |-> 0, wpc |-> "none", batch |-> << >>, written |-> 0, rewrite |-> 0]

Finished(s) == sess[s].pc \notin {"hello", "idle", "take"}

Init ==
    /\ reg = [session |-> None, epoch |-> 0, gen |-> 0, stale |-> FALSE]
    /\ notifiers = 0
    /\ proto = [e \in Epochs |-> NewProto]
    /\ sess = [s \in Sessions |-> NewSession]
    /\ pushes = {}
    /\ link = [s \in Sessions |-> << >>] /\ acks = [s \in Sessions |-> 0]
    /\ host = [epoch |-> 1, link |-> None, rcv |-> NewReceiver(0, MaxSeq), gen |-> 0]
    /\ handed = [s \in Sessions |-> {}] /\ expired = {}
    /\ missed = FALSE /\ doubled = FALSE /\ changes = 0 /\ requests = 0

-----------------------------------------------------------------------------
(* sessionProto, under proto.mu. *)

\* Mutant: the generation that replaced the written one is forgotten.
AckDown_NoResend(p, n) ==
    LET down == SenderAck(p.down, n)
        covered == p.seq # 0 /\ p.seq <= down.acked
    IN  [p EXCEPT !.down = down,
                  !.reqAcks = [q \in {r \in DOMAIN @ : r > down.acked} |-> @[q]],
                  !.seq = IF covered THEN 0 ELSE @, !.gen = IF covered THEN 0 ELSE @,
                  !.sentGen = IF covered THEN 0 ELSE @]

\* An ack that covers the audience frame while its payload is newer than what
\* was written arms a resend.
AckDown(p, n) ==
    LET down == SenderAck(p.down, n)
        covered == p.seq # 0 /\ p.seq <= down.acked
    IN  [p EXCEPT !.down = down,
                  !.reqAcks = [q \in {r \in DOMAIN @ : r > down.acked} |-> @[q]],
                  !.resend = IF covered /\ p.sentGen < p.gen THEN p.latest ELSE @,
                  !.seq = IF covered THEN 0 ELSE @, !.gen = IF covered THEN 0 ELSE @,
                  !.sentGen = IF covered THEN 0 ELSE @]

\* Mutant: a snapshot is always logged under a seq of its own.
Replaces_Never(p, g) == FALSE

\* pushAudience drops a snapshot that is older than the newest pushed one, puts
\* a newer one in the place of the unacked audience entry, and appends otherwise.
Outdated(p, g) == g < p.latest \/ (p.seq # 0 /\ g <= p.gen)
Replaces(p, g) == ~Outdated(p, g) /\ p.seq # 0

PushProto(p, g) ==
    LET q == [p EXCEPT !.latest = g, !.resend = 0]
    IN  CASE g < p.latest   -> p
          [] Replaces(p, g) -> [q EXCEPT !.down = SenderElide(@, p.seq, g), !.gen = g]
          [] ~Outdated(p, g) /\ ~Replaces(p, g) ->
                 [q EXCEPT !.down = SenderAppend(@, g), !.seq = p.down.next + 1,
                           !.gen = g, !.sentGen = 0]
          [] OTHER -> q

\* Mutant: the deadline runs from the dispatch.
DispatchRequest_Armed(p) ==
    LET seq == p.down.next + 1
    IN  [p EXCEPT !.down = SenderAppend(@, Request),
                  !.reqAcks = [q \in DOMAIN @ \cup {seq} |-> IF q = seq THEN TRUE ELSE @[q]]]

DispatchRequest(p) ==
    LET seq == p.down.next + 1
    IN  [p EXCEPT !.down = SenderAppend(@, Request),
                  !.reqAcks = [q \in DOMAIN @ \cup {seq} |-> IF q = seq THEN FALSE ELSE @[q]]]

\* Mutant: a write counts for whatever the entry carries by then.
NoteWritten_Current(p, seq, g) ==
    [p EXCEPT !.sentGen = IF seq = p.seq THEN p.gen ELSE @,
              !.reqAcks = IF seq \in DOMAIN @ THEN [@ EXCEPT ![seq] = TRUE] ELSE @]

\* The generation that was really written, and the request's deadline.
NoteWritten(p, seq, g) ==
    [p EXCEPT !.sentGen = IF seq = p.seq /\ g > @ THEN g ELSE @,
              !.reqAcks = IF seq \in DOMAIN @ THEN [@ EXCEPT ![seq] = TRUE] ELSE @]

\* The log above seq as << seq, payload >> pairs, in seq order.  The log has no
\* holes (DownLinkProofs shows that), so it goes on from the later of seq and
\* the ack watermark.
EntriesAfter(p, seq) ==
    LET from == IF seq > p.down.acked THEN seq ELSE p.down.acked
    IN  [i \in 1 .. (p.down.next - from) |-> << from + i, p.down.log[from + i] >>]

\* Mutant: a replay starts behind the oldest entry.
OldestUnacked_SkipsOldest(p) ==
    LET all == EntriesAfter(p, p.down.acked + 1)
    IN  SubSeq(all, 1, IF Len(all) < Batch THEN Len(all) ELSE Batch)

OldestUnacked(p) ==
    LET all == EntriesAfter(p, p.down.acked)
    IN  SubSeq(all, 1, IF Len(all) < Batch THEN Len(all) ELSE Batch)

-----------------------------------------------------------------------------
(* The viewing set and its notifications. *)

\* A browser connects, leaves or changes what it displays; the set may be
\* back at the last snapshot.
ViewChange ==
    /\ changes < MaxChanges
    /\ changes' = changes + 1
    /\ \E b \in BOOLEAN : reg' = [reg EXCEPT !.stale = b]
    /\ notifiers' = notifiers + 1
    /\ UNCHANGED << proto, sess, pushes, link, acks, host, handed, expired, missed, doubled, requests >>

\* audienceLocked: the generation of the current set.
AudienceGen == IF reg.gen = 0 THEN 1 ELSE IF reg.stale THEN reg.gen + 1 ELSE reg.gen

\* notifyAudience under h.mu: a changed snapshot is to be pushed to the
\* session of that moment.
Notify ==
    /\ notifiers > 0
    /\ notifiers' = notifiers - 1
    /\ IF reg.session = None
       THEN UNCHANGED << reg, pushes >>
       ELSE /\ reg' = [reg EXCEPT !.gen = AudienceGen, !.stale = FALSE]
            /\ pushes' = IF reg.gen # 0 /\ reg.stale
                         THEN pushes \cup {[by |-> None, sess |-> reg.session,
                                            gen |-> AudienceGen, seq |-> 0]}
                         ELSE pushes
    /\ UNCHANGED << proto, sess, link, acks, host, histVars >>

\* The bound on seqs, for what appends to the log.
RoomInLog(e) == e \in Epochs => proto[e].down.next < MaxSeq

\* session.pushAudience, outside h.mu: the log first ...
Push(c) ==
    /\ c \in pushes /\ c.seq = 0 /\ RoomInLog(sess[c.sess].epoch)
    /\ IF Finished(c.sess)
       THEN pushes' = pushes \ {c} /\ UNCHANGED proto
       ELSE LET e == sess[c.sess].epoch
            IN  /\ proto' = [proto EXCEPT ![e] = PushProto(@, c.gen)]
                /\ pushes' = (pushes \ {c}) \cup
                             (IF Replaces(proto[e], c.gen) THEN {[c EXCEPT !.seq = proto[e].seq]}
                              ELSE {})
    /\ UNCHANGED << reg, notifiers, sess, link, acks, host, histVars >>

\* ... then, when a payload was replaced, the writer's rewrite slot.
AskRewrite(c) ==
    /\ c \in pushes /\ c.seq # 0
    /\ pushes' = pushes \ {c}
    /\ sess' = IF sess[c.sess].wpc # "none" THEN [sess EXCEPT ![c.sess].rewrite = c.seq] ELSE sess
    /\ UNCHANGED << reg, notifiers, proto, link, acks, host, histVars >>

\* session.dispatch on a session that Dispatch looked up earlier.
SendRequest(s) ==
    /\ requests < MaxRequests /\ ~Finished(s) /\ RoomInLog(sess[s].epoch)
    /\ requests' = requests + 1
    /\ proto' = [proto EXCEPT ![sess[s].epoch] = DispatchRequest(@)]
    /\ UNCHANGED << reg, notifiers, sess, pushes, link, acks, host, handed, expired, missed, doubled,
                    changes >>

-----------------------------------------------------------------------------
(* Sessions. *)

\* attach, under h.mu: a resume applies resume.down and drops the resend it may
\* arm, because hello_ack carries the current snapshot; a new epoch starts over.
AttachProto(p, down) ==
    IF down > 0 THEN [AckDown(p, down) EXCEPT !.resend = 0] ELSE p

Attach(s) ==
    /\ host.link = None
    /\ sess[s].pc = "new" /\ \A t \in Sessions : t < s => sess[t].pc # "new"
    /\ LET e == host.epoch
       IN  /\ proto' = [proto EXCEPT ![e] = IF reg.epoch = e THEN AttachProto(@, host.rcv.acked)
                                            ELSE NewProto]
           /\ sess' = [sess EXCEPT ![s] = [NewSession EXCEPT !.pc = "hello", !.epoch = e,
                                              !.old = reg.session, !.aud = AudienceGen]]
           /\ reg' = [session |-> s, epoch |-> e, gen |-> AudienceGen, stale |-> FALSE]
    /\ host' = [host EXCEPT !.link = s]
    /\ UNCHANGED << notifiers, pushes, link, acks, histVars >>

\* serveHost stops the predecessor; run writes hello_ack and starts a writer
\* at the acked watermark.
Start(s) ==
    /\ sess[s].pc = "hello"
    /\ sess' = [t \in Sessions |->
                   CASE t = s -> [sess[s] EXCEPT !.pc = "idle", !.wpc = "top", !.aud = 0, !.old = None,
                                     !.written = proto[sess[s].epoch].down.acked,
                                     !.lastAck = proto[sess[s].epoch].down.acked]
                     [] t = sess[s].old -> [sess[t] EXCEPT !.stop = TRUE]
                     [] OTHER -> sess[t]]
    /\ link' = IF host.link = s THEN [link EXCEPT ![s] = << << 0, sess[s].aud >> >>] ELSE link
    /\ UNCHANGED << reg, notifiers, proto, pushes, acks, host, histVars >>

\* The loop is inside its own pushAudience.
Busy(s) == \E c \in pushes : c.by = s

\* A frame's ack, applied before its payload.
HandleAck(s) ==
    /\ sess[s].pc = "idle" /\ ~Busy(s) /\ acks[s] > sess[s].lastAck
    /\ LET e == sess[s].epoch
           p == AckDown(proto[e], acks[s])
       IN  /\ proto' = [proto EXCEPT ![e] = p]
           /\ sess' = [sess EXCEPT ![s].pc = "take", ![s].lastAck = p.down.acked]
    /\ UNCHANGED << reg, notifiers, pushes, link, acks, host, histVars >>

\* takeAudienceResend, and the push under a fresh seq.
TakeResend(s) ==
    /\ sess[s].pc = "take"
    /\ LET e == sess[s].epoch
       IN  /\ pushes' = IF proto[e].resend = 0 THEN pushes
                        ELSE pushes \cup {[by |-> s, sess |-> s, gen |-> proto[e].resend, seq |-> 0]}
           /\ proto' = [proto EXCEPT ![e].resend = 0]
    /\ sess' = [sess EXCEPT ![s].pc = "idle"]
    /\ UNCHANGED << reg, notifiers, link, acks, host, histVars >>

\* expireRequests: an armed deadline has passed.
ExpireRequest(s, seq) ==
    /\ sess[s].pc = "idle" /\ ~Busy(s)
    /\ LET e == sess[s].epoch
       IN  /\ seq \in DOMAIN proto[e].reqAcks /\ proto[e].reqAcks[seq]
           /\ proto' = [proto EXCEPT ![e].reqAcks =
                            [q \in DOMAIN @ \ {seq} |-> @[q]]]
           /\ expired' = expired \cup {<< e, seq >>}
    /\ UNCHANGED << reg, notifiers, sess, pushes, link, acks, host, handed, missed, doubled, changes,
                    requests >>

\* The loop ends: asked to stop, end of the stream, liveness, a failed write.
Close(s) ==
    /\ sess[s].pc = "idle" /\ ~Busy(s)
    /\ sess' = [sess EXCEPT ![s].pc = "closing", ![s].stop = TRUE]
    /\ UNCHANGED << reg, notifiers, proto, pushes, link, acks, host, histVars >>

Detach(s) ==
    /\ sess[s].pc = "closing"
    /\ sess' = [sess EXCEPT ![s].pc = "done"]
    /\ reg' = IF reg.session = s THEN [reg EXCEPT !.session = None] ELSE reg
    /\ host' = IF host.link = s THEN [host EXCEPT !.link = None] ELSE host
    /\ link' = [link EXCEPT ![s] = << >>] /\ acks' = [acks EXCEPT ![s] = 0]
    /\ UNCHANGED << notifiers, proto, pushes, histVars >>

-----------------------------------------------------------------------------
(* The writer goroutine. *)

Writer(s, wpc, batch) == sess' = [sess EXCEPT ![s].wpc = wpc, ![s].batch = batch]

\* The top of the loop: stop, or everything above the progress watermark.
WriterTop(s) ==
    /\ sess[s].wpc = "top"
    /\ LET new == EntriesAfter(proto[sess[s].epoch], sess[s].written)
       IN  CASE sess[s].stop -> Writer(s, "done", << >>)
             [] ~sess[s].stop /\ new # << >> -> Writer(s, "write", new)
             [] OTHER -> Writer(s, "select", << >>)
    /\ UNCHANGED << reg, notifiers, proto, pushes, link, acks, host, histVars >>

\* The select: a kick, or stop ...
WriterWakes(s) ==
    /\ sess[s].wpc = "select"
    /\ Writer(s, "top", << >>)
    /\ UNCHANGED << reg, notifiers, proto, pushes, link, acks, host, histVars >>

\* ... or an RTO: the oldest unacked batch ...
Replay(s) ==
    /\ sess[s].wpc = "select" /\ OldestUnacked(proto[sess[s].epoch]) # << >>
    /\ Writer(s, "write", OldestUnacked(proto[sess[s].epoch]))
    /\ UNCHANGED << reg, notifiers, proto, pushes, link, acks, host, histVars >>

\* ... or the one entry whose payload was replaced.
Rewrite(s) ==
    /\ sess[s].wpc = "select" /\ sess[s].rewrite # 0
    /\ LET seq == sess[s].rewrite
           log == proto[sess[s].epoch].down.log
       IN  sess' = [sess EXCEPT ![s].rewrite = 0,
                        ![s].wpc = IF seq \in DOMAIN log THEN "write" ELSE "top",
                        ![s].batch = IF seq \in DOMAIN log THEN << << seq, log[seq] >> >> ELSE << >>]
    /\ UNCHANGED << reg, notifiers, proto, pushes, link, acks, host, histVars >>

\* A later transport of the same epoch has its writer at work: no loop has
\* stopped the writer of s yet (possible when three transports overlap).
Outlived(s) == \E u \in Sessions : u > s /\ sess[u].epoch = sess[s].epoch /\ sess[u].wpc # "none"

\* One frame of the batch, with the payload it had when the batch was taken;
\* a stop ends the writer in front of it.
Write(s) ==
    /\ sess[s].wpc = "write"
    /\ IF sess[s].stop
       THEN Writer(s, "done", << >>) /\ UNCHANGED << link, handed, doubled >>
       ELSE /\ Len(link[s]) < MaxLink
            /\ Writer(s, "note", sess[s].batch)
            /\ link' = IF host.link = s THEN [link EXCEPT ![s] = Append(@, Head(sess[s].batch))]
                       ELSE link
            /\ handed' = [handed EXCEPT ![s] = @ \cup {Head(sess[s].batch)[1]}]
            /\ doubled' = (doubled \/ Outlived(s))
    /\ UNCHANGED << reg, notifiers, proto, pushes, acks, host, expired, missed, changes, requests >>

\* writeReliable after the write: noteWritten, then the progress watermark.
Written(s) ==
    /\ sess[s].wpc = "note"
    /\ LET f == Head(sess[s].batch)
           rest == Tail(sess[s].batch)
       IN  /\ proto' = [proto EXCEPT ![sess[s].epoch] = NoteWritten(@, f[1], f[2])]
           /\ sess' = [sess EXCEPT ![s].written = IF f[1] > @ THEN f[1] ELSE @,
                                   ![s].batch = rest,
                                   ![s].wpc = IF rest = << >> THEN "top" ELSE "write"]
    /\ UNCHANGED << reg, notifiers, pushes, link, acks, host, histVars >>

-----------------------------------------------------------------------------
(* The host process (external). *)

\* hello_ack's snapshot has seq 0.  "A receiver MUST apply an audience frame
\* carrying a newer gen even when its seq is at or below the delivered
\* watermark"; a frame beyond a gap waits for it, and another one of its seq is
\* a duplicate (Receiver.Accept), whatever it carries.
HostReceives(s) ==
    /\ host.link = s /\ link[s] # << >>
    /\ link' = [link EXCEPT ![s] = Tail(@)]
    /\ LET f     == Head(link[s])
           seen  == IF f[1] <= host.rcv.acked THEN {f[2]}
                    ELSE ToSet(AcceptReady(host.rcv, f[1], f[2]))
           newer == {g \in seen : g > host.gen}
       IN  /\ host' = [host EXCEPT !.rcv = AcceptReceiver(@, f[1], f[2]),
                                   !.gen = IF newer = {} THEN @ ELSE CHOOSE g \in newer :
                                                                 \A h \in newer : h <= g]
               /\ missed' = (missed \/ (f[1] \in DOMAIN host.rcv.buf /\ f[2] > host.rcv.buf[f[1]]))
    /\ UNCHANGED << reg, notifiers, proto, sess, pushes, acks, handed, expired, doubled, changes,
                    requests >>

HostAcks(s) ==
    /\ host.link = s /\ sess[s].pc # "hello" /\ acks[s] < host.rcv.acked
    /\ acks' = [acks EXCEPT ![s] = host.rcv.acked]
    /\ UNCHANGED << reg, notifiers, proto, sess, pushes, link, host, histVars >>

\* The transport breaks; what is on it downwards is lost, an ack may arrive.
HostLeaves ==
    /\ host.link # None
    /\ host' = [host EXCEPT !.link = None]
    /\ link' = [link EXCEPT ![host.link] = << >>]
    /\ UNCHANGED << reg, notifiers, proto, sess, pushes, acks, histVars >>

HostRestarts ==
    /\ host.link = None /\ host.epoch < MaxEpoch
    /\ host' = [epoch |-> host.epoch + 1, link |-> None, rcv |-> NewReceiver(0, MaxSeq), gen |-> 0]
    /\ UNCHANGED << reg, notifiers, proto, sess, pushes, link, acks, histVars >>

-----------------------------------------------------------------------------

LoopStep(s) ==
    \/ Attach(s) \/ Start(s) \/ HandleAck(s) \/ TakeResend(s) \/ Close(s) \/ Detach(s)
    \/ SendRequest(s) \/ \E q \in 1 .. MaxSeq : ExpireRequest(s, q)

WriterStep(s) ==
    WriterTop(s) \/ WriterWakes(s) \/ Replay(s) \/ Rewrite(s) \/ Write(s) \/ Written(s)

Next ==
    \/ ViewChange \/ Notify \/ HostLeaves \/ HostRestarts
    \/ \E c \in pushes : Push(c) \/ AskRewrite(c)
    \/ \E s \in Sessions : LoopStep(s) \/ WriterStep(s) \/ HostReceives(s) \/ HostAcks(s)

Spec == Init /\ [][Next]_vars

-----------------------------------------------------------------------------
(* Properties. *)

AudienceSeqs(p) == {q \in DOMAIN p.down.log : p.down.log[q] # Request}

\* "The hub keeps at most one unacknowledged audience frame": whatever pushes,
\* acks and resends overlap, the log holds one at most, sessionProto knows it,
\* and it carries the newest generation that was pushed (pushAudience, ackDown).
OneAudienceFrame ==
    \A e \in Epochs :
        LET p == proto[e]
        IN  /\ AudienceSeqs(p) = IF p.seq = 0 THEN {} ELSE {p.seq}
            /\ p.seq # 0 => p.down.log[p.seq] = p.gen /\ p.gen = p.latest

\* Nothing more is on its way to the host that could change what it knows.
Quiet(s) ==
    /\ notifiers = 0 /\ pushes = {}
    /\ host.link = s /\ reg.session = s /\ sess[s].pc = "idle"
    /\ sess[s].batch = << >> /\ link[s] = << >>
    /\ DOMAIN proto[reg.epoch].down.log = {}

\* The host is never left with an old audience: when the log has drained and
\* nothing is in flight it holds the newest generation, though frames are
\* rewritten in place while they are written, acknowledged or replayed
\* (noteWritten, ackDown's resend, attach's snapshot); unless it discarded a
\* newer generation as the repetition of a parked frame, or two writers of the
\* epoch were at work.
HostHoldsNewest ==
    missed \/ doubled \/ \A s \in Sessions : Quiet(s) => ~reg.stale /\ host.gen = reg.gen

\* "If the previous payload may already have been applied under that seq, the
\* newest snapshot is also sent under a fresh seq", so nothing is left out.
NewestReachesHost == \A s \in Sessions : Quiet(s) => host.gen = reg.gen

\* A request is failed as unacked only after its frame was completely written
\* on some transport: one stuck behind a slow socket does not time out,
\* and no clock outlives its request's ack (dispatchRequest, noteWritten, ackDown,
\* expireRequests).
ExpiredWereWritten ==
    /\ \A x \in expired : \E s \in Sessions : sess[s].epoch = x[1] /\ x[2] \in handed[s]
    /\ \A e \in Epochs : DOMAIN proto[e].reqAcks \subseteq DOMAIN proto[e].down.log

-----------------------------------------------------------------------------
(***************************************************************************)
(* Liveness.  Every goroutine that can go on does; a heartbeat kicks the   *)
(* writer every keepalive; the retransmit request of an RTO stays in its   *)
(* channel until the writer's select takes it (strong fairness, because    *)
(* the writer leaves the select for other reasons too).  Nothing forces    *)
(* the transport to break, a request to expire or the viewing set to       *)
(* change.                                                                 *)
(***************************************************************************)

Fairness ==
    /\ WF_vars(Notify) /\ WF_vars(\E c \in pushes : Push(c) \/ AskRewrite(c))
    /\ \A s \in Sessions :
           /\ WF_vars(Start(s)) /\ WF_vars(HandleAck(s)) /\ WF_vars(TakeResend(s))
           /\ WF_vars(WriterTop(s)) /\ WF_vars(WriterWakes(s)) /\ SF_vars(Replay(s))
           /\ WF_vars(Write(s)) /\ WF_vars(Written(s))
           /\ WF_vars(HostReceives(s)) /\ WF_vars(HostAcks(s))

FairSpec == Spec /\ Fairness

\* The transport of s is up at both ends.
Connected(s) == host.link = s /\ reg.session = s /\ sess[s].pc \notin {"closing", "done"}

Logged(s) == IF sess[s].epoch = 0 THEN {} ELSE DOMAIN proto[sess[s].epoch].down.log

\* While a host stays connected, it comes to hold the newest audience, and does
\* so again after every change (with the exceptions of HostHoldsNewest, and
\* unless the bound on seqs is used up).
EventuallyCurrent ==
    \A s \in Sessions :
        []<>(\/ ~Connected(s) \/ ~RoomInLog(sess[s].epoch) \/ missed \/ doubled
             \/ ~reg.stale /\ host.gen = reg.gen)

\* While a host stays connected, every logged frame is acknowledged in the end:
\* one that the writer passed over is repaired by a replay of the oldest entries
\* (writer.replay, oldestUnacked; again unless the bound on seqs is used up).
EventuallyDelivered ==
    \A s \in Sessions, q \in 1 .. MaxSeq :
        Connected(s) /\ q \in Logged(s)
            ~> (~Connected(s) \/ ~RoomInLog(sess[s].epoch) \/ q \notin Logged(s))
=============================================================================
