----------------------------- MODULE HostSession ----------------------------
(***************************************************************************)
(* The uplink of one host through the hub: the sessions that serve it one  *)
(* after the other (attach, supersede, detach), the events path            *)
(* accept -> ingest -> gap-pull buffer -> fan-out queue -> browser, epochs *)
(* and the resets that announce them, and the acks that let the host drop  *)
(* its copies (internal/hub/session.go, hub.go).                           *)
(*                                                                         *)
(* Steps are cut where the code releases a lock: several session loops may *)
(* be live at once, the fan-out drain is a goroutine of its own, and only  *)
(* registry accesses hold h.mu.  An event is its seq; the host process is  *)
(* external and behaves as wire/PROTOCOL-V2.md has it.                     *)
(***************************************************************************)
EXTENDS Wire, SequencesExt

CONSTANTS MaxSessions,   \* bound: transports opened in one behaviour
          MaxEpoch,      \* bound: host processes, each with its own epoch
          MaxSeq,        \* bound: highest event seq
          MaxFresh,      \* bound: events a restarted host process publishes
          MaxInbox,      \* frames read ahead of the session loop
          MaxRestarts,   \* bound: hub restarts
          Window,        \* limits.resumeWindow
          QueueCap,      \* hostFanoutCap
          BufCap, BufHighWater   \* eventBufCap, evBufHighWater

ASSUME HostSessionAssumption ==
    /\ {MaxSessions, MaxEpoch, MaxInbox, Window, QueueCap, BufCap} \subseteq Nat \ {0}
    /\ {MaxSeq, MaxFresh, MaxRestarts} \subseteq Nat
    /\ BufHighWater \in Nat /\ BufCap <= BufHighWater

Sessions == 1 .. MaxSessions
Epochs   == 1 .. MaxEpoch
None     == 0

VARIABLES
    host,       \* the host process: epoch, base, produced, acked, link, sent
    reg,        \* hostState: session, epoch, base, upAcked, evBufEpoch
    lock,       \* the session whose attach holds h.mu half way, or None
    proto,      \* proto[e]: the up receiver of sequence space e
    sess,       \* the session loops
    inbox,      \* inbox[s]: runs << first, last >> of events read from the transport
    ackOut,     \* ackOut[s]: the newest up watermark sent down on s
    evBuf,      \* the gap-pull buffer
    queue,      \* the fan-out channel
    started,    \* the fan-out channel exists (fanoutOnce)
    drain,      \* the item the drain goroutine holds, or NoItem
    timers,     \* evBufEpoch captured by each pending grace-period clear
    seen,       \* what a browser watching the host was handed: the last item, the seq
                \* before it, and the epoch of the last reset
    ingested,   \* history: << epoch, seq >> that reached the buffer
    overlapped, \* history: epochs a resume of which attached before its predecessor detached
    unreset,    \* history: epochs whose reset a full fan-out channel dropped
    restarts    \* hub restarts so far

hubVars == << reg, lock, proto, sess, inbox, ackOut, evBuf, queue, started, drain, timers, seen >>
vars == << host, hubVars, ingested, overlapped, unreset, restarts >>

NoItem == [kind |-> "none", epoch |-> 0, seq |-> 0]
EventItem(e, q) == [kind |-> "event", epoch |-> e, seq |-> q]
ResetItem(e, base) == [kind |-> "reset", epoch |-> e, seq |-> base]

NothingSeen == [last |-> NoItem, before |-> 0, reset |-> 0]
See(item) == [last |-> item, before |-> seen.last.seq,
              reset |-> IF item.kind = "reset" THEN item.epoch ELSE seen.reset]

\* A session record; ready holds the accepted events not yet ingested, old the
\* session this one replaced.
NewSession == [pc |-> "new", epoch |-> 0, todo |-> << >>, ready |-> << >>,
               ack |-> 0, lastAckSent |-> 0, stop |-> FALSE, old |-> None]

Gone(s)     == sess[s].pc \in {"new", "done"}
Attached(s) == sess[s].pc \notin {"new", "attach", "done"}

NewRegistry == [session |-> None, epoch |-> 0, base |-> 0, upAcked |-> 0, evBufEpoch |-> 0]

Init ==
    /\ host = [epoch |-> 1, base |-> 0, produced |-> 0, acked |-> 0, link |-> None, sent |-> 0]
    /\ reg = NewRegistry
    /\ lock = None
    /\ proto = [e \in Epochs |-> NewReceiver(0, Window)]
    /\ sess = [s \in Sessions |-> NewSession]
    /\ inbox = [s \in Sessions |-> << >>]
    /\ ackOut = [s \in Sessions |-> 0]
    /\ evBuf = << >> /\ queue = << >> /\ started = FALSE /\ drain = NoItem
    /\ timers = {} /\ seen = NothingSeen /\ ingested = {} /\ overlapped = {} /\ unreset = {}
    /\ restarts = 0

-----------------------------------------------------------------------------
(* The host process (external). *)

HostPublish ==
    /\ host.produced < MaxSeq
    /\ host.epoch > 1 => host.produced - host.base < MaxFresh
    /\ host' = [host EXCEPT !.produced = @ + 1]
    /\ UNCHANGED << hubVars, ingested, overlapped, unreset, restarts >>

\* Everything not yet written on this transport goes out as one contiguous
\* run; after a resume that starts behind the hub's ackUp.
HostSend ==
    LET s == host.link
    IN  /\ s # None /\ Attached(s) /\ sess[s].pc # "hello"
        /\ host.sent < host.produced /\ Len(inbox[s]) < MaxInbox
        /\ inbox' = [inbox EXCEPT ![s] = Append(@, << host.sent + 1, host.produced >>)]
        /\ host' = [host EXCEPT !.sent = host.produced]
        /\ UNCHANGED << reg, lock, proto, sess, ackOut, evBuf, queue, started, drain,
                        timers, seen, ingested, overlapped, unreset, restarts >>

\* An ack lets the host drop its copies; it is the only thing that does.
HostGetsAck ==
    LET s == host.link
    IN  /\ s # None /\ Attached(s) /\ sess[s].pc # "hello" /\ ackOut[s] > host.acked
        /\ host' = [host EXCEPT !.acked = ackOut[s]]
        /\ UNCHANGED << hubVars, ingested, overlapped, unreset, restarts >>

HostDisconnect ==
    /\ host.link # None
    /\ host' = [host EXCEPT !.link = None]
    /\ UNCHANGED << hubVars, ingested, overlapped, unreset, restarts >>

\* A new process, a new epoch; its event counter continues or starts over.
HostRestart ==
    /\ host.epoch < MaxEpoch
    /\ \E b \in {0, host.produced} :
           host' = [epoch |-> host.epoch + 1, base |-> b, produced |-> b, acked |-> b,
                    link |-> None, sent |-> b]
    /\ UNCHANGED << hubVars, ingested, overlapped, unreset, restarts >>

\* Frames still on a transport the host has left may never arrive.
LoseFrame(s) ==
    /\ host.link # s /\ inbox[s] # << >>
    /\ inbox' = [inbox EXCEPT ![s] = Front(@)]
    /\ UNCHANGED << host, reg, lock, proto, sess, ackOut, evBuf, queue, started, drain,
                    timers, seen, ingested, overlapped, unreset, restarts >>

-----------------------------------------------------------------------------
(* The fan-out queue. *)

\* enqueueFanout never blocks: a full channel drops the item.
EnqueueFanout(item) ==
    /\ started' = TRUE
    /\ IF Len(queue) < QueueCap
       THEN queue' = Append(queue, item) /\ UNCHANGED unreset
       ELSE unreset' = unreset \cup {e \in {item.epoch} : item.kind = "reset"} /\ UNCHANGED queue

\* Mutant: the reset is delivered at once, ahead of what is queued.
AnnounceEpochReset_Direct(e, baseline) ==
    seen' = See(ResetItem(e, baseline)) /\ UNCHANGED << queue, started, unreset >>

\* announceEpochReset rides the queue once there is one.
AnnounceEpochReset(e, baseline) ==
    IF started
    THEN EnqueueFanout(ResetItem(e, baseline)) /\ UNCHANGED seen
    ELSE seen' = See(ResetItem(e, baseline)) /\ UNCHANGED << queue, started, unreset >>

\* Mutant: queued items of a retired epoch are delivered.
FanoutItemCurrent_Any(item) == TRUE

FanoutItemCurrent(item) == item.epoch = reg.epoch

\* The drain goroutine takes an item and drops it when its epoch is retired ...
DrainTake ==
    /\ drain = NoItem /\ queue # << >>
    /\ queue' = Tail(queue)
    /\ drain' = IF FanoutItemCurrent(Head(queue)) THEN Head(queue) ELSE NoItem
    /\ UNCHANGED << host, reg, lock, proto, sess, inbox, ackOut, evBuf, started, timers,
                    seen, ingested, overlapped, unreset, restarts >>

\* ... and broadcasts it in a later step.
DrainDeliver ==
    /\ drain # NoItem
    /\ seen' = See(drain)
    /\ drain' = NoItem
    /\ UNCHANGED << host, reg, lock, proto, sess, inbox, ackOut, evBuf, queue, started,
                    timers, ingested, overlapped, unreset, restarts >>

-----------------------------------------------------------------------------
(* attach and detach. *)

\* The part of attach both branches end with: the session is installed and
\* hello_ack snapshots the up watermark.
InstallSession(s) ==
    /\ sess' = [sess EXCEPT ![s] = [NewSession EXCEPT !.pc = "hello", !.epoch = host.epoch,
                                                      !.old = reg.session]]
    /\ reg' = [reg EXCEPT !.session = s, !.evBufEpoch = @ + 1]
    /\ ackOut' = [ackOut EXCEPT ![s] = proto[host.epoch].acked]
    /\ host' = [host EXCEPT !.link = s, !.sent = proto[host.epoch].acked]

\* Transports are used in order; a resume may overlap its predecessor's loop.
MayAttach(s) ==
    /\ lock = None /\ host.link = None
    /\ sess[s].pc = "new" /\ \A t \in Sessions : t < s => sess[t].pc # "new"

AttachResume(s) ==
    /\ MayAttach(s) /\ reg.epoch = host.epoch
    /\ InstallSession(s)
    /\ overlapped' = overlapped \cup {sess[t].epoch : t \in {u \in Sessions : Attached(u) /\ sess[u].epoch = host.epoch}}
    /\ UNCHANGED << lock, proto, inbox, evBuf, queue, started, drain, timers, seen,
                    ingested, unreset, restarts >>

\* A new epoch: fresh protocol state at the host's baseline, and the epoch is
\* published before the buffer is cleared ...
AttachNewEpoch(s) ==
    /\ MayAttach(s) /\ reg.epoch # host.epoch
    /\ proto' = [proto EXCEPT ![host.epoch] = NewReceiver(host.acked, Window)]
    /\ reg' = [reg EXCEPT !.epoch = host.epoch, !.base = host.acked, !.upAcked = host.acked]
    /\ lock' = s
    /\ sess' = [sess EXCEPT ![s].pc = "attach"]
    /\ host' = [host EXCEPT !.link = s]
    /\ UNCHANGED << inbox, ackOut, evBuf, queue, started, drain, timers, seen, ingested, overlapped, unreset, restarts >>

\* ... the reset is announced, and only then is the session installed.
AttachFinish(s) ==
    /\ lock = s
    /\ evBuf' = << >>
    /\ AnnounceEpochReset(reg.epoch, reg.base)
    /\ sess' = [sess EXCEPT ![s] = [NewSession EXCEPT !.pc = "hello", !.epoch = reg.epoch,
                                                      !.old = reg.session]]
    /\ reg' = [reg EXCEPT !.session = s, !.evBufEpoch = @ + 1]
    /\ ackOut' = [ackOut EXCEPT ![s] = proto[reg.epoch].acked]
    /\ host' = IF host.link = s THEN [host EXCEPT !.sent = proto[reg.epoch].acked] ELSE host
    /\ lock' = None
    /\ UNCHANGED << proto, inbox, drain, timers, ingested, overlapped, restarts >>

\* serveHost stops the predecessor and writes hello_ack.
Start(s) ==
    /\ sess[s].pc = "hello"
    /\ LET stopped == [t \in Sessions |-> IF t = sess[s].old THEN [sess[t] EXCEPT !.stop = TRUE] ELSE sess[t]]
       IN  sess' = [stopped EXCEPT ![s].pc = "idle", ![s].lastAckSent = proto[sess[s].epoch].acked]
    /\ UNCHANGED << host, reg, lock, proto, inbox, ackOut, evBuf, queue, started, drain,
                    timers, seen, ingested, overlapped, unreset, restarts >>

\* The loop ends: stop, end of the stream, liveness verdict or a bad frame.
Close(s) ==
    /\ sess[s].pc = "idle"
    /\ sess' = [sess EXCEPT ![s].pc = "closing"]
    /\ UNCHANGED << host, reg, lock, proto, inbox, ackOut, evBuf, queue, started, drain,
                    timers, seen, ingested, overlapped, unreset, restarts >>

\* Mutant: a superseded session's detach takes the host offline.
OwnsRegistry_Any(s) == reg.session # None

\* finish: only the registered session touches the registry; a grace-period
\* clear of the buffer is scheduled.
OwnsRegistry(s) == reg.session = s

Detach(s) ==
    /\ sess[s].pc = "closing" /\ lock = None
    /\ sess' = [sess EXCEPT ![s] = [NewSession EXCEPT !.pc = "done"]]
    /\ inbox' = [inbox EXCEPT ![s] = << >>]
    /\ host' = [host EXCEPT !.link = IF @ = s THEN None ELSE @]
    /\ IF OwnsRegistry(s)
       THEN /\ reg' = [reg EXCEPT !.session = None, !.evBufEpoch = @ + 1]
            /\ timers' = timers \cup {reg.evBufEpoch + 1}
       ELSE UNCHANGED << reg, timers >>
    /\ UNCHANGED << lock, proto, ackOut, evBuf, queue, started, drain, seen, ingested, overlapped, unreset, restarts >>

\* Mutant: the timer of an earlier pause clears the buffer in a later one.
ClearStillDue_AnyPause(t) == reg.session = None

\* The timer clears the buffer unless a session attached, or detached again,
\* since it was armed.
ClearStillDue(t) == reg.session = None /\ reg.evBufEpoch = t

GraceClear(t) ==
    /\ t \in timers /\ lock = None
    /\ timers' = timers \ {t}
    /\ evBuf' = IF ClearStillDue(t) THEN << >> ELSE evBuf
    /\ UNCHANGED << host, reg, lock, proto, sess, inbox, ackOut, queue, started, drain,
                    seen, ingested, overlapped, unreset, restarts >>

-----------------------------------------------------------------------------
(* The session loop on an events frame. *)

\* The select may pick a buffered frame even when stop is already closed.
Read(s) ==
    /\ sess[s].pc = "idle" /\ inbox[s] # << >>
    /\ LET run == Head(inbox[s])
       IN  sess' = [sess EXCEPT ![s].pc = "accept", ![s].ready = << >>, ![s].ack = 0,
                                ![s].todo = [i \in 1 .. (run[2] - run[1] + 1) |-> run[1] + i - 1]]
    /\ inbox' = [inbox EXCEPT ![s] = Tail(@)]
    /\ UNCHANGED << host, reg, lock, proto, ackOut, evBuf, queue, started, drain, timers,
                    seen, ingested, overlapped, unreset, restarts >>

\* proto.accept, one event at a time: the watermark moves here.
Accept(s) ==
    /\ sess[s].pc = "accept"
    /\ LET p == proto[sess[s].epoch]
           q == Head(sess[s].todo)
           rest == Tail(sess[s].todo)
           got == sess[s].ready \o AcceptReady(p, q, q)
       IN  IF Overflows(p, q)
           THEN /\ sess' = [sess EXCEPT ![s].pc = "closing"]
                /\ UNCHANGED proto
           ELSE /\ proto' = [proto EXCEPT ![sess[s].epoch] = AcceptReceiver(p, q, q)]
                /\ sess' = [sess EXCEPT ![s].todo = rest, ![s].ready = got,
                                        ![s].ack = AcceptReceiver(p, q, q).acked,
                                        ![s].pc = CASE rest # << >> -> "accept"
                                                    [] rest = << >> /\ got # << >> -> "gate"
                                                    [] OTHER -> "note"]
    /\ UNCHANGED << host, reg, lock, inbox, ackOut, evBuf, queue, started, drain, timers,
                    seen, ingested, overlapped, unreset, restarts >>

\* Mutant: a loop whose transport has ended does not ingest what it accepted.
Gate_DeadTransport(s) ==
    /\ sess[s].pc = "gate" /\ lock = None
    /\ sess' = [sess EXCEPT ![s].pc = IF reg.session = s /\ host.link = s THEN "buffer"
                                      ELSE "closing"]
    /\ UNCHANGED << host, reg, lock, proto, inbox, ackOut, evBuf, queue, started, drain,
                    timers, seen, ingested, overlapped, unreset, restarts >>

\* ingestRawEvents, under h.mu: a session that lost the host applies nothing.
Gate(s) ==
    /\ sess[s].pc = "gate" /\ lock = None
    /\ sess' = [sess EXCEPT ![s].pc = IF reg.session = s THEN "buffer" ELSE "closing"]
    /\ UNCHANGED << host, reg, lock, proto, inbox, ackOut, evBuf, queue, started, drain,
                    timers, seen, ingested, overlapped, unreset, restarts >>

\* Past the high-water mark the buffer keeps its newest BufCap events.  The byte cap
\* of the ring is left out: it too drops only the oldest events.
Compacted(buf) ==
    IF Len(buf) > BufHighWater THEN SubSeq(buf, Len(buf) - BufCap + 1, Len(buf)) ELSE buf

\* Mutant: events are appended as they come.
BufferEvent_Append(buf, e, q) == Compacted(Append(buf, EventItem(e, q)))

\* bufferEventLocked: insert in front of the first event with a higher seq.
BufferEvent(buf, e, q) ==
    LET above == {i \in DOMAIN buf : buf[i].seq > q}
        at    == IF above = {} THEN Len(buf) + 1 ELSE CHOOSE i \in above : \A j \in above : i <= j
    IN  Compacted(InsertAt(buf, at, EventItem(e, q)))

\* Under hs.mu: the epoch is checked again for every event.
EpochCurrent(s) == reg.epoch = sess[s].epoch

Buffer(s) ==
    /\ sess[s].pc = "buffer"
    /\ LET q == Head(sess[s].ready)
       IN  IF EpochCurrent(s)
           THEN /\ evBuf' = BufferEvent(evBuf, sess[s].epoch, q)
                /\ ingested' = ingested \cup {<< sess[s].epoch, q >>}
                /\ sess' = [sess EXCEPT ![s].pc = "enqueue"]
           ELSE /\ sess' = [sess EXCEPT ![s].pc = "closing"]
                /\ UNCHANGED << evBuf, ingested >>
    /\ UNCHANGED << host, reg, lock, proto, inbox, ackOut, queue, started, drain, timers,
                    seen, overlapped, unreset, restarts >>

\* Outside every lock, tagged with the epoch the event was gated on.
Enqueue(s) ==
    /\ sess[s].pc = "enqueue"
    /\ EnqueueFanout(EventItem(sess[s].epoch, Head(sess[s].ready)))
    /\ sess' = [sess EXCEPT ![s].ready = Tail(@),
                            ![s].pc = IF Len(sess[s].ready) > 1 THEN "buffer" ELSE "note"]
    /\ UNCHANGED << host, reg, lock, proto, inbox, ackOut, evBuf, drain, timers, seen,
                    ingested, overlapped, restarts >>

\* Mutant: a session that lost the host still moves the mirrored watermark.
NoteUpAck_Anyone(s, ack) == IF ack > reg.upAcked THEN ack ELSE reg.upAcked

\* The watermark kept for readers that outlive the session.
NoteUpAck(s, ack) == IF reg.session = s /\ ack > reg.upAcked THEN ack ELSE reg.upAcked

\* noteUpAck, the immediate heartbeat, then flushNew, which ends a loop that
\* has been asked to stop.
Note(s) ==
    /\ sess[s].pc = "note" /\ lock = None
    /\ LET ack == sess[s].ack
           pc  == IF sess[s].stop THEN "closing" ELSE "idle"
       IN  IF ack > sess[s].lastAckSent
           THEN /\ reg' = [reg EXCEPT !.upAcked = NoteUpAck(s, ack)]
                /\ ackOut' = [ackOut EXCEPT ![s] = proto[sess[s].epoch].acked]
                /\ sess' = [sess EXCEPT ![s].pc = pc, ![s].lastAckSent = ack]
           ELSE /\ sess' = [sess EXCEPT ![s].pc = pc]
                /\ UNCHANGED << reg, ackOut >>
    /\ UNCHANGED << host, lock, proto, inbox, evBuf, queue, started, drain, timers, seen,
                    ingested, overlapped, unreset, restarts >>

\* Every frame the hub sends carries the up watermark of that moment:
\* heartbeats, probe answers, and requests appended by other goroutines.
SendDown(s) ==
    /\ Attached(s) /\ sess[s].pc # "hello" /\ host.link = s
    /\ ackOut[s] < proto[sess[s].epoch].acked
    /\ ackOut' = [ackOut EXCEPT ![s] = proto[sess[s].epoch].acked]
    /\ UNCHANGED << host, reg, lock, proto, sess, inbox, evBuf, queue, started, drain,
                    timers, seen, ingested, overlapped, unreset, restarts >>

\* The hub process dies and starts again: only the pairing registry is on
\* disk, so the host is known but has no session, epoch or buffer.  Browsers
\* reconnect to the new process.  (A hub no host has reached restarts as it is.)
HubRestart ==
    /\ restarts < MaxRestarts /\ \E s \in Sessions : sess[s].pc # "new"
    /\ restarts' = restarts + 1
    /\ reg' = NewRegistry /\ lock' = None
    /\ sess' = [s \in Sessions |-> IF sess[s].pc = "new" THEN sess[s]
                                   ELSE [NewSession EXCEPT !.pc = "done"]]
    /\ inbox' = [s \in Sessions |-> << >>]
    /\ evBuf' = << >> /\ queue' = << >> /\ started' = FALSE /\ drain' = NoItem
    /\ timers' = {} /\ seen' = NothingSeen
    /\ host' = [host EXCEPT !.link = None] /\ unreset' = {}
    /\ UNCHANGED << proto, ackOut, ingested, overlapped >>

-----------------------------------------------------------------------------

SessionStep(s) ==
    \/ Start(s) \/ Close(s) \/ Detach(s) \/ Read(s) \/ Accept(s) \/ Gate(s)
    \/ Buffer(s) \/ Enqueue(s) \/ Note(s) \/ SendDown(s)

Next ==
    \/ HostPublish \/ HostSend \/ HostGetsAck \/ HostDisconnect \/ HostRestart
    \/ DrainTake \/ DrainDeliver \/ HubRestart
    \/ \E t \in timers : GraceClear(t)
    \/ \E s \in Sessions : \/ AttachResume(s) \/ AttachNewEpoch(s) \/ AttachFinish(s)
                           \/ LoseFrame(s) \/ SessionStep(s)

Spec == Init /\ [][Next]_vars

-----------------------------------------------------------------------------
(* Properties. *)

\* The events a session has accepted and still carries to the buffer.
InFlight(e) == UNION {ToSet(sess[s].ready) : s \in {t \in Sessions :
                   sess[t].epoch = e /\ sess[t].pc \in {"accept", "gate", "buffer", "enqueue"}}}

\* "ack=N means every reliable frame with seq <= N has been applied": what the
\* host dropped on the word of this hub process was ingested, or is on its way
\* there in a session loop that is still running (handleEvents, attach, detach).
AckedIsIngested ==
    reg.epoch = host.epoch =>
        \A q \in (reg.base + 1) .. host.acked :
            << host.epoch, q >> \in ingested \/ q \in InFlight(host.epoch)

\* ... as long as every resume of the epoch came after its predecessor's detach,
\* though loops of different epochs overlap and the hub restarts.
HostDropsOnlyIngested == host.epoch \in overlapped \/ AckedIsIngested

\* LastSeq is "the highest N for which 1..N all arrived": without overlapping
\* resumes the mirrored watermark never names an event that was not ingested
\* (noteUpAck, attach).
LastSeqHonest ==
    reg.epoch \in overlapped \/ \A q \in (reg.base + 1) .. reg.upAcked : << reg.epoch, q >> \in ingested

\* The gap-pull buffer can be searched: whatever sessions and epochs overlap,
\* it is strictly ordered by seq and, outside an attach, holds the registered
\* epoch only (bufferEventLocked, EventsAfter, attach's reset of the buffer).
GapPullSorted ==
    /\ \A i, j \in DOMAIN evBuf : i < j => evBuf[i].seq < evBuf[j].seq
    /\ lock = None => \A i \in DOMAIN evBuf : evBuf[i].epoch = reg.epoch

\* ... and a pull from it has no holes, at any time and from whatever epoch it
\* holds, unless resumes of that epoch overlapped.
GapPullContiguous ==
    \A i \in 1 .. Len(evBuf) - 1 :
        evBuf[i].epoch \in overlapped \/ evBuf[i + 1].seq = evBuf[i].seq + 1

\* A browser is told of an epoch before it is handed an event of it: the last
\* reset in front of an event is of the event's epoch, unless the fan-out channel
\* was full when the reset was to be queued (announceEpochReset, enqueueFanout,
\* fanoutItemCurrent).
EventsFollowTheirReset ==
    seen.last.kind = "event" => seen.reset = seen.last.epoch \/ seen.last.epoch \in unreset

\* A browser gets the events of an epoch in order, from the announced baseline on,
\* each once, unless resumes of the epoch overlapped or its reset was dropped.
SeenInOrder ==
    seen.last.kind = "event" =>
        seen.last.epoch \in overlapped \cup unreset \/ seen.before < seen.last.seq

\* The registry knows the session that serves the host: the newest one, from
\* its attach to its own end, whatever its predecessors' late detaches do.
OnlineWhileServed ==
    \A s \in Sessions :
        Attached(s) /\ (\A t \in Sessions : t > s => sess[t].pc \in {"new", "attach"})
            => reg.session = s

\* Within an epoch the buffer is thrown away only in a pause that has lasted
\* the whole grace period: no session holds the host and no later detach has
\* armed a timer that is still running (scheduleEvBufClear).
BufferSurvivesReconnect ==
    [][evBuf # << >> /\ evBuf' = << >> /\ restarts' = restarts /\ lock = None
           => /\ reg.session = None
              /\ \E t \in timers \ timers' : \A u \in timers : u <= t]_vars
=============================================================================
