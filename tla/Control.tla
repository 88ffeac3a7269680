------------------------------ MODULE Control -------------------------------
(***************************************************************************)
(* The control plane of one host session (internal/hub/session.go,         *)
(* writer.go, wire/unit.go, the QUIC transport of cmd/capri-hub/main.go):  *)
(* heartbeats, liveness probes and shared preflight probes go through the  *)
(* writer's bounded control queue and are written between the transport    *)
(* units of large reliable frames; the host reassembles the units and      *)
(* answers the probes.                                                     *)
(*                                                                         *)
(* A control frame is what it carries: nothing, a probe nonce or the       *)
(* answer to the host's own probe; it fits one unit.  Nonces of the        *)
(* liveness probe (clock based) and of preflight probes (counted from 1)   *)
(* never meet.  Time is left out: a timer may fire whenever it is armed.   *)
(***************************************************************************)
EXTENDS Integers, FiniteSets, SequencesExt

CONSTANTS Callers,      \* concurrent Dispatch calls that preflight the link
          Depth,        \* controlQueueDepth
          Units,        \* units of a large frame
          MaxLink,      \* units the socket buffers
          MaxGroups,    \* bound: preflight probes
          MaxTicks,     \* bound: heartbeats and liveness probes sent
          MaxHostProbes,\* bound: probes of the host
          MaxFrames     \* bound: reliable frames

ASSUME ControlAssumption ==
    /\ {Depth, MaxLink} \subseteq Nat \ {0} /\ Units \in Nat /\ Units > 1
    /\ {MaxGroups, MaxTicks, MaxHostProbes, MaxFrames} \subseteq Nat

None == 0
Groups == 1 .. MaxGroups

VARIABLES
    call,       \* call[c]: pc of a preflight and the probe group it is in
    slot,       \* session.probeGroup
    group,      \* group[g]: relayProbe.ok, and whether done is closed
    seqs,       \* probeSeq, the loop's probeNonce, transport and writer frame ids
    live,       \* the loop: probePending, and the group completeProbe holds
    queue,      \* controlQ
    writer,     \* the writer: pc, frame, next unit
    log,        \* kinds of the reliable frames appended
    link,       \* units on the control stream
    host,       \* the host: reassembler, reliable frames received, broken
    up,         \* control frames of the host on their way up
    stop,       \* session.stop is closed
    evicted,    \* history: probes dropped from a queue that held nothing else
    streak,     \* history: units written since a waiting control frame was passed over
    ticks, hostProbes

vars == << call, slot, group, seqs, live, queue, writer, log, link, host, up, stop,
           evicted, streak, ticks, hostProbes >>

\* Control frames.
Plain == [type |-> "hb"]
Probe(n) == [type |-> "probe", nonce |-> n]
ProbeAck(n) == [type |-> "probeAck", nonce |-> n]
Preflight(g) == << "preflight", g >>
Liveness(n) == << "liveness", n >>

IsPlainHeartbeat(f) == f.type = "hb"

NoReassembly == [open |-> FALSE, id |-> << "w", 0 >>, off |-> 0]

Init ==
    /\ call = [c \in Callers |-> [pc |-> "idle", group |-> None]]
    /\ slot = None
    /\ group = [g \in Groups |-> [ok |-> FALSE, closed |-> FALSE]]
    /\ seqs = [probe |-> 0, live |-> 0, tr |-> 0, wr |-> 0]
    /\ live = [pending |-> FALSE, done |-> None]
    /\ queue = << >> /\ link = << >> /\ up = << >> /\ log = << >>
    /\ writer = [pc |-> "top", frame |-> 1, unit |-> 1]
    /\ host = [re |-> NoReassembly, got |-> 0, broken |-> FALSE]
    /\ stop = FALSE /\ evicted = {} /\ streak = 0 /\ ticks = 0 /\ hostProbes = 0

-----------------------------------------------------------------------------
(* The control queue. *)

Probes(q) == {i \in DOMAIN q : ~IsPlainHeartbeat(q[i])}

\* Mutant: an overflowing queue loses its oldest frame, whatever it is.
Victim_Oldest(q) == 1

\* dropOldestPlainLocked: the oldest plain heartbeat, a probe as a last resort.
Victim(q) ==
    LET plain == DOMAIN q \ Probes(q)
    IN  IF plain = {} THEN 1 ELSE CHOOSE i \in plain : \A j \in plain : i <= j

\* postControl: consecutive plain heartbeats coalesce, over the depth one goes.
Posted(q, f) ==
    IF q # << >> /\ IsPlainHeartbeat(f) /\ IsPlainHeartbeat(Last(q))
    THEN Front(q) \o << f >>
    ELSE LET long == Append(q, f)
         IN  IF Len(long) > Depth THEN RemoveAt(long, Victim(long)) ELSE long

PostControl(f) ==
    /\ queue' = Posted(queue, f)
    /\ evicted' = IF Len(queue) = Depth /\ Probes(Append(queue, f)) = 1 .. Depth + 1
                  THEN evicted \cup {queue[1]} ELSE evicted

-----------------------------------------------------------------------------
(* Preflight probes: the first caller sends, the others join. *)

CallKeeps == << seqs, live, writer, log, link, host, up, stop, streak, ticks, hostProbes >>

Step(c, pc, g) == call' = [call EXCEPT ![c] = [pc |-> pc, group |-> g]]

\* probe: join the group there is, or open one ...
Join(c) ==
    /\ call[c].pc = "idle" /\ ~stop /\ slot # None
    /\ Step(c, "wait", slot)
    /\ UNCHANGED << slot, group, queue, evicted, CallKeeps >>

Open(c) ==
    /\ call[c].pc = "idle" /\ ~stop /\ slot = None /\ seqs.probe < MaxGroups
    /\ slot' = seqs.probe + 1 /\ seqs' = [seqs EXCEPT !.probe = @ + 1]
    /\ Step(c, "post", seqs.probe + 1)
    /\ UNCHANGED << group, queue, evicted, live, writer, log, link, host, up, stop, streak,
                    ticks, hostProbes >>

\* ... and post its probe.
Post(c) ==
    /\ call[c].pc = "post"
    /\ IF stop THEN UNCHANGED << queue, evicted >> ELSE PostControl(Probe(Preflight(call[c].group)))
    /\ Step(c, "own", call[c].group)
    /\ UNCHANGED << slot, group, CallKeeps >>

\* wait ends with the answer, or the group's failure; a group closed by its
\* owner is read as answered when the answer came meanwhile.
Woken(c) ==
    LET g == call[c].group
    IN  /\ call[c].pc \in {"wait", "own"} /\ group[g].closed
        /\ IF call[c].pc = "own" THEN Step(c, IF group[g].ok THEN "clearOk" ELSE "clear", g)
           ELSE Step(c, IF group[g].ok THEN "ok" ELSE "failed", None)
        /\ UNCHANGED << slot, group, queue, evicted, CallKeeps >>

\* ... or with the caller's timeout, its context, or the end of the session.
GivesUp(c) ==
    LET g == call[c].group
    IN  /\ call[c].pc \in {"wait", "own"}
        /\ IF call[c].pc = "own" THEN Step(c, "clear", g) ELSE Step(c, "failed", None)
        /\ UNCHANGED << slot, group, queue, evicted, CallKeeps >>

\* The owner's deferred clean-up: clear the slot ...
Clear(c) ==
    /\ call[c].pc \in {"clear", "clearOk"}
    /\ slot' = IF slot = call[c].group THEN None ELSE slot
    /\ Step(c, IF call[c].pc = "clear" THEN "fail" ELSE "failOk", call[c].group)
    /\ UNCHANGED << group, queue, evicted, CallKeeps >>

\* Mutant: an owner that gives up leaves the joiners to their own timeouts.
Closes_OnlySuccess(g) == group[g].ok

\* ... and close the group, which a success has closed before.
Closes(g) == TRUE

FailGroup(c) ==
    LET g == call[c].group
    IN  /\ call[c].pc \in {"fail", "failOk"}
        /\ group' = [group EXCEPT ![g].closed = @ \/ Closes(g)]
        /\ Step(c, IF call[c].pc = "fail" THEN "failed" ELSE "ok", None)
        /\ UNCHANGED << slot, queue, evicted, CallKeeps >>

-----------------------------------------------------------------------------
(* The session loop. *)

LoopKeeps == << call, group, writer, log, link, host, streak >>

Looping == ~stop /\ live.done = None

\* The timer: a periodic heartbeat, which repeats an outstanding probe ...
SendHeartbeat ==
    /\ Looping /\ ticks < MaxTicks /\ ticks' = ticks + 1
    /\ PostControl(IF live.pending THEN Probe(Liveness(seqs.live)) ELSE Plain)
    /\ UNCHANGED << slot, seqs, live, up, stop, hostProbes, LoopKeeps >>

\* ... the probe after a silence ...
SendProbe ==
    /\ Looping /\ ~live.pending /\ ticks < MaxTicks /\ ticks' = ticks + 1
    /\ seqs' = [seqs EXCEPT !.live = @ + 1]
    /\ PostControl(Probe(Liveness(seqs.live + 1)))
    /\ live' = [live EXCEPT !.pending = TRUE]
    /\ UNCHANGED << slot, up, stop, hostProbes, LoopKeeps >>

\* ... and the verdict when its deadline passes, or any other end; what is still
\* queued or on the transport goes with the session.
End ==
    /\ Looping
    /\ stop' = TRUE
    /\ queue' = << >> /\ link' = << >> /\ up' = << >>
    /\ UNCHANGED << call, slot, group, seqs, live, writer, log, host, evicted, streak, ticks, hostProbes >>

\* completeProbe: only the nonce of the group in the slot; a stale one is ignored.
Completes(f) == slot # None /\ f.type = "probeAck" /\ f.nonce = Preflight(slot)

\* handleFrame: any frame answers the silence; a host probe is echoed; an answer
\* clears the slot ...
HandleFrame ==
    /\ Looping /\ up # << >>
    /\ up' = Tail(up)
    /\ LET f == Head(up)
       IN  /\ live' = [pending |-> FALSE, done |-> IF Completes(f) THEN slot ELSE None]
           /\ slot' = IF Completes(f) THEN None ELSE slot
           /\ IF f.type = "probe" THEN PostControl(ProbeAck(f.nonce))
              ELSE UNCHANGED << queue, evicted >>
    /\ UNCHANGED << seqs, stop, ticks, hostProbes, LoopKeeps >>

\* ... and then wakes the waiters.
Succeed ==
    /\ live.done # None
    /\ group' = [group EXCEPT ![live.done] = [ok |-> TRUE, closed |-> TRUE]]
    /\ live' = [live EXCEPT !.done = None]
    /\ UNCHANGED << call, slot, seqs, queue, writer, log, link, host, up, stop, evicted,
                    streak, ticks, hostProbes >>

-----------------------------------------------------------------------------
(* The writer goroutine. *)

WriterKeeps == << call, slot, group, live, host, up, stop, evicted, ticks, hostProbes >>

\* A reliable frame: small, small but compressed, or large.
AppendFrame(kind) ==
    /\ ~stop /\ Len(log) < MaxFrames
    /\ log' = Append(log, kind)
    /\ UNCHANGED << seqs, queue, writer, link, streak, WriterKeeps >>

\* Mutant: both counters of the control stream start at 1.
TransportId_Shared(n) == << "w", n >>

\* quicTransport.nextFrameID: a namespace disjoint from the writer's ids.
TransportId(n) == << "t", n >>

Whole(id, body) == [frag |-> FALSE, id |-> id, off |-> 1, last |-> TRUE, body |-> body]
Fragment(id, off, body) == [frag |-> TRUE, id |-> id, off |-> off, last |-> off = Units, body |-> body]
Reliable(n) == [type |-> "reliable", n |-> n]

\* takeControl and Send: one whole unit.
WriteControl ==
    /\ queue # << >> /\ Len(link) < MaxLink
    /\ queue' = Tail(queue)
    /\ link' = Append(link, Whole(TransportId(seqs.tr + 1), Head(queue)))
    /\ seqs' = [seqs EXCEPT !.tr = @ + 1]
    /\ streak' = 0

Writing == ~stop /\ Len(link) < MaxLink

\* The top of the loop: control first, then what is new in the log.
WriterTop ==
    /\ ~stop /\ writer.pc = "top"
    /\ \/ WriteControl /\ UNCHANGED writer
       \/ /\ queue = << >> /\ writer.frame <= Len(log)
          /\ writer' = [writer EXCEPT !.pc = "entry"]
          /\ UNCHANGED << queue, link, seqs, streak >>
    /\ UNCHANGED << log, WriterKeeps >>

\* Mutant: control frames go only in front of a large frame's first unit.
Interleaves_FirstOnly == writer.unit = 1

\* interleaveControl: at most one waiting control frame goes first, in front of
\* an entry and of each unit of a large one.
Interleaves == TRUE

Pass(pc) ==
    /\ writer' = [writer EXCEPT !.pc = pc]
    /\ \/ Interleaves /\ WriteControl
       \/ queue = << >> /\ UNCHANGED << queue, link, seqs, streak >>
       \/ ~Interleaves /\ UNCHANGED << queue, link, seqs, streak >>
    /\ UNCHANGED << log, WriterKeeps >>

Entry == ~stop /\ writer.pc = "entry" /\ Pass(IF log[writer.frame] = "small" THEN "unit" ELSE "lead")
Lead  == ~stop /\ writer.pc = "lead" /\ Pass("unit")

\* After the last unit of a frame comes the next entry of the batch.
NextFrame(n) == [pc |-> IF n < Len(log) THEN "entry" ELSE "top", frame |-> n + 1, unit |-> 1]

\* writeFrame: Send for a small frame; SplitFrame gives a compressed one or the
\* fragments of a large one an id of the writer.
WriteUnit ==
    LET n    == writer.frame
        kind == log[n]
        new  == IF kind # "small" /\ writer.unit = 1 THEN seqs.wr + 1 ELSE seqs.wr
    IN  /\ Writing /\ writer.pc = "unit"
        /\ link' = Append(link,
                      CASE kind = "small"      -> Whole(TransportId(seqs.tr + 1), Reliable(n))
                        [] kind = "compressed" -> Whole(<< "w", new >>, Reliable(n))
                        [] OTHER               -> Fragment(<< "w", new >>, writer.unit, Reliable(n)))
        /\ seqs' = [seqs EXCEPT !.wr = new, !.tr = IF kind = "small" THEN @ + 1 ELSE @]
        /\ writer' = IF kind = "large" /\ writer.unit < Units
                     THEN [writer EXCEPT !.pc = "lead", !.unit = @ + 1]
                     ELSE NextFrame(n)
        /\ streak' = IF queue = << >> THEN 0 ELSE streak + 1
        /\ UNCHANGED << queue, log, WriterKeeps >>

-----------------------------------------------------------------------------
(* The host (external), with the repository's Reassembler. *)

HostKeeps == << call, slot, group, seqs, live, queue, writer, log, stop, evicted, streak, ticks >>

\* Reassembler.Accept: the unit is an error, ...
UnitError(re, u) ==
    CASE ~u.frag -> re.open /\ u.id = re.id
      [] u.frag /\ ~re.open -> u.off # 1
      [] OTHER -> u.id # re.id \/ u.off # re.off + 1

\* ... completes a frame, or extends the open one.
UnitCompletes(u) == ~u.frag \/ u.last
Reassembled(re, u) ==
    CASE ~u.frag -> re
      [] u.frag /\ u.last -> NoReassembly
      [] OTHER -> [open |-> TRUE, id |-> u.id, off |-> u.off]

HostReceives ==
    /\ link # << >> /\ ~host.broken /\ Len(up) < MaxLink
    /\ link' = Tail(link)
    /\ LET u == Head(link)
           whole == ~UnitError(host.re, u) /\ UnitCompletes(u)
       IN  /\ host' = IF UnitError(host.re, u) THEN [host EXCEPT !.broken = TRUE]
                      ELSE [host EXCEPT !.re = Reassembled(@, u),
                                !.got = IF whole /\ u.body.type = "reliable" THEN
                                            IF u.body.n = @ + 1 THEN @ + 1 ELSE -1
                                        ELSE @]
           /\ up' = IF whole /\ u.body.type = "probe" THEN Append(up, ProbeAck(u.body.nonce)) ELSE up
    /\ UNCHANGED << hostProbes, HostKeeps >>

\* The host's own frames: a probe, or any other sign of life.
HostSends(f) ==
    /\ ~stop /\ Len(up) < MaxLink /\ hostProbes < MaxHostProbes
    /\ hostProbes' = hostProbes + 1
    /\ up' = Append(up, f)
    /\ UNCHANGED << link, host, HostKeeps >>

-----------------------------------------------------------------------------

CallStep(c) == Join(c) \/ Open(c) \/ Post(c) \/ Woken(c) \/ GivesUp(c) \/ Clear(c) \/ FailGroup(c)
LoopStep == SendHeartbeat \/ SendProbe \/ End \/ HandleFrame \/ Succeed
WriterStep == WriterTop \/ Entry \/ Lead \/ WriteUnit

Next ==
    \/ \E c \in Callers : CallStep(c)
    \/ LoopStep \/ WriterStep \/ HostReceives
    \/ \E k \in {"small", "compressed", "large"} : AppendFrame(k)
    \/ HostSends(Probe(<< "host", hostProbes >>)) \/ HostSends(Plain)

Spec == Init /\ [][Next]_vars

-----------------------------------------------------------------------------
(* Properties. *)

Nonces(frames) == {frames[i].nonce : i \in {j \in DOMAIN frames : frames[j].type # "hb"}}
LinkNonces == {link[i].body.nonce : i \in {j \in DOMAIN link : link[j].body.type \in {"probe", "probeAck"}}}

\* Control frames written between the fragments of a large frame never confuse
\* the receiver: no unit is an error, and the reliable frames arrive whole and
\* in order (SplitFrame, Reassembler.Accept, quicTransport.nextFrameID,
\* writeFrame).
FramesIntact == ~host.broken /\ host.got >= 0

\* Nobody waits on a probe group that no one will close: the group is in the
\* slot, closed, in the hands of the loop that completes it, or its owner is
\* about to close it (probe, its deferred clean-up, completeProbe).
JoinersNotStranded ==
    \A c \in Callers : call[c].pc = "wait" =>
        LET g == call[c].group
        IN  \/ group[g].closed \/ live.done = g
            \/ \E o \in Callers : call[o].group = g /\ call[o].pc \in {"post", "own", "clear", "clearOk", "fail", "failOk"}

\* While its owner waits, the probe of the group in the slot is on its way there
\* or back: heartbeats that coalesce or overflow the queue never cost it, only a
\* queue full of probes may drop it (postControl, dropOldestPlainLocked,
\* completeProbe).
AwaitedProbeOnTheWay ==
    \A g \in Groups :
        (slot = g /\ ~stop /\ \E c \in Callers : call[c].group = g /\ call[c].pc = "own") =>
            \/ Preflight(g) \in Nonces(queue) \cup LinkNonces \cup Nonces(up)
            \/ Probe(Preflight(g)) \in evicted

\* "A 28MB answer cannot hold a heartbeat hostage": while a control frame waits
\* at most one unit is written before a control frame is (writeEntries,
\* writeFrame, interleaveControl).
ControlWaitsOneUnit == streak <= 1
=============================================================================
