----------------------------- MODULE Subscriber -----------------------------
(***************************************************************************)
(* One browser page behind the fan-out (feSubscriber in internal/hub/      *)
(* hub.go and the writer of handleFeWS in cmd/capri-hub/main.go): the ring *)
(* the fan-out appends to without ever blocking, the pump that moves it to *)
(* the page's channel, the drop accounting with its one resync slot, and   *)
(* the writer that batches the channel onto the socket.                    *)
(*                                                                         *)
(* Every host has a fan-out goroutine of its own, and hub-level events     *)
(* come from whatever goroutine has one to broadcast; they, the pump, the  *)
(* writer and the page's reader interleave wherever s.mu is released.  An  *)
(* event is its host, the host's epoch, whether it is critical, or whether *)
(* it is the epoch reset ("subscribed"); a hub-level event has no host.  A *)
(* resync is the host it is tagged with, if any, and a stamp (how many     *)
(* critical events of the host had been dropped by then).                  *)
(***************************************************************************)
EXTENDS Naturals, FiniteSets, SequencesExt

CONSTANTS Hosts,          \* hosts the page may watch
          FirstHost,      \* the one it opens with
          Broadcasters,   \* goroutines that broadcast hub-level events
          RingCap,        \* subRingCap
          Slack,          \* subRingCriticalSlack
          ChCap,          \* capacity of the page's channel
          Threshold,      \* resyncDropThreshold
          BatchMax,       \* events written in one frame
          MaxEvents,      \* bound: events published by hosts
          MaxBroadcasts,  \* bound: hub-level events
          MaxEpoch,       \* bound: epochs of a host
          MaxRetargets    \* bound: host switches of the page

ASSUME SubscriberAssumption ==
    /\ {RingCap, ChCap, Threshold, BatchMax} \subseteq Nat \ {0}
    /\ FirstHost \in Hosts
    /\ {Slack, MaxEvents, MaxBroadcasts, MaxEpoch, MaxRetargets} \subseteq Nat

Pump    == "pump"
NoHost  == ""         \* the tag of what names no host
Sources == Hosts \cup Broadcasters
Actors  == Sources \cup {Pump}

ASSUME ActorsApart ==
    Pump \notin Sources /\ NoHost \notin Hosts /\ Hosts \cap Broadcasters = {}

VARIABLES
    filter,     \* the host the page watches
    ring,       \* events in front of the channel
    pending,    \* the queued resync, or NoFrame
    wake,       \* the token in the wake channel
    ch,         \* the page's channel
    act,        \* act[a]: where a goroutine that delivers, or the pump, is, and the frame it holds
    dropped,    \* the drop counter
    stopped,    \* the writer has returned and unregistered the page, done is closed
    batch,      \* events taken by the writer and not written
    writing,    \* frames of the batch being written, << >> in the select
    epoch,      \* epoch[h]: the epoch host h publishes in
    shown,      \* what has been written to the page of its hosts
    crit,       \* history: crit[h], critical events of h dropped
    silent,     \* history: droppable events dropped since a resync was last queued
    lostReset,  \* history: lostReset[h], newest epoch whose reset was dropped
    replaced,   \* history: resyncs that were replaced, pending, by one not of their host
    published, broadcasts, retargets

ringVars == << ring, pending, wake, ch, act, dropped >>
writerVars == << batch, writing, shown >>
bounds == << published, broadcasts, retargets >>
histVars == << crit, silent, lostReset, replaced >>
vars == << filter, stopped, epoch, ringVars, writerVars, histVars, bounds >>

NoFrame == [type |-> "none"]
Ev(t, h, e) == [type |-> t, host |-> h, epoch |-> e]
Resync(h, n) == [type |-> "resync", host |-> h, stamp |-> n]
HubEvent == Ev("hub", NoHost, 0)

CriticalEvent(ev) == ev.type = "critical"

At(a, pc) == act[a].pc = pc
Go(a, pc, ev) == [act EXCEPT ![a] = [pc |-> pc, ev |-> ev]]

Init ==
    /\ filter = FirstHost /\ stopped = FALSE
    /\ ring = << >> /\ pending = NoFrame /\ wake = FALSE /\ ch = << >>
    /\ act = [a \in Actors |-> [pc |-> IF a = Pump THEN "top" ELSE "idle", ev |-> NoFrame]]
    /\ dropped = 0
    /\ batch = << >> /\ writing = << >> /\ shown = {}
    /\ epoch = [h \in Hosts |-> 0]
    /\ crit = [h \in Hosts |-> 0] /\ silent = 0 /\ lostReset = [h \in Hosts |-> 0] /\ replaced = {}
    /\ published = 0 /\ broadcasts = 0 /\ retargets = 0

-----------------------------------------------------------------------------
(* The goroutines that deliver. *)

\* broadcastHost reads the page's filter, and delivers in a later step; what is
\* filtered out does not concern this page.
Publish(h, type) ==
    /\ At(h, "idle") /\ published < MaxEvents
    /\ filter = h /\ ~stopped
    /\ type = "reset" => epoch[h] < MaxEpoch
    /\ published' = published + 1
    /\ epoch' = IF type = "reset" THEN [epoch EXCEPT ![h] = @ + 1] ELSE epoch
    /\ act' = Go(h, "deliver", Ev(type, h, epoch'[h]))
    /\ UNCHANGED << filter, stopped, ring, pending, wake, ch, dropped, writerVars, histVars,
                    broadcasts, retargets >>

\* hosts_changed, subscribers_changed, prefs_changed: whatever host the page
\* watches (broadcast, notifySubscribersCount, broadcastToUser).
Broadcast(b) ==
    /\ At(b, "idle") /\ broadcasts < MaxBroadcasts
    /\ ~stopped
    /\ broadcasts' = broadcasts + 1
    /\ act' = Go(b, "deliver", HubEvent)
    /\ UNCHANGED << filter, stopped, epoch, ring, pending, wake, ch, dropped, writerVars, histVars,
                    published, retargets >>

\* Critical events may use the reserved slack.
Limit(ev) == IF CriticalEvent(ev) THEN RingCap + Slack ELSE RingCap

\* Mutant: queueResync leaves it to the next enqueue to wake the pump.
Signals_NotResync(what) == what # "resync"

\* Both enqueue and queueResync leave a token in the wake channel; it holds one,
\* and sending never blocks.
Signals(what) == TRUE

\* deliver, enqueue: append and wake the pump, or account for the drop.
Enqueue(h) ==
    /\ At(h, "deliver")
    /\ LET ev == act[h].ev
           full == Len(ring) >= Limit(ev)
       IN  /\ ring' = IF full THEN ring ELSE Append(ring, ev)
           /\ act' = IF full THEN Go(h, "drop", ev) ELSE Go(h, "idle", NoFrame)
           /\ wake' = (wake \/ (~full /\ Signals("event")))
           /\ crit' = IF full /\ CriticalEvent(ev) THEN [crit EXCEPT ![h] = @ + 1] ELSE crit
           /\ silent' = IF full /\ ~CriticalEvent(ev) THEN silent + 1 ELSE silent
           /\ lostReset' = IF full /\ ev.type = "reset" THEN [lostReset EXCEPT ![h] = ev.epoch]
                           ELSE lostReset
    /\ UNCHANGED << filter, stopped, epoch, pending, ch, dropped, writerVars, replaced, bounds >>

\* Where an actor goes on after noteDrop.
After(a) == IF a = Pump THEN "pop" ELSE "idle"

\* Mutants: the threshold is never reached; only the threshold counts.
Escalates_Never(ev, n) == CriticalEvent(ev)
Escalates_NotCritical(ev, n) == n >= Threshold

\* A dropped critical event escalates at once, others by the dozen.
Escalates(ev, n) == CriticalEvent(ev) \/ n >= Threshold

\* noteDrop: count, reset the counter, queue the resync: three steps.
CountDrop(a) ==
    /\ At(a, "drop")
    /\ dropped' = dropped + 1
    /\ act' = IF Escalates(act[a].ev, dropped + 1) THEN Go(a, "reset", act[a].ev)
              ELSE Go(a, After(a), NoFrame)
    /\ UNCHANGED << filter, stopped, epoch, ring, pending, wake, ch, writerVars,
                    histVars, bounds >>

ResetCounter(a) ==
    /\ At(a, "reset")
    /\ dropped' = 0
    /\ act' = Go(a, "queue", act[a].ev)
    /\ UNCHANGED << filter, stopped, epoch, ring, pending, wake, ch, writerVars,
                    histVars, bounds >>

\* resyncFrame tags the resync with the event's hostId: epoch resets ("host")
\* and hub-level events have none.
Tag(ev) == IF ev.type \in {"bulk", "critical"} THEN ev.host ELSE NoHost

\* How many critical events a resync tagged h stands for.
Stamp(h) == IF h = NoHost THEN 0 ELSE crit[h]

\* A newer resync replaces the pending one, whichever host that one names.
QueueResync(a) ==
    LET h == Tag(act[a].ev)
    IN  /\ At(a, "queue")
        /\ pending' = Resync(h, Stamp(h))
        /\ replaced' = replaced \cup {r \in {pending} : r # NoFrame /\ r.host \notin {h, NoHost}}
        /\ silent' = 0
        /\ act' = Go(a, After(a), NoFrame)
        /\ wake' = (wake \/ Signals("resync"))
        /\ UNCHANGED << filter, stopped, epoch, ring, ch, dropped, writerVars,
                        crit, lostReset, bounds >>

-----------------------------------------------------------------------------
(* The pump. *)

PumpKeeps == << filter, stopped, epoch, writerVars, bounds >>

\* The top of the loop, under s.mu: the resync first, then the ring.
PumpTop ==
    /\ At(Pump, "top")
    /\ pending' = NoFrame
    /\ act' = CASE pending # NoFrame -> Go(Pump, "send", pending)
                [] pending = NoFrame /\ ring = << >> -> Go(Pump, "wait", NoFrame)
                [] OTHER -> Go(Pump, "event", Head(ring))
    /\ UNCHANGED << ring, wake, ch, dropped, histVars, PumpKeeps >>

PumpWait ==
    /\ At(Pump, "wait")
    /\ \/ wake /\ wake' = FALSE /\ act' = Go(Pump, "top", NoFrame)
       \/ stopped /\ act' = Go(Pump, "done", NoFrame) /\ UNCHANGED wake
    /\ UNCHANGED << ring, pending, ch, dropped, histVars, PumpKeeps >>

Room == Len(ch) < ChCap

\* send: waits for room or for the end.
PumpSend ==
    /\ At(Pump, "send") \/ (At(Pump, "event") /\ CriticalEvent(act[Pump].ev))
    /\ \/ /\ Room /\ ch' = Append(ch, act[Pump].ev)
          /\ act' = IF At(Pump, "send") THEN Go(Pump, "top", NoFrame) ELSE Go(Pump, "pop", NoFrame)
       \/ stopped /\ act' = Go(Pump, "done", NoFrame) /\ UNCHANGED ch
    /\ UNCHANGED << ring, pending, wake, dropped, histVars, PumpKeeps >>

\* trySend: a full channel drops a droppable event.
PumpTrySend ==
    LET ev == act[Pump].ev
        lost == ~Room /\ ~stopped
    IN  /\ At(Pump, "event") /\ ~CriticalEvent(ev)
        /\ ch' = IF Room THEN Append(ch, ev) ELSE ch
        /\ act' = CASE Room -> Go(Pump, "pop", NoFrame)
                    [] lost -> Go(Pump, "drop", ev)
                    [] OTHER -> Go(Pump, "done", NoFrame)
        /\ silent' = IF lost THEN silent + 1 ELSE silent
        /\ lostReset' = IF lost /\ ev.type = "reset" /\ ev.epoch > lostReset[ev.host]
                        THEN [lostReset EXCEPT ![ev.host] = ev.epoch] ELSE lostReset
        /\ UNCHANGED << ring, pending, wake, dropped, crit, replaced, PumpKeeps >>

PumpPop ==
    /\ At(Pump, "pop")
    /\ ring' = Tail(ring)
    /\ act' = Go(Pump, "top", NoFrame)
    /\ UNCHANGED << pending, wake, ch, dropped, histVars, PumpKeeps >>

-----------------------------------------------------------------------------
(* The page's connection: the writer, and the reader that retargets it. *)

WriterKeeps == << filter, epoch, ring, pending, wake, act, dropped, histVars, bounds >>

\* The writer is in its select.
Selecting == ~stopped /\ writing = << >>

\* An event is taken: a full batch is written, a partial one has its timer armed.
Take ==
    /\ Selecting /\ ch # << >>
    /\ ch' = Tail(ch)
    /\ LET b == Append(batch, Head(ch))
           full == Len(b) >= BatchMax
       IN  /\ writing' = IF full THEN b ELSE << >>
           /\ batch' = IF full THEN << >> ELSE b
    /\ UNCHANGED << stopped, shown, WriterKeeps >>

\* The flush timer, or the ping ticker, writes what there is.
Flush ==
    /\ Selecting /\ batch # << >>
    /\ writing' = batch /\ batch' = << >>
    /\ UNCHANGED << stopped, shown, ch, WriterKeeps >>

\* What the page knows of x once it is written: an event is one of its epoch.
Seen(x) == IF x.type \in {"bulk", "critical"} THEN Ev("event", x.host, x.epoch) ELSE x

\* Mutant: the events of a batch go out as one frame, the resets after it.
NextFrame_EventsFirst(evs) ==
    LET rest == SelectSeq(evs, LAMBDA x : x.type = "reset")
        body == SelectSeq(evs, LAMBDA x : x.type # "reset")
    IN  IF body = << >> THEN << evs, << >> >> ELSE << body, rest >>

\* writeBatch: a reset is a frame of its own, the events between two resets
\* are one, in the order they came.
NextFrame(evs) ==
    LET resets == {i \in DOMAIN evs : evs[i].type = "reset"}
        n == IF resets = {} THEN Len(evs)
             ELSE LET i == CHOOSE i \in resets : \A j \in resets : i <= j
                  IN  IF i = 1 THEN 1 ELSE i - 1
    IN  << SubSeq(evs, 1, n), SubSeq(evs, n + 1, Len(evs)) >>

WriteFrame ==
    /\ ~stopped /\ writing # << >>
    /\ shown' = shown \cup {Seen(x) : x \in {y \in ToSet(NextFrame(writing)[1]) : y.host # NoHost}}
    /\ writing' = NextFrame(writing)[2]
    /\ UNCHANGED << stopped, ch, batch, WriterKeeps >>

\* A write fails, the browser leaves, or its credential is revoked: the
\* handler returns and unsubscribes.
Leave ==
    /\ ~stopped /\ stopped' = TRUE
    /\ writing' = << >> /\ batch' = << >> /\ shown' = {}
    /\ UNCHANGED << ch, WriterKeeps >>

\* A subscribe frame moves the filter (SetSubscriberHost); what is queued stays.
Retarget(h) ==
    /\ ~stopped /\ retargets < MaxRetargets /\ h # filter
    /\ filter' = h /\ retargets' = retargets + 1
    /\ UNCHANGED << stopped, epoch, ringVars, writerVars, histVars, published, broadcasts >>

-----------------------------------------------------------------------------

DropStep(a) == CountDrop(a) \/ ResetCounter(a) \/ QueueResync(a)
PumpStep == PumpTop \/ PumpWait \/ PumpSend \/ PumpTrySend \/ PumpPop \/ DropStep(Pump)
SourceStep(s) == Enqueue(s) \/ DropStep(s)
WriterStep == Take \/ Flush \/ WriteFrame

Next ==
    \/ \E h \in Hosts : \/ \E t \in {"bulk", "critical", "reset"} : Publish(h, t)
                        \/ Retarget(h)
    \/ \E b \in Broadcasters : Broadcast(b)
    \/ \E s \in Sources : SourceStep(s)
    \/ PumpStep \/ WriterStep \/ Leave

Spec == Init /\ [][Next]_vars

-----------------------------------------------------------------------------
(* Properties. *)

\* Frames on their way to the page, those an actor holds included.
OnTheWay ==
    ToSet(ch) \cup ToSet(batch) \cup ToSet(writing) \cup {pending} \cup
    (IF At(Pump, "send") THEN {act[Pump].ev} ELSE {})

\* A critical drop of h is still in noteDrop.
Accounting(h) == \E a \in Actors : act[a].pc \in {"drop", "reset", "queue"}
                                     /\ CriticalEvent(act[a].ev) /\ act[a].ev.host = h

\* "A dropped CRITICAL event escalates immediately": the page has been told of
\* every critical event it lost, or a resync of its host, queued after the loss,
\* is on its way, or noteDrop is not done yet; unless that resync was itself
\* replaced in the one slot, by one of another host or by an untagged one
\* (noteDrop, resyncFrame, queueResync, pump).
CriticalDropAnnounced ==
    \A h \in Hosts :
        \/ crit[h] = 0 \/ Accounting(h) \/ stopped
        \/ Resync(h, crit[h]) \in OnTheWay \cup shown \cup replaced

\* A threshold of droppable events is never lost without a resync after them:
\* either fewer are unannounced, not counting those noteDrop has not counted
\* yet, or some goroutine is about to queue one, though several of them count,
\* reset the counter and queue in separate steps (noteDrop).
SilentDropsBounded ==
    \/ silent < Threshold + Cardinality({a \in Actors : At(a, "drop")})
    \/ \E a \in Actors : At(a, "reset") \/ At(a, "queue")

\* A page gets no event of an epoch before the reset that announces it, unless
\* the reset never entered its ring or was dropped from it (pump, writeBatch).
ResetPrecedesEvents ==
    \A x \in shown : x.type = "event" =>
        x.epoch = 0 \/ x.epoch <= lostReset[x.host] \/ Ev("reset", x.host, x.epoch) \in shown

-----------------------------------------------------------------------------
(***************************************************************************)
(* Liveness.  The pump and the writer go on when they can: the page reads  *)
(* its socket, so that writes end, and the writer's select takes what is   *)
(* ready.  Nothing is assumed of the goroutines that deliver.              *)
(***************************************************************************)

Fairness == WF_vars(PumpStep) /\ WF_vars(WriterStep)

FairSpec == Spec /\ Fairness

\* A page that reads is never left with something undelivered: ring, slot,
\* channel and batch drain, no wakeup is lost (enqueue, queueResync, pump,
\* handleFeWS), and a page that was unregistered leaves no pump behind.
EventuallyDrained ==
    <>[](\/ ring = << >> /\ pending = NoFrame /\ ch = << >> /\ batch = << >>
         \/ stopped /\ At(Pump, "done"))
=============================================================================
