# capri-hub: TLA+ models and proofs

capri-hub is a relay between *hosts* (machines that run agent sessions) and
*browsers*. Each host keeps one transport (WebSocket or QUIC) to the hub. Events
flow up it and are fanned out to the browsers. Browser requests flow down it and
their answers come back in chunks. This directory models the parts whose
correctness depends on interleavings, reconnects, lost or repeated frames, full
queues, failed writes and restarts. TLC checks the models on small instances, and
TLAPS proves their safety properties for all sizes (section 4): every invariant and
every action property that the passing runs check is a theorem. Liveness is
model-checked only.

`PROJECT.json` maps every definition to the source lines it stands for, and
lists the hazards, the runs, the mutants that show each property can fail, the
findings and the theorems.

## 1. Inventory

| part | source | state | operations | what makes it correct | module |
|---|---|---|---|---|---|
| sequencing | `wire/sender.go`, `receiver.go` | `Sender{next, acked, log}`, `Receiver{acked, window, buf}` | Append, AppendAt, Ack, Elide; Accept | every seq applied once and in order; an entry leaves the log only when applied; a bounded window that always recovers | `Wire`, `SeqChannel` |
| transport units | `wire/unit.go` | `Reassembler` | SplitFrame, Accept | a frame split into units, with control frames in between, comes out whole | `Control` |
| frames, limits | `wire/frame.go`, `limits.go`, `identity.go` | none | encode, decode, validate | pure functions on bytes | - |
| host sessions | `internal/hub/session.go`, `hub.go` | `hostState`, one loop per transport | attach (resume or new epoch), supersede, detach, grace timer, accept, ingest | no acknowledged event is lost; a predecessor never disturbs its successor | `HostSession` |
| events and fan-out | `hub.go` | gap-pull ring, per-host channel, drain goroutine | buffer, enqueue, drain, reset | gap pulls are ordered and without holes; a browser hears of an epoch before its events | `HostSession` |
| control plane | `session.go`, `writer.go` | control queue, shared probe group, liveness probe | heartbeat, probe, join, answer, post, interleave | no caller is stranded, no awaited probe lost to heartbeats, no control frame starved | `Control` |
| downlink | `session.go`, `writer.go` | down log, audience bookkeeping, `reqAcks` | append, write, replay, ack, expire, in-place update, resend | the host ends with the newest audience; every logged frame arrives | `DownLink` |
| request relay | `hub.go` | pending table, one-slot answer channels, tombstones | look up, preflight, register, send, wait; park, apply, fail; expire | each waiting browser gets exactly one outcome; answers are whole; budgets hold | `Relay` |
| browser subscriptions | `hub.go`, `cmd/capri-hub/main.go` | ring, resync slot, channel, batch | enqueue, drop, pump, batch, write | losses are announced; resets stay in front; no wakeup is lost | `Subscriber` |
| page scope and audience | `hub.go`, `guests.go`, `users.go`, `main.go` | registered pages with scope, filter, session; audience per host | identify, register, view, retarget, leave; drop; notify | hosts stream what is displayed; what is withdrawn closes its pages | `Pages` |
| registry and persistence | `hub.go`, `users.go` | hosts, tokens, users, pairing codes; `hub.json`, `users.json` | pair, unpair, rename, rotate, create, delete, persist, load | one token per host; answered changes are durable; codes work once | `Registry` |
| preferences | `prefs.go`, `userprefs.go` | versioned documents | merge, write | versions never go back | - |
| HTTP front | `cmd/capri-hub/*.go` | tickets, limiters, handlers | route, authenticate, render | the handlers above call the operations in the right order | parts in `Pages`, `Registry`, `Subscriber` |

**Interaction.** A transport's `serveHost` calls `attach` (under `h.mu`), stops
the predecessor, and runs a session loop, a reader and a writer goroutine.
The loop feeds events to `ingestRawEvents` (which takes `h.mu`, then `hs.mu` per
event, then no lock for the fan-out channel) and answers to `acceptRespond`
(`h.mu`). The drain goroutine of a host hands its events to every page whose
scope and filter let them through; the page's pump and writer take them from
there. `Dispatch` runs on the browser's goroutine: it takes and releases `h.mu`
several times, preflights the link through the shared probe, and calls
`session.dispatch` (the protocol's lock) in between. Whatever changes the set of
pages or what they show calls `notifyAudience`, which mints a generation and
pushes it to the host's down log. Handlers that pair, unpair and delete change
the registry under `h.mu`, kick pages and write files after releasing it. Ending
a loop calls `detach` (`h.mu`), which may come long after a successor has
attached.

**Hard behaviours.** Several loops of one host alive at once; a check under one
lock used after its release; epochs replacing each other while events are in
flight; acknowledgements running ahead of application; retransmission and
repetition; full windows, rings, queues, budgets and tables; timers of an earlier
pause; a probe shared by callers that give up at different times; snapshots of
scope older than a revocation; files written out of the lock that ordered their
contents; crashes between two writes. They are listed at their lines under
`hazards`.

## 2. Modules

The modules split along the locks and goroutines that meet. Where one component
needs another only through its outcome, the outcome is a nondeterministic
choice: `Relay` takes the preflight's result from `Control`, `DownLink` takes
changes of the audience from `Pages`, `Subscriber` takes the drained events from
`HostSession`. `HostSession`, `DownLink` and `Relay` take the arithmetic of sequence
numbers from `Wire`, so that all share one definition of it, and `SeqChannel` proves what
that arithmetic gives.

### Wire, SeqChannel, ReliableFifo

`Wire` has one operator from record to record for each method of Sender and
Receiver. A log (a slice ordered by seq) is a function from seqs to payloads;
byte counters are left out. `RunEnd` is where Accept's drain loop stops, defined
as the end of the contiguous run of parked seqs so that it can be reasoned about
without recursion.

In `SeqChannel` the transport is a set of frames and a set of acks: reading
does not remove, so repetition and reordering are free, and `Lose`,
`Disconnect` and `Overflow` remove. `Transmit` stands for every write of a logged
entry (first write, RTO replay, replay after a resume). `Reconnect` is the
same-epoch handshake: the watermark of the receiver reaches the sender. Both
ways of numbering frames occur: `SendAppend` (the hub) and `SendAppendAt` (the
host's bus, whose first call sets the baseline). `versions` and `delivered` are
history variables; they are also the variables of `ReliableFifo`, the abstract
promise: items are handed over in order, once, none left out, and an item may be
revised until it is known to have arrived. `ImplementsFifo` is that specification
under an explicit refinement mapping.

### HostSession

Steps end where the code releases a lock. A session loop has the program
counters

    new -> [attach ->] hello -> idle -> accept -> gate -> buffer <-> enqueue -> note -> idle
                                  \--> closing -> done

`Accept` is one `proto.accept` (the watermark moves), `Gate` the ownership check
under `h.mu`, `Buffer` the epoch check and ring insert under `hs.mu`, `Enqueue`
the fan-out send under no lock, `Note` the mirrored watermark with the immediate
heartbeat. Attaching a new epoch is two steps (`AttachNewEpoch`, `AttachFinish`)
because `hs.epoch` is an atomic that loops and the drain read without `h.mu`;
`lock` says that `h.mu` is held in between. The history variables `overlapped`
(epochs with a resume that attached before its predecessor's detach) and
`unreset` (epochs whose reset a full queue dropped) name the exceptions of the
properties. The buffer is the code's: events are inserted where the epoch and the
order put them (`InsertAt`), and what grows past the high-water mark is cut back to
`BufCap` (`Compacted`). `GapPullContiguous` and `SeenInOrder` go by the epoch of
each event, not by the registered one. The host process is external: it sends each run of events once per
transport, resends from `ackUp` on a resume, and drops a copy only when an ack
covers it. A hub restart keeps the host and forgets the rest.

### Relay

Each browser request is a Dispatch goroutine (`new, preflight, send, check,
wait, returned`). A pending entry is on `DOMAIN pending`, its answer channel is
`resp[r]` (capacity one in the code; the model would let a second send through
and `OneOutcome` says there is none), its `done` channel is `gone`. The tombstone
table is a sequence in the order of insertion, of which the oldest go first
(`Newest`); `FailExpired` and the send on the answer channel, which follows the unlock,
are one step: whoever takes the entry is the only one to send, and only its caller reads; `Parked` are the chunks ahead of a gap, over all requests. Respond frames
are a set that is never emptied: chunks arrive in any order, any number of
times, or never. Sizes are counted in chunks; a chunk that cannot be decoded, or
makes the body invalid or too large, is a "bad" one.

### DownLink

`proto[e]` is sessionProto's downward half: the Sender and the audience
bookkeeping (`audienceSeq`, `audienceGen`, `audienceSentGen`, `audienceLatest`,
`audienceResend`) and the unacked requests. An audience is its generation.
`Notify` mints a generation under `h.mu` and captures the session; `Push` updates
the log under `proto.mu`; `AskRewrite` fills the writer's slot. A writer has the
program counters

    top -> write <-> note -> top,   top -> select -> top | write

and works on entries as they were when it took them: a payload replaced
meanwhile is written in its old form, and `Written` (noteWritten) comes after the
frame has left, so the host's ack may come before it. Superseded sessions keep
their loops and writers until they notice. The host follows the protocol's rule
to apply a newer generation even under a seq it has delivered; a second copy of a
frame that it has parked is a duplicate, whatever it carries, as in the
repository's own Receiver. Two history variables name the exceptions of
`HostHoldsNewest`: `missed` (such a copy was newer) and `doubled` (a writer wrote
while a later one of its epoch was at work).

### Control

The control queue coalesces and drops (`Posted`, `Victim`), the writer takes from
it at the top of its loop and between entries and units (`WriterTop`, `Entry`,
`Lead`, `WriteUnit`), the host reassembles with the repository's own Reassembler
(`UnitError`, `Reassembled`) and answers probes. A caller of `probe` joins the
group in the slot or opens one; the owner's deferred clean-up is two steps
(`Clear`, `FailGroup`), and so is the loop's completion (`HandleFrame` clears the
slot, `Succeed` wakes the waiters). A frame is small (one unit with an id of the
transport), compressed (one unit with an id of the writer) or large (several). The
frames come in the order of the log; the writer's snapshot of a batch of it is not
kept apart, since nothing that is logged meanwhile goes in front.
Timers fire whenever they are armed.

### Subscriber

One page. Every host has its fan-out goroutine, which reads the page's filter
(`Publish`); hub-level events, which have no host (`hosts_changed`,
`subscribers_changed`, `prefs_changed`), come from `Broadcasters`, the goroutines of
whoever has one to send (`Broadcast`). Both append to the ring (`Enqueue`), and on a drop
count, reset the counter and queue the resync in three steps (`CountDrop`, `ResetCounter`,
`QueueResync`). A resync is tagged with the `hostId` of the event that was dropped
(`Tag`); epoch resets, which carry `host`, and hub-level events have none, so theirs is
untagged and stands for no host's loss. The pump peeks under `s.mu`, sends outside it and pops afterwards.
The writer batches and writes frame by frame, a reset in a frame of its own.
`shown` is the set of what was written to the page of its hosts, an event in it only as an
event of its host's epoch. The stamp of a resync (how many critical events of its host had
been lost when it was queued) relates it to the losses it covers; `replaced` are the
resyncs that one of another host, or an untagged one, replaced in the slot.

### Registry

HTTP handlers run concurrently; each is a program counter and the values it
holds. Pairing resolves the code in one step (`OwnerForPairCode`) and redeems it
in another (`PairAs`). Every change is followed by `Persist` (the snapshot, under
`persistMu`) and `Write` (temp file and rename), which may fail: the failure is
only logged. The deletion of an account takes a snapshot of its hosts, unpairs
each with a write of its own, then removes the account. `Crash` kills all
handlers and loads the files; codes are in memory only.

### Pages

A connection is identified, takes its scope, registers and leaves in separate
steps, because revocations run in between. The reader's subscribe frame is five, one for
each hold of `h.mu`: the check of the target (`SubscribeFrame`), for a user the read of its
hosts (`ReadHosts`) and their store (`StoreHosts`), the filter (`StoreTarget`), the session
(`StoreSession`). `owed` holds the `notifyAudience` calls that goroutines have still to make,
`drops` the kicks that a withdrawal has still to make; no notification is due
(`Settled`) when none is owed and no user's page is between `StoreHosts` and the
notification of `StoreTarget`.

A guest token is live, revoked or deleted, and has an expiry, which a `clock` passes
(`Tick`); it is `Active` when live and not past. Updating it (`UpdateGuestToken`: revoke,
revive, another expiry) drops its pages only if it was active before and the update
`Withdraws` what they copied. Whatever the update, a page's own timer runs on the
expiry it copied: the page is `Due` once that is past, and may leave (`Leave`), which
kicks the token's other pages. `late` records three kinds of connections: those that copied a
credential or a scope before a drop and stored it after, and those whose target was unpaired
after its check and before the read ("target").

## 3. Runs

| run | shows | instance | states |
|---|---|---|---|
| `channel` | unapplied frames stay logged, delivery in order and once, window respected, refinement of `ReliableFifo`, the log drains | 2 payloads, 3 frames, window 1, baseline 1 | 0.6 M |
| `host_takeover` | acknowledged events are ingested, the mirrored watermark is honest, gap pulls have no holes, browsers see order; ring ordered and of one epoch, queued resets precede events, late detaches and timers harm nobody | 2 transports, 2 epochs, 3 events of the first and 2 of the second, 1 hub restart, queue of 1 | 2.7 M |
| `host_overlap` | the first finding of section 6 (violation) | 2 transports, 1 event | - |
| `relay_dispatch` | one outcome per browser and a host to answer it, tombstones final | 2 requests, 2 sessions, 2 epochs, table of 1 | 3.2 M |
| `relay_assembly` | answers whole, parking budget | 2 requests, 2 chunks, budget 1 | 3.2 M |
| `downlink_audience` | one audience frame in the log; a quiet host holds the newest generation | 2 transports, 2 epochs, 2 changes, 3 seqs | 4.2 M |
| `downlink_overtaken` | the second finding of section 6 (violation) | 1 transport, 3 changes, 1 request, 4 seqs | - |
| `downlink_delivery` | only a written request can expire; a connected host catches up with the audience and acknowledges every frame | 1 transport, 2 changes, 1 request, 4 seqs | 0.2 M |
| `subscriber_page` | losses announced, silent losses bounded, resets in front, everything drains | 2 hosts, ring 1 + 1, channel 1, threshold 2, 3 events of hosts, 1 hub-level event | 1.3 M |
| `control_probes` | frames intact, no joiner stranded, no awaited probe lost, control waits one unit | 2 callers, queue of 2, 2 probes, 2 frames of up to 2 units | 5.4 M |
| `registry_files` | one token per host, answers durable, codes one-shot, no orphan host | 2 handlers, 1 user, 2 hosts of one name, 3 codes, 1 crash | 2.2 M |
| `pages_scope` | displayed is streamed, withdrawn pages kicked, scope follows ownership, acked user receives | 2 pages, 2 hosts, 1 user, 1 guest, 2 sessions, 2 changes, a clock that moves once | 2.9 M |

**Bounds.** A window, table, budget, ring or queue of one is full after one item,
so the limits are met in every run that has them, and three frames are what it
takes to fill a window of one, overflow it and close the gap. The control queue
has two places, so that a heartbeat and a probe compete for one. Two transports
are what a takeover needs, two epochs what a restart of the host needs, three
events what a hole in a sorted buffer needs (a restarted host publishes two, `MaxFresh`), two
points in time what the expiry of a token needs (never, or the last: ahead at first and
past in the end), two
hosts what the shared resync slot and the change of an owner need, two handlers
what every race in the registry needs; three codes are the fewest that let a
root code rotate while a user holds one. Every constant that is only a bound is
marked `bound:` where it is declared. `CHECK_DEADLOCK FALSE` is set wherever, with
the bounded inputs used up, the system is at rest, as the real one is between
inputs; only in `channel` is there always something to do.

**Symmetry.** Requests (`MCRelay`), callers (`MCControl`), handlers and pairing
codes (`MCRegistry`), connections, hosts and sessions (`MCPages`) are only compared for
equality; which host is whose at the start is chosen in `Init` among all the ways. The runs with temporal properties use none.

**Fairness** (`channel`). The session loop replays the oldest unacked
entries on every RTO (`session.run`, `retransmit`) and answers every accepted
run with an ack, so these repeat for as long as they are needed; a host that
lost its transport dials again (weak fairness of `Reconnect`). Repeating helps
only if the transport lets a repeated frame or ack through now and then: strong
fairness of `TransmitOldest`, `ReceiveNext`, `SendAck` and `ReceiveNewAck`.
Nothing is assumed about frames behind the gap, which may always be lost.

**Fairness** (`downlink_delivery`). Each goroutine that can take a step does (weak
fairness), a heartbeat kicks the writer every keepalive, and the retransmit
request of an RTO stays in its one-slot channel until the writer's select takes
it (strong fairness of `Replay`, because the writer also leaves the select for
other reasons). Breaks, expiries and changes of the viewing set are not forced. An
ack that arrives before noteWritten causes a resend of the same snapshot under a
fresh seq; because that may repeat, the two properties except behaviours that
have used up the bound on seqs.

**Fairness** (`subscriber_page`). The pump and the page's writer go on when they can
(weak fairness of `PumpStep` and `WriterStep`), because the page reads its socket:
a page that does not is closed by the write deadline, which is `Leave`. Nothing is
assumed of the goroutines that deliver: what has reached the ring or the slot drains
even if one of them stops in `noteDrop` for good.

## 4. Proofs

Eight modules of proofs, one per component. Each theorem holds for all values of
the component's constants that satisfy the assumption named in its module
(`ChannelAssumption`, `RegistryAssumption`, `ControlAssumption`, `PagesAssumption`,
`RelayAssumption`, `DownLinkAssumption`, `HostSessionAssumption`, `SubscriberAssumption`
with `ActorsApart`): bounds and caps are
natural numbers, those of windows, queues and tables positive; the names of root,
nobody, none and the pump are no one else's; hosts and broadcasting goroutines differ; there are more pairing codes than users. TLC
evaluates the assumptions in every run of the module. All proofs have one shape: an
inductive invariant, a lemma per part of it with one step per action of `Next`,
and the properties of the runs as consequences. "Properties" below are the
definitions that section 3's runs check.

**`SeqChannelProofs`**: all invariants of `channel` (`TypeCorrect`, `NothingLost`,
`InOrderOnce`, `WindowBound`) and `Refinement`: `Spec => Fifo!FifoSpec`.
`IInv` adds what the log holds exactly (all that was produced above the
sender's watermark), that the sender's watermark and every ack in flight are at
most the receiver's, where parked and in-flight seqs lie, and that every copy of
a frame carries a payload its seq has had. From these, `Accept` hands over the run
`acked + 1 .. RunEnd`, each payload a version of its seq, which is both the order
property and the `Deliver` step of the abstract specification. `RunEndIsEndOfRun`
(that the drain stops, at the first hole) rests on the well-foundedness of `<` on
the naturals.

**`RegistryProofs`**: all four properties of `registry_files`. Memory, both files
and every snapshot that a handler holds satisfy one condition on tokens and hosts
(`TokenInv`), and a code that can be redeemed has not paid for a pairing since it
was issued (`CodeInv`). Durability needs more than the files: what was answered,
unless a later change withdrew it from memory, is in the file and in every snapshot
about to replace the file, and so is what a handler with a snapshot is about to answer
(`DurableInv`). `OrphanInv` follows a deletion through its stages: the hosts still to
unpair, the write after each, the account's removal. `LimitInv` (the host limit in
memory, file and snapshots) is why a free suffix exists, and so why the id chosen for
a host of a name already taken is new.

**`ControlProofs`**: all four properties of `control_probes`. Queue and link hold
what the hub can send (`QueueInv`, `LinkInv`). `ChainInv` is the heart of
`FramesIntact`: the units on the link form a path of positions (frame, unit, id)
from where the host's reassembler is to where the writer is, and a control frame is
a step of that path that leaves the position alone. `GroupInv` names who will close
a group: its owner before `Clear`, or the loop between `HandleFrame` and
`Succeed`, or nobody because it is closed. `AwaitedInv` follows the awaited probe
from queue to link to answer, and needs group ids to be issued once. `StreakInv` bounds what passed a waiting frame by where the writer is.

**`PagesProofs`**: all four properties of `pages_scope`. `CredentialInv` and
`ScopeInv` say for every pc of a connection, not only for registered pages, that
what it copied is still good, or that the drop that withdraws it has still to kick the
page, has kicked it, or ran before it was registered (`late`). For a guest, "still good"
(`Unchanged`) is that the token is not deleted and keeps the copied whitelist, and
either is active with the copied expiry or the page is `Due`: an update of a
token that has expired drops nothing, and is harmless because every page that copied
that expiry is due by then. `AckInv` follows a user's target through the five steps of the
reader: its owner's when checked, among the hosts read, in the scope, in the filter, acked;
an unpairing between the first two puts the page into `late`. `StreamInv` is
`DisplayedIsStreamed`, for the states that are `Settled`.

**`RelayProofs`**: the properties of `relay_dispatch` and `relay_assembly`, among
them the action property `DoneIsSticky`. `OutcomeInv` relates the pc of each Dispatch to
the table, the answer channel and the done set: a pending request has a session, a
waiting caller, an empty channel; a waiting caller has exactly one thing coming.
`LoggedInv` says that nobody knows a request before it is logged and that the host has answered
none that it has not seen; `TombInv` that the table has one entry per
request, all of settled requests, done ones of answered requests. `WireInv` and `AnswerInv`
are what makes answers whole: all frames of one request agree, because the host
runs it once, and an assembled prefix is the prefix of that one answer.

**`DownLinkProofs`**: `OneAudienceFrame`, `ExpiredWereWritten` and `HostHoldsNewest`.
The first two follow from `DownLinkInv`. Its `ProtoInv`: the log of
an epoch has no hole, the audience frame is at the place `sessionProto` knows, of
the newest generation pushed, and every unacked request is logged. Its `WrittenInv`
relates what the writer has in hand, what left on a transport, and which requests
have their deadline armed.

`HostHoldsNewest` speaks of a state in which nothing is in flight, so its invariant
has to say for every other state where the newest generation is. `NewestInv` is

* `HoldInv`, while the host is on the transport of the registered session (`Conn`)
  and neither exception has happened. `CoverInv`: the newest generation is with
  the host or on its way (`Has`: on the transport, in the writer's batch, in
  hello_ack, under a seq the host has delivered, so that it is applied whatever
  else happens), or in a push that will not be dropped (`Coming`), or logged, or
  to be sent again. `SentInv`: the generation that counts as written, and that of every
  frame a writer of the epoch is about to report, the host has, has parked, or
  will take under that seq, unless the new writer has yet to look at the log
  (`Fresh`). When an ack covers the entry, `ackDown` either finds a newer
  generation than the written one and arms the resend, or `SentInv` says that the host
  has it;
* `ServeInv`: sessions attach in order, a notification is owed as long as the
  viewing set differs from the last snapshot, a loop waits for its own push;
* `GenInv`, `WireInv`: no generation in a log, push, batch, transport or receiver
  is newer than the registered one; a parked seq lies beyond a gap; only the
  transport the host is on carries anything;
* `AckInv`: the hub knows of no more than the host has delivered, and no ack on its
  way claims more;
* `ConnInv`: while connected only the registered loop can acknowledge something new,
  it is between `HandleAck` and `TakeResend` whenever a resend is armed, and
  before its writer has written anything the host has delivered nothing that the log
  still holds.

The proof has one lemma per part (`ServeStep` to `HoldStep`), and under `HoldStep`
three: `KeptStep` (what the host has or will take under the entry's seq stays so in each
step of transport, writer and host), `SentStep` and `CoverStep` (each thing that can
happen to the entry, `EntryMoves`). `SentInv` needs `~doubled`, because a writer that
writes to a dead transport counts its frame as sent, and `KeptStep` needs `~missed`: the
exceptions of the property are where the induction needs them.

**`HostSessionProofs`**: all properties of `host_takeover`, among
them the action property `BufferSurvivesReconnect`. Its `HostSessionInv` is

* `ServeInv`: who serves. Transports are used in order, and the registry names the
  newest session from its attach to its end; an attach in its middle holds the lock,
  and no session of the epoch it publishes exists yet. Without an overlap the
  registered session is the only one of its epoch;
* `LinkInv`: all that the host was told (`hello_ack`, heartbeats, its own `acked`) is
  at most the epoch's watermark; timers are of pauses up to the present one;
* `LoopInv`: what a loop carries ascends, of its epoch, up to the watermark;
* `BufInv`: the buffer is sorted and of one epoch; no event is carried by two loops,
  and none that is carried is in the buffer, so none can be buffered twice;
* `RunInv`: without an overlap, the registered session carries exactly the events
  between those enqueued (`Sent`) and the watermark, and all up to `Reached` are ingested.
  This makes acks honest and the buffer contiguous;
* `ResetInv`: the reset of an epoch was handed over, is in the drain's hand, or is in the
  queue in front of the epoch's events;
* `OrderInv`: what was seen, is held and is queued ascends, up to `Sent`;
* `IdleInv`: before the first attach nothing is mirrored.

None is inductive alone: `BufInv` needs `LoopInv` for where a new event goes,
`RunInv` needs `ServeInv` to know that there is one loop, and `OrderInv` needs `RunInv` for
what comes next. `RunInv` is stated under `Sole` (no two loops of the epoch ever ran
together), which is what the first finding of section 6 violates.

**`SubscriberProofs`**: the three invariants of `subscriber_page`. They do not share a
strengthening, so `SubscriberInv` has a part for each, next to the types (which say that
from its peek to its pop the pump holds the head of the ring):

* `CriticalDropAnnounced` is inductive with the types: a resync with a host's tag is never
  lost between the slot, the pump, the channel, the batch and the frame, other than to a
  resync with another tag or none in the slot (`replaced`), and the goroutine that dropped
  the event is in `noteDrop` until it queues one. Only a host's goroutine drops a critical
  event, and its resync has the host's tag (`HostsOnly`).
* `SilentInv`: the losses since the last resync are at most those in the counter plus
  the goroutines about to count one, unless somebody is about to queue a resync; and a
  counter at the threshold means that somebody is about to reset it. The second part is
  what survives two goroutines that count and a third that resets.
* `FlowInv`: at every stage (frame, batch, channel, ring behind the event the pump has
  moved) the epoch of each event is announced by what is in front of it, or is the one the page
  opened with, or its reset was lost. The epoch a host publishes in is announced in front of the
  next event or is what its goroutine is about to append.

**Only model-checked.**

* Liveness: `EventuallyReleased`, `EventuallyCurrent`, `EventuallyDelivered`,
  `EventuallyDrained`. Their fairness conditions use ENABLED, which the prover does
  not treat.
* `AckedIsIngested` and `NewestReachesHost`, which are violated (section 6).

## 5. Exceptions the models show

The properties hold with the exceptions they name. Each exception is a behaviour
of the code that the model contains; dropping the exception makes TLC print it.

* A full fan-out queue (`hub.go:392`) or a full page ring (`hub.go:3037`, the reset
  is not critical) drops the epoch reset, and the page gets events of an epoch
  nobody announced (`unreset`, `lostReset`). The page then
  sees the new epoch's seqs, which may start lower, right behind the old one's:
  `SeenInOrder` exempts such epochs too.
* One resync slot per page: a resync of a second host, or an untagged one (of an epoch
  reset, `hub.go:3615`, or a hub-level event, `hub.go:3062`), replaces the pending one of
  the first (`hub.go:2888`), whose critical loss is then announced by nothing with its
  tag (`replaced`).
* A writer in its select that finds the rewrite slot filled writes that entry and
  moves its position over requests appended in front of it (`writer.go:205`). They
  wait for an RTO replay; `EventuallyDelivered` shows that they get there.
* A queue full of probes drops the oldest probe (`writer.go:131`, `evicted`); its
  callers time out.
* Dispatch checks for an answer once before it waits; the select in its loop may
  still take the timeout when the answer is there (`hub.go:2142`).
* A child session noted from a spawn changes what a page displays, and nobody is
  notified (`hub.go:1967`, `spawned`) until the next change.
* A page that copied its credential or its hosts before a drop and registers, or
  stores them, after it is not kicked (`main.go:1191`, `late`).
* An update of a token that has expired (revoke it, revive it, give it another expiry)
  drops no page, because it was not active before (`guests.go:328`). A page whose timer has
  not been served yet stays until it is (`Due`).
* A host unpaired between the check of a subscribe frame (`main.go:1437`) and the read of
  the user's hosts (`main.go:1447`) is acked, and the page does not receive it (`late`,
  "target").
* Between the store of a user's hosts and the notification of `SetSubscriberHost` the page
  may watch a host that has not been told (`Settled`).
* An administrator's page keeps the hosts it had when it connected: the refresh
  on a subscribe frame serves role `user` only (`hub.go:3246`). `AckedUserReceives`
  is therefore about users.
* A pairing, or another request's unpairing that is not on disk yet, overlapping
  the deletion of its account leaves a host behind (`raced`); so may a failed
  write, which is only logged (`failed`).
* Two loops of one epoch: section 6.
* The second copy of a parked audience frame (`missed`): section 6.
* Three transports of one host overlap: the newest has its writer at work while the
  handler of the second has not yet stopped the writer of the first
  (`session.go:764`). What that writer reports as written (`noteWritten`) went to a
  dead transport, and counts as delivered (`doubled`). The host may be left with an
  old audience, as in section 6.

## 6. Findings

`host_overlap`: `handleEvents` moves the shared watermark (`proto.accept`)
before `ingestRawEvents` asks whether the session still owns the host. A
same-epoch resume in between makes the old loop drop events that `hello_ack`
already acknowledges; the host drops its copies and the events are lost
(`wire/PROTOCOL-V2.md:17`). `host_takeover` shows that without such an overlap
nothing is lost.

`downlink_overtaken`: the writer's select takes the rewrite slot while a request in
front of the audience frame is not written yet (`writer.go:205`). The host receives
the frame beyond a gap and parks it. The viewing set changes again, the payload is
replaced and the frame is rewritten; to the host's Receiver the second copy is the
repetition of a parked frame (`receiver.go:58`), but `noteWritten` counts its
generation as sent. When the request is replayed, the host applies the first copy
and acknowledges both; `ackDown` finds nothing newer than what was written and
arms no resend. The host keeps an old audience until the viewing set changes
again, although "the newest snapshot is also sent under a fresh seq" when the
previous payload may have been the one applied (`wire/PROTOCOL-V2.md:238`).
`HostHoldsNewest` shows that this and two writers of one epoch are the only ways to get
there.

## 7. Not modelled

* Frame encoding, limits, identities, compression: pure functions on bytes.
* Preferences: a versioned document merged field by field; no other component
  reads it. Its file is written outside the lock that ordered the versions, which
  is listed as a hazard.
* Tickets, rate limiters, token resets, `guests.json`, HTTP routing and rendering,
  the pairing command, logging.
* The byte caps of the ring and of the down log; the unpairing of a host with
  requests pending; status patches of hosts; the filter of single events for
  guests; the roster panel.
* The order of hellos: a host process that is superseded sends none after its
  successor's.
* Sockets, deadlines and TLS: order within a stream, loss with a connection and
  reordering across QUIC streams are assumptions of the models.

## 8. Plan

* An abstract specification of the audience (the host comes to hold a generation that
  never goes back) and of the relay (one outcome for each request), with the
  refinement of each proved as that of `ReliableFifo` is.
* The races of section 7 that no property covers yet: the versions of preferences, the hellos of two
  host processes.
