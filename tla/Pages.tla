------------------------------- MODULE Pages -------------------------------
(***************************************************************************)
(* Browser pages on /ws/fe: who they are, what they may receive, what they *)
(* display, and what the hosts are told about them (internal/hub/hub.go,   *)
(* guests.go, users.go, cmd/capri-hub/main.go).                            *)
(*                                                                         *)
(* A page is identified, takes a snapshot of its scope, is registered and  *)
(* then served by two goroutines: the connection loop, which leaves when   *)
(* the page is kicked, expires or closes, and the reader of its control    *)
(* frames.  Every change of the registered pages is followed by a          *)
(* notifyAudience of its own, with other goroutines in between; every      *)
(* withdrawal of a host or credential is followed by a drop that kicks the *)
(* pages registered by then.  Module DownLink takes an announced audience  *)
(* from here to the host.                                                  *)
(***************************************************************************)
EXTENDS Naturals, FiniteSets, Functions, TLC

CONSTANTS Sockets,        \* connections of pages
          Hosts,          \* host ids
          Users,          \* account ids
          Guests,         \* guest token ids
          Sessions,       \* session ids
          ViewCap,        \* maxViewingSessions
          MaxConnects,    \* bound: connections made
          MaxFrames,      \* bound: control frames sent by pages
          MaxEdits,       \* bound: administrative changes, attaches and detaches
          MaxTime         \* bound: the clock

Root == "root"
None == "none"
Members == Users \cup {Root}

ASSUME PagesAssumption ==
    /\ {Root, None} \cap (Hosts \cup Users \cup Guests \cup Sessions) = {}
    /\ Users \cap Guests = {}
    /\ {ViewCap, MaxConnects, MaxFrames, MaxEdits, MaxTime} \subseteq Nat

VARIABLES
    owner,      \* owner[h]: who paired a host, None when nobody has
    attached,   \* hosts with a session
    users,      \* accounts
    clock,      \* the time
    guests,     \* guests[g]: live, revoked or deleted, when it expires (0: never), and the whitelist
    children,   \* guestChildren: <<host, child session, parent session>>
    page,       \* page[p]: the connection
    subs,       \* registered subscribers
    owed,       \* notifyAudience calls still to come, by goroutine
    drops,      \* kicks still to come: of a host, a guest or a user
    audience,   \* audience[h]: the audience a host was last told
    spawned,    \* history: hosts with a child noted since their last audience
    late,       \* history: connections whose copied credential or scope a drop missed, or
                \* whose subscribe frame was checked before an unpairing and served after
    connects, frames, edits

vars == << owner, attached, users, clock, guests, children, page, subs, owed, drops, audience,
           spawned, late, connects, frames, edits >>

Closed == [pc |-> "off", who |-> Root, role |-> "admin", grant |-> {}, expiry |-> 0, scope |-> {},
           filter |-> None, session |-> None, declared |-> FALSE, kicked |-> FALSE,
           reader |-> "idle", target |-> None, next |-> None, fresh |-> {}, acked |-> None]

NoAudience == [watchers |-> 0, all |-> FALSE, sessions |-> {}]

Init ==
    /\ owner \in [Hosts -> Members] /\ Range(owner) = Members
    /\ attached = Hosts /\ users = Users
    /\ clock = 1
    /\ guests = [g \in Guests |-> [state |-> "live", expiry |-> 0,
                                  grant |-> {CHOOSE h \in Hosts : owner[h] = Root} \X Sessions]]
    /\ children = {}
    /\ page = [p \in Sockets |-> Closed] /\ subs = {}
    /\ owed = {} /\ drops = {}
    /\ audience = [h \in Hosts |-> NoAudience]
    /\ spawned = {} /\ late = {} /\ connects = 0 /\ frames = 0 /\ edits = 0

HostIDsForUser(o) == {h \in Hosts : owner[h] = o}

\* GuestToken.Expired, Active.
Past(expiry) == expiry # 0 /\ expiry <= clock
Active(g) == guests[g].state = "live" /\ ~Past(guests[g].expiry)

\* identity.allowsHost: a guest by its whitelist, the others by live ownership.
AllowsHost(p, h) ==
    IF page[p].role = "guest" THEN \E s \in Sessions : <<h, s>> \in page[p].grant
    ELSE owner[h] = page[p].who

-----------------------------------------------------------------------------
(* What a page receives and what a host is told. *)

\* feSubscriber.watches: whether events of host h reach page p.
Watches(p, h) ==
    /\ IF page[p].role = "guest" THEN \E s \in Sessions : <<h, s>> \in page[p].grant
       ELSE h \in page[p].scope
    /\ page[p].filter \in {None, h}

Watchers(h) == {p \in subs : Watches(p, h)}

\* Mutant: a page that has not declared a session yet counts as showing none.
Undeclared_Silent(h) == FALSE

\* Until its first viewing frame a page could display anything.
Undeclared(h) == \E p \in Watchers(h) : ~page[p].declared

Displayed(h) == {page[p].session : p \in Watchers(h)} \ {None}

\* viewingSetLocked follows one level into the children of what is displayed
\* (its loop may reach a grandchild, by the order of a map: not relied on).
WithChildren(h, shown) == shown \cup {c[2] : c \in {d \in children : d[1] = h /\ d[3] \in shown}}

\* audienceLocked and viewingSetLocked: too many sessions widen the set to all.
Audience(h) ==
    LET shown == WithChildren(h, Displayed(h))
        all   == Watchers(h) # {} /\ (Undeclared(h) \/ Cardinality(shown) > ViewCap)
    IN  [watchers |-> Cardinality(Watchers(h)), all |-> all,
         sessions |-> IF all \/ Watchers(h) = {} THEN {} ELSE shown]

\* notifyAudience: every attached host, under one hold of h.mu.
NotifyAudience(p, who) ==
    /\ <<p, who>> \in owed
    /\ owed' = owed \ {<<p, who>>}
    /\ audience' = [h \in Hosts |-> IF h \in attached THEN Audience(h) ELSE audience[h]]
    /\ spawned' = spawned \ attached
    /\ IF who = "loop" /\ p \notin subs
       THEN page' = [page EXCEPT ![p] = Closed] /\ late' = {x \in late : x[1] # p}
       ELSE UNCHANGED << page, late >>
    /\ UNCHANGED << owner, attached, users, clock, guests, children, subs, drops, connects, frames, edits >>

-----------------------------------------------------------------------------
(* The connection: identify, scope, register, leave. *)

PageKeeps == << owner, attached, users, clock, guests, children, drops, audience, spawned, edits >>

\* feAuth.identify: a token or a one-shot ticket of an account that exists, or
\* of an active guest with something to show; the record is copied.
Identify(p, who) ==
    /\ page[p].pc = "off" /\ connects < MaxConnects /\ connects' = connects + 1
    /\ \/ who \in users \cup {Root}
          /\ page' = [page EXCEPT ![p] = [Closed EXCEPT !.pc = "auth", !.who = who,
                                          !.role = IF who = Root THEN "admin" ELSE "user"]]
       \/ who \in Guests /\ Active(who) /\ guests[who].grant # {}
          /\ page' = [page EXCEPT ![p] = [Closed EXCEPT !.pc = "auth", !.who = who, !.role = "guest",
                                          !.grant = guests[who].grant, !.expiry = guests[who].expiry]]
    /\ UNCHANGED << subs, owed, late, frames, PageKeeps >>

\* The default host, and the snapshot of the hosts the member owns.
TakeScope(p) ==
    /\ page[p].pc = "auth"
    /\ LET mine == {h \in Hosts : AllowsHost(p, h)}
       IN  \E f \in IF mine = {} THEN {None} ELSE mine :
               page' = [page EXCEPT ![p].pc = "scoped", ![p].filter = f,
                            ![p].scope = IF page[p].role = "guest" THEN {} ELSE HostIDsForUser(page[p].who)]
    /\ UNCHANGED << subs, owed, late, connects, frames, PageKeeps >>

\* trySubscribe.  The session of a ?session= page is not kept: it declares
\* nothing, and the first viewing frame replaces it, so no audience shows it.
Register(p) ==
    /\ page[p].pc = "scoped"
    /\ page' = [page EXCEPT ![p].pc = "open"]
    /\ subs' = subs \cup {p} /\ owed' = owed \cup {<<p, "loop">>}
    /\ UNCHANGED << late, connects, frames, PageKeeps >>

\* The hub's other pages have reached maxFESubscribers, or the accept failed.
Refused(p) ==
    /\ page[p].pc = "scoped"
    /\ page' = [page EXCEPT ![p] = Closed] /\ late' = {x \in late : x[1] # p}
    /\ UNCHANGED << subs, owed, connects, frames, PageKeeps >>

\* The timer of a guest's page runs on the expiry that it copied.
Due(p) == page[p].role = "guest" /\ Past(page[p].expiry)

\* unsubscribe deletes the subscriber: what is left is what the reader holds.
Gone(p) == [Closed EXCEPT !.pc = "left", !.who = page[p].who, !.role = page[p].role,
                          !.reader = page[p].reader, !.target = page[p].target,
                          !.next = page[p].next, !.fresh = page[p].fresh]

\* The loop ends: the page closed its socket or was kicked, or the timer of its
\* token fired, which kicks the token's other pages too.
Leave(p, timer) ==
    /\ timer => Due(p)
    /\ page[p].pc = "open" /\ <<p, "loop">> \notin owed
    /\ subs' = subs \ {p}
    /\ owed' = owed \cup {<<p, "loop">>}
    /\ page' = [q \in Sockets |->
                  IF q = p THEN Gone(p)
                  ELSE IF timer /\ q \in subs /\ page[q].who = page[p].who
                  THEN [page[q] EXCEPT !.kicked = TRUE] ELSE page[q]]
    /\ UNCHANGED << late, connects, frames, PageKeeps >>

-----------------------------------------------------------------------------
(* The reader: viewing and subscribe frames of a registered page. *)

ReaderReady(p) == p \in subs /\ page[p].reader = "idle" /\ <<p, "reader">> \notin owed
                  /\ <<p, "loop">> \notin owed

\* {"type":"viewing"}: SetSubscriberViewing, not for guests.
Viewing(p, s) ==
    /\ ReaderReady(p) /\ page[p].role # "guest" /\ frames < MaxFrames /\ frames' = frames + 1
    /\ page' = [page EXCEPT ![p].session = s, ![p].declared = TRUE]
    /\ owed' = owed \cup {<<p, "reader">>}
    /\ UNCHANGED << subs, late, connects, PageKeeps >>

\* {"type":"subscribe"}: a target out of scope is ignored.  A user's hosts are
\* read again, in a later hold of h.mu than the check of its ownership.
SubscribeFrame(p, h, s) ==
    /\ ReaderReady(p) /\ frames < MaxFrames /\ frames' = frames + 1
    /\ page[p].role = "admin" \/ AllowsHost(p, h)
    /\ page[p].role = "guest" /\ s # None => <<h, s>> \in page[p].grant
    /\ page' = [page EXCEPT ![p].reader = IF page[p].role = "user" THEN "read" ELSE "store",
                    ![p].target = h, ![p].next = s, ![p].acked = None]
    /\ late' = late \ {<<p, "target">>}
    /\ UNCHANGED << subs, owed, connects, PageKeeps >>

ReadHosts(p) ==
    /\ page[p].reader = "read"
    /\ page' = [page EXCEPT ![p].reader = "hosts", ![p].fresh = HostIDsForUser(page[p].who)]
    /\ UNCHANGED << subs, owed, late, connects, frames, PageKeeps >>

\* Mutant: the hosts a user may receive stay those of its connection.
Refreshed_Never(p) == page[p].scope

Refreshed(p) == page[p].fresh

\* SetSubscriberUserHosts: nothing is stored for a page that has left.
StoreHosts(p) ==
    /\ page[p].reader = "hosts"
    /\ page' = [page EXCEPT ![p].reader = "store", ![p].fresh = {},
                            ![p].scope = IF p \in subs THEN Refreshed(p) ELSE @]
    /\ UNCHANGED << subs, owed, late, connects, frames, PageKeeps >>

\* SetSubscriberHost, with its notification.
StoreTarget(p) ==
    /\ page[p].reader = "store"
    /\ IF p \in subs
       THEN /\ page' = [page EXCEPT ![p].filter = page[p].target, ![p].reader = "session"]
            /\ owed' = owed \cup {<<p, "reader">>}
       ELSE page' = [page EXCEPT ![p].reader = "idle"] /\ UNCHANGED owed
    /\ UNCHANGED << subs, late, connects, frames, PageKeeps >>

\* SetSubscriberSession, its notification, and the ack.
StoreSession(p) ==
    /\ page[p].reader = "session" /\ <<p, "reader">> \notin owed
    /\ IF p \in subs
       THEN /\ page' = [page EXCEPT ![p].session = page[p].next, ![p].reader = "idle",
                                    ![p].acked = page[p].target, ![p].target = None, ![p].next = None]
            /\ owed' = owed \cup {<<p, "reader">>}
       ELSE page' = [page EXCEPT ![p].reader = "idle"] /\ UNCHANGED owed
    /\ UNCHANGED << subs, late, connects, frames, PageKeeps >>

-----------------------------------------------------------------------------
(* Hosts, accounts and guest tokens change underneath. *)

Edit == edits < MaxEdits /\ edits' = edits + 1
EditKeeps == << clock, page, subs, owed, late, connects, frames >>

\* attach: hello_ack carries the current audience.
Attach(h) ==
    /\ Edit /\ owner[h] # None /\ h \notin attached
    /\ attached' = attached \cup {h}
    /\ audience' = [audience EXCEPT ![h] = Audience(h)] /\ spawned' = spawned \ {h}
    /\ UNCHANGED << owner, users, guests, children, drops, EditKeeps >>

Detach(h) ==
    /\ Edit /\ h \in attached /\ attached' = attached \ {h}
    /\ UNCHANGED << owner, users, guests, children, drops, audience, spawned, EditKeeps >>

\* noteGuestChild, from an ingested spawn or a history page: nobody is notified.
NoteGuestChild(h, c, s) ==
    /\ Edit /\ h \in attached /\ c # s
    /\ \A d \in children : d[1] # h \/ d[2] # c
    /\ children' = children \cup {<<h, c, s>>} /\ spawned' = spawned \cup {h}
    /\ UNCHANGED << owner, attached, users, guests, drops, audience, EditKeeps >>

\* PairAs of a free host id.
Pair(h, o) ==
    /\ Edit /\ owner[h] = None /\ o \in users \cup {Root}
    /\ owner' = [owner EXCEPT ![h] = o] /\ audience' = [audience EXCEPT ![h] = NoAudience]
    /\ UNCHANGED << attached, users, guests, children, drops, spawned, EditKeeps >>

\* What a frame was checked against is withdrawn before the hosts are read.
Overtaken(h) == {p \in Sockets : page[p].reader = "read" /\ page[p].target = h}

\* Unpair: the host goes under h.mu, its pages are kicked afterwards.
Unpair(h) ==
    /\ Edit /\ owner[h] # None
    /\ owner' = [owner EXCEPT ![h] = None] /\ attached' = attached \ {h}
    /\ drops' = drops \cup {<<"host", h>>}
    /\ late' = late \cup (Overtaken(h) \X {"target"})
    /\ UNCHANGED << users, clock, guests, children, audience, spawned, page, subs, owed, connects, frames >>

\* DeleteUser; that its hosts are unpaired first is up to the caller.
DeleteUser(u) ==
    /\ Edit /\ u \in users
    /\ users' = users \ {u} /\ drops' = drops \cup {<<"user", u>>}
    /\ UNCHANGED << owner, attached, guests, children, audience, spawned, EditKeeps >>

\* RemoveGuestSessions.
RemoveGuestSessions(g, h, s) ==
    /\ Edit /\ guests[g].state # "deleted" /\ <<h, s>> \in guests[g].grant
    /\ guests' = [guests EXCEPT ![g].grant = @ \ {<<h, s>>}]
    /\ drops' = drops \cup {<<"guest", g>>}
    /\ UNCHANGED << owner, attached, users, children, audience, spawned, EditKeeps >>

\* AddGuestSessions: live pages keep their whitelist.
AddGuestSessions(g, h, s) ==
    /\ Edit /\ guests[g].state # "deleted" /\ <<h, s>> \notin guests[g].grant
    /\ guests' = [guests EXCEPT ![g].grant = @ \cup {<<h, s>>}]
    /\ UNCHANGED << owner, attached, users, children, drops, audience, spawned, EditKeeps >>

\* Mutant: a new expiry closes the token's pages only when it has passed.
Withdraws_NotMoved(g, expiry, state) == state = "revoked" \/ Past(expiry)

\* A revocation or any new expiry invalidates what the live pages copied.
Withdraws(g, expiry, state) == state = "revoked" \/ Past(expiry) \/ expiry # guests[g].expiry

\* UpdateGuestToken: what was not active before the update drops no page, though
\* the timers of its pages may not have fired yet.
UpdateGuestToken(g, expiry, state) ==
    /\ Edit /\ guests[g].state # "deleted"
    /\ state # guests[g].state \/ expiry # guests[g].expiry
    /\ guests' = [guests EXCEPT ![g].state = state, ![g].expiry = expiry]
    /\ drops' = IF Active(g) /\ Withdraws(g, expiry, state) THEN drops \cup {<<"guest", g>>} ELSE drops
    /\ UNCHANGED << owner, attached, users, children, audience, spawned, EditKeeps >>

DeleteGuestToken(g) ==
    /\ Edit /\ guests[g].state # "deleted"
    /\ guests' = [guests EXCEPT ![g].state = "deleted"] /\ drops' = drops \cup {<<"guest", g>>}
    /\ UNCHANGED << owner, attached, users, children, audience, spawned, EditKeeps >>

\* Time passes, while anything is still to expire: only the timers of the pages
\* react.
Tick ==
    /\ \E g \in Guests : guests[g].expiry > clock
    /\ clock < MaxTime /\ clock' = clock + 1
    /\ UNCHANGED << owner, attached, users, guests, children, drops, audience, spawned,
                    page, subs, owed, late, connects, frames, edits >>

\* Mutant: a page is dropped with a host only when it shows that host.
Stale_Filter(p, h) == page[p].filter = h

\* dropSubscribersForHost: by filter, whitelist or ownership snapshot.
Stale(p, h) == \/ page[p].filter = h \/ h \in page[p].scope
               \/ \E s \in Sessions : <<h, s>> \in page[p].grant

Hit(p, d) ==
    CASE d[1] = "host"  -> Stale(p, d[2])
      [] d[1] = "guest" -> page[p].role = "guest" /\ page[p].who = d[2]
      [] d[1] = "user"  -> page[p].role = "user" /\ page[p].who = d[2]

\* What was copied before a drop and is stored after it escapes the drop.
MissedScope(p, d) ==
    /\ d[1] = "host"
    /\ \/ page[p].pc = "scoped" /\ d[2] \in page[p].scope
       \/ page[p].reader = "hosts" /\ d[2] \in page[p].fresh
MissedCredential(p, d) == d[1] # "host" /\ page[p].pc \in {"auth", "scoped"} /\ page[p].who = d[2]

\* DropGuestSubscribers, DropUserSubscribers, dropSubscribersForHost: the pages
\* registered now.
Drop(d) ==
    /\ d \in drops /\ drops' = drops \ {d}
    /\ page' = [p \in Sockets |-> IF p \in subs /\ Hit(p, d) THEN [page[p] EXCEPT !.kicked = TRUE] ELSE page[p]]
    /\ late' = late \cup ({p \in Sockets : MissedScope(p, d)} \X {"scope"})
                   \cup ({p \in Sockets : MissedCredential(p, d)} \X {"credential"})
    /\ UNCHANGED << owner, attached, users, clock, guests, children, subs, owed, audience, spawned,
                    connects, frames, edits >>

-----------------------------------------------------------------------------

ConnectionStep(p) ==
    \/ \E who \in Members \cup Guests : Identify(p, who)
    \/ TakeScope(p) \/ Register(p) \/ Refused(p) \/ \E timer \in BOOLEAN : Leave(p, timer)
    \/ \E who \in {"loop", "reader"} : NotifyAudience(p, who)

ReaderStep(p) ==
    \/ \E s \in Sessions \cup {None} : Viewing(p, s)
    \/ \E h \in Hosts, s \in Sessions \cup {None} : SubscribeFrame(p, h, s)
    \/ ReadHosts(p) \/ StoreHosts(p) \/ StoreTarget(p) \/ StoreSession(p)

AdminStep ==
    \/ \E h \in Hosts : Attach(h) \/ Detach(h) \/ Unpair(h)
    \/ \E h \in Hosts, o \in Members : Pair(h, o)
    \/ \E h \in Hosts, c, s \in Sessions : NoteGuestChild(h, c, s)
    \/ \E u \in Users : DeleteUser(u)
    \/ \E g \in Guests, e \in {0, MaxTime}, t \in {"live", "revoked"} : UpdateGuestToken(g, e, t)
    \/ \E g \in Guests : DeleteGuestToken(g)
    \/ \E g \in Guests, h \in Hosts, s \in Sessions : RemoveGuestSessions(g, h, s) \/ AddGuestSessions(g, h, s)
    \/ Tick \/ \E d \in drops : Drop(d)

Next == AdminStep \/ \E p \in Sockets : ConnectionStep(p) \/ ReaderStep(p)

Spec == Init /\ [][Next]_vars

-----------------------------------------------------------------------------
(* Properties. *)

\* No notification is due, neither one owed nor that of SetSubscriberHost, which
\* follows a user's hosts once they are stored.
Settled == owed = {} /\ \A p \in subs : page[p].role = "user" => page[p].reader # "store"

\* What a page displays is what the host uploads: once every change has been
\* followed by its notification, an attached host knows whether anybody watches
\* it, filters nothing while a watching page has not declared its view, and
\* otherwise keeps every displayed session and its known children.  A child
\* noted since the last notification is the exception: noteGuestChild notifies
\* nobody (notifyAudience after trySubscribe, unsubscribe, SetSubscriberHost
\* and setSubscriberSession; attach).
DisplayedIsStreamed ==
    Settled =>
        \A h \in attached :
            /\ (audience[h].watchers = 0) = (Watchers(h) = {})
            /\ \A p \in Watchers(h) :
                   \/ audience[h].all
                   \/ /\ page[p].declared
                      /\ {page[p].session} \ {None} \subseteq audience[h].sessions
                      /\ h \in spawned \/ WithChildren(h, {page[p].session}) \ {None} \subseteq audience[h].sessions

\* Withdrawing a credential closes the pages that hold it: a registered page of
\* a deleted account, of a guest token that is deleted, revoked, expired or has
\* got another expiry, or of a whitelist that has shrunk is kicked, or about to
\* be, or its own timer is due, unless it had copied its credential before the
\* drop and registered after it (UpdateGuestToken, DeleteGuestToken,
\* RemoveGuestSessions, DropGuestSubscribers, DeleteUser, DropUserSubscribers).
WithdrawnPagesKicked ==
    \A p \in subs :
        \/ page[p].kicked \/ <<p, "credential">> \in late
        \/ page[p].role = "admin"
        \/ page[p].role = "user" /\ (page[p].who \in users \/ <<"user", page[p].who>> \in drops)
        \/ page[p].role = "guest" /\ \/ <<"guest", page[p].who>> \in drops
                                     \/ /\ guests[page[p].who].state # "deleted"
                                        /\ page[p].grant \subseteq guests[page[p].who].grant
                                        /\ \/ Due(p)
                                           \/ Active(page[p].who) /\ page[p].expiry = guests[page[p].who].expiry

\* "A later owner can reuse the same hostId": no page that stays keeps a host
\* in its scope that is not its owner's any more, unless its snapshot of the
\* registry was older than the drop (Unpair, dropSubscribersForHost).
ScopeFollowsOwnership ==
    \A p \in subs : \A h \in page[p].scope :
        \/ owner[h] = page[p].who \/ <<"host", h>> \in drops
        \/ page[p].kicked \/ <<p, "scope">> \in late

\* The subscribe frame "lets a user pair its first host without reloading the
\* page": a user whose frame was acked receives the host it asked for, unless
\* the host was unpaired between the check of the frame and the read of the
\* user's hosts (handleFeWS, SetSubscriberUserHosts before SetSubscriberHost).
AckedUserReceives ==
    \A p \in subs : page[p].role = "user" /\ page[p].acked # None =>
        Watches(p, page[p].acked) \/ <<p, "target">> \in late
=============================================================================
