---------------------------- MODULE PagesProofs -----------------------------
(***************************************************************************)
(* Proofs about Pages, for any number of connections, hosts, accounts,     *)
(* guest tokens and changes of them: a withdrawn credential closes the     *)
(* pages that hold it, a page's scope follows the ownership of hosts, an   *)
(* acked subscription is served, and what is displayed is streamed.        *)
(***************************************************************************)
EXTENDS Pages, TLAPS, FiniteSetTheorems

-----------------------------------------------------------------------------
(* The inductive invariant, in parts. *)

Fields == {"pc", "who", "role", "grant", "expiry", "scope", "filter", "session", "declared", "kicked",
           "reader", "target", "next", "fresh", "acked"}

\* Shapes; a page is registered while it is open, and reads nothing before.
PageInv ==
    /\ DOMAIN page = Sockets /\ \A p \in Sockets : DOMAIN page[p] = Fields
    /\ subs = {p \in Sockets : page[p].pc = "open"} /\ IsFiniteSet(subs)
    /\ users \subseteq Users
    /\ \A p \in Sockets :
          /\ page[p].role \in {"admin", "user", "guest"} /\ page[p].expiry \in Nat
          /\ page[p].role = "admin" => page[p].who = Root
          /\ page[p].role = "user" => page[p].who \in Users
          /\ page[p].role = "guest" => page[p].who \in Guests
          /\ page[p].pc \in {"off", "auth", "scoped"} => page[p].reader = "idle" /\ page[p].acked = None

\* Who owns what; an attached host is somebody's.
HostInv ==
    /\ owner \in [Hosts -> Members \cup {None}]
    /\ \A h \in attached : h \in Hosts /\ owner[h] # None
    /\ \A d \in children : d[1] \in Hosts /\ d[2] \in Sessions /\ d[3] \in Sessions
    /\ DOMAIN guests = Guests
    /\ \A g \in Guests : DOMAIN guests[g] = {"state", "expiry", "grant"} /\ guests[g].expiry \in Nat
    /\ clock \in Nat
    /\ DOMAIN audience = Hosts

-----------------------------------------------------------------------------
(* Credentials. *)

\* The token of a guest's page is as it was copied, or the page's timer is due.
Unchanged(p) ==
    LET g == page[p].who
    IN  /\ guests[g].state # "deleted" /\ page[p].grant \subseteq guests[g].grant
        /\ Due(p) \/ (Active(g) /\ page[p].expiry = guests[g].expiry)

\* The credential that page p copied is still good, its withdrawal is about to
\* kick the page or has, or passed before the page was registered.
Good(p) ==
    \/ page[p].kicked \/ <<p, "credential">> \in late
    \/ page[p].role = "admin"
    \/ page[p].role = "user" /\ (page[p].who \in users \/ <<"user", page[p].who>> \in drops)
    \/ page[p].role = "guest" /\ (<<"guest", page[p].who>> \in drops \/ Unchanged(p))

\* ... and that from the moment it is copied.
CredentialInv == \A p \in Sockets : page[p].pc \in {"auth", "scoped", "open"} => Good(p)

-----------------------------------------------------------------------------
(* Scopes. *)

\* Host h, which page p has copied, is its owner's, or the drop that follows its
\* unpairing is due, has kicked the page or has missed it.
Ours(p, h) ==
    \/ owner[h] = page[p].who \/ <<"host", h>> \in drops
    \/ page[p].kicked \/ <<p, "scope">> \in late

\* ... for the hosts in a page's scope, and for those that the reader of a
\* registered page has read and not stored yet.
ScopeInv ==
    \A p \in Sockets :
        /\ page[p].scope \subseteq Hosts /\ page[p].fresh \subseteq Hosts
        /\ page[p].pc \in {"scoped", "open"} => \A h \in page[p].scope : Ours(p, h)
        /\ page[p].pc = "open" /\ page[p].reader = "hosts" => \A h \in page[p].fresh : Ours(p, h)

-----------------------------------------------------------------------------
(* Subscriptions. *)

\* Target h of page p is its owner's, or was unpaired between the check and the
\* read.
Checked(p, h) == owner[h] = page[p].who \/ <<p, "target">> \in late

\* Target h of page p is among the hosts hs, or was unpaired before they were read.
Served(p, h, hs) == h \in hs \/ <<p, "target">> \in late

\* The host that a user's reader has checked is its owner's when it is read, among
\* the hosts that were read, then in the scope, and so is the acked one.
AckOK(p) ==
    /\ page[p].role # "user" => page[p].reader \in {"idle", "store", "session"}
    /\ page[p].role = "user" =>
          /\ page[p].reader \in {"idle", "read", "hosts", "store", "session"}
          /\ page[p].reader # "idle" => page[p].acked = None
          /\ page[p].reader = "read" => page[p].target \in Hosts /\ Checked(p, page[p].target)
          /\ page[p].reader = "hosts" => Served(p, page[p].target, page[p].fresh)
          /\ page[p].reader = "store" /\ p \in subs => Served(p, page[p].target, page[p].scope)
          /\ page[p].reader = "session" /\ p \in subs =>
                Served(p, page[p].target, page[p].scope) /\ page[p].filter = page[p].target
          /\ page[p].acked # None /\ p \in subs =>
                Served(p, page[p].acked, page[p].scope) /\ page[p].filter = page[p].acked

AckInv == \A p \in Sockets : AckOK(p)

-----------------------------------------------------------------------------
(* Audiences. *)

\* What host h was told covers what its pages display.
Told(h) ==
    /\ (audience[h].watchers = 0) <=> (Watchers(h) = {})
    /\ \A p \in Watchers(h) :
           \/ audience[h].all
           \/ /\ page[p].declared
              /\ {page[p].session} \ {None} \subseteq audience[h].sessions
              /\ h \in spawned \/ WithChildren(h, {page[p].session}) \ {None} \subseteq audience[h].sessions

\* ... once no notification is due.
StreamInv == Settled => \A h \in attached : Told(h)

\* A step that leaves what page p receives and displays.
SameView(p) ==
    /\ page'[p].role = page[p].role /\ page'[p].grant = page[p].grant /\ page'[p].scope = page[p].scope
    /\ page'[p].filter = page[p].filter /\ page'[p].session = page[p].session
    /\ page'[p].declared = page[p].declared
    /\ page[p].role = "user" /\ page[p].reader = "store" => page'[p].reader = "store"

\* A step that leaves what page p has asked for and may receive.
SameReader(p) ==
    /\ page'[p].role = page[p].role /\ page'[p].who = page[p].who
    /\ page'[p].reader = page[p].reader /\ page'[p].target = page[p].target
    /\ page'[p].fresh = page[p].fresh /\ page'[p].acked = page[p].acked
    /\ page'[p].scope = page[p].scope /\ page'[p].filter = page[p].filter

-----------------------------------------------------------------------------
PagesInv == PageInv /\ HostInv /\ CredentialInv /\ ScopeInv /\ AckInv /\ StreamInv

-----------------------------------------------------------------------------
\* What identification copies into a page.
LEMMA Identified ==
  ASSUME PageInv, HostInv, NEW p \in Sockets, NEW who \in Members \cup Guests, Identify(p, who)
  PROVE  LET x == page'[p]
         IN  /\ x.pc = "auth" /\ x.who = who /\ x.reader = "idle" /\ x.acked = None /\ DOMAIN x = Fields
             /\ x.scope = {} /\ x.fresh = {}
             /\ \/ who = Root /\ x.role = "admin"
                \/ who \in users /\ x.role = "user"
                \/ /\ who \in Guests /\ x.role = "guest" /\ Active(who)
                   /\ x.grant = guests[who].grant /\ x.expiry = guests[who].expiry
             /\ x.expiry \in Nat
<1> DEFINE x == page'[p]
<1>1. CASE who \in users \cup {Root} /\ page' = [page EXCEPT ![p] = [Closed EXCEPT !.pc = "auth", !.who = who,
                                                       !.role = IF who = Root THEN "admin" ELSE "user"]]
  <2>1. x = [Closed EXCEPT !.pc = "auth", !.who = who, !.role = IF who = Root THEN "admin" ELSE "user"]
    BY <1>1 DEF PageInv
  <2> HIDE DEF x
  <2>2. /\ x.pc = "auth" /\ x.who = who /\ x.reader = "idle" /\ x.acked = None /\ DOMAIN x = Fields
        /\ x.scope = {} /\ x.fresh = {} /\ x.expiry = 0
        /\ x.role = IF who = Root THEN "admin" ELSE "user"
    BY <2>1 DEF Closed, Fields
  <2> QED BY <1>1, <2>2 DEF x
<1>2. CASE /\ who \in Guests /\ Active(who)
           /\ page' = [page EXCEPT ![p] = [Closed EXCEPT !.pc = "auth", !.who = who, !.role = "guest",
                                      !.grant = guests[who].grant, !.expiry = guests[who].expiry]]
  <2>1. x = [Closed EXCEPT !.pc = "auth", !.who = who, !.role = "guest",
                           !.grant = guests[who].grant, !.expiry = guests[who].expiry]
    BY <1>2 DEF PageInv
  <2> HIDE DEF x
  <2>2. /\ x.pc = "auth" /\ x.who = who /\ x.reader = "idle" /\ x.acked = None /\ DOMAIN x = Fields
        /\ x.scope = {} /\ x.fresh = {}
        /\ x.role = "guest" /\ x.grant = guests[who].grant /\ x.expiry = guests[who].expiry
    BY <2>1 DEF Closed, Fields
  <2>3. guests[who].expiry \in Nat
    BY <1>2 DEF HostInv
  <2> QED BY <1>2, <2>2, <2>3 DEF x
<1> QED BY <1>1, <1>2 DEF Identify

\* What a page keeps when it leaves, and what its timer does to the others.
LEMMA LeaveIs ==
  ASSUME PageInv, NEW p \in Sockets, NEW timer \in BOOLEAN, Leave(p, timer)
  PROVE  /\ DOMAIN page' = Sockets
         /\ LET x == page'[p]
            IN  /\ DOMAIN x = Fields /\ x.pc = "left" /\ x.role = page[p].role /\ x.who = page[p].who
                /\ x.reader = page[p].reader /\ x.target = page[p].target /\ x.fresh = page[p].fresh
                /\ x.scope = {} /\ x.expiry = 0 /\ x.acked = None
         /\ \A q \in Sockets : q # p =>
               /\ SameReader(q) /\ DOMAIN page'[q] = Fields /\ page'[q].pc = page[q].pc
               /\ page'[q].grant = page[q].grant /\ page'[q].expiry = page[q].expiry
               /\ page[q].kicked => page'[q].kicked
<1>1. DOMAIN page' = Sockets /\ page'[p] = Gone(p)
  BY DEF Leave
<1>2. LET x == Gone(p)
      IN  /\ DOMAIN x = Fields /\ x.pc = "left" /\ x.role = page[p].role /\ x.who = page[p].who
          /\ x.reader = page[p].reader /\ x.target = page[p].target /\ x.fresh = page[p].fresh
          /\ x.scope = {} /\ x.expiry = 0 /\ x.acked = None
  BY DEF Gone, Closed, Fields
<1>3. ASSUME NEW q \in Sockets, q # p
      PROVE  /\ SameReader(q) /\ DOMAIN page'[q] = Fields /\ page'[q].pc = page[q].pc
             /\ page'[q].grant = page[q].grant /\ page'[q].expiry = page[q].expiry
             /\ page[q].kicked => page'[q].kicked
  <2>1. page'[q] = page[q] \/ page'[q] = [page[q] EXCEPT !.kicked = TRUE]
    BY <1>3 DEF Leave
  <2>2. CASE page'[q] = page[q]
    BY <2>2 DEF SameReader, PageInv
  <2>3. CASE page'[q] = [page[q] EXCEPT !.kicked = TRUE]
    BY <2>3 DEF SameReader, PageInv, Fields
  <2> QED BY <2>1, <2>2, <2>3
<1> QED BY <1>1, <1>2, <1>3

\* Every step keeps the shape of the pages.
LEMMA PageStep ==
  ASSUME PageInv, HostInv, [Next]_vars
  PROVE  PageInv'
<1>1. ASSUME NEW p \in Sockets, NEW who \in Members \cup Guests, Identify(p, who) PROVE PageInv'
  <2> DEFINE x == page'[p]
  <2>1. /\ x.pc = "auth" /\ x.who = who /\ x.reader = "idle" /\ x.acked = None /\ DOMAIN x = Fields
        /\ x.expiry \in Nat
        /\ \/ who = Root /\ x.role = "admin"
           \/ who \in users /\ x.role = "user"
           \/ who \in Guests /\ x.role = "guest"
    BY <1>1, Identified
  <2>2. \A q \in Sockets : q # p => page'[q] = page[q]
    BY <1>1 DEF Identify, PageInv
  <2>3. UNCHANGED << subs, users >> /\ DOMAIN page' = Sockets /\ page[p].pc = "off"
    BY <1>1 DEF Identify, PageKeeps, PageInv
  <2>4. subs' = {q \in Sockets : page'[q].pc = "open"}
    BY <2>1, <2>2, <2>3 DEF PageInv
  <2> QED BY <2>1, <2>2, <2>3, <2>4 DEF PageInv
<1>2. ASSUME NEW p \in Sockets, TakeScope(p) PROVE PageInv'
  <2>1. PICK f : page' = [page EXCEPT ![p].pc = "scoped", ![p].filter = f,
                            ![p].scope = IF page[p].role = "guest" THEN {} ELSE HostIDsForUser(page[p].who)]
    BY <1>2 DEF TakeScope
  <2> QED BY <1>2, <2>1 DEF TakeScope, PageKeeps, PageInv, Fields
<1>3. ASSUME NEW p \in Sockets, Register(p) PROVE PageInv'
  <2>1. IsFiniteSet(subs')
    BY <1>3, FS_AddElement DEF Register, PageInv
  <2> QED BY <1>3, <2>1 DEF Register, PageKeeps, PageInv, Fields
<1>4. ASSUME NEW p \in Sockets, Refused(p) PROVE PageInv'
  BY <1>4 DEF Refused, PageKeeps, PageInv, Closed, Fields
<1>5. ASSUME NEW p \in Sockets, NEW timer \in BOOLEAN, Leave(p, timer) PROVE PageInv'
  <2>1. IsFiniteSet(subs')
    BY <1>5, FS_RemoveElement DEF Leave, PageInv
  <2>2. UNCHANGED users /\ subs' = subs \ {p}
    BY <1>5 DEF Leave, PageKeeps
  <2> QED BY <1>5, <2>1, <2>2, LeaveIs DEF PageInv, SameReader
<1>6. ASSUME NEW p \in Sockets, NEW who \in {"loop", "reader"}, NotifyAudience(p, who) PROVE PageInv'
  BY <1>6 DEF NotifyAudience, PageInv, Closed, Fields
<1>7. ASSUME NEW p \in Sockets, NEW s \in Sessions \cup {None}, Viewing(p, s) PROVE PageInv'
  BY <1>7 DEF Viewing, ReaderReady, PageKeeps, PageInv, Closed, Fields
<1>8. ASSUME NEW p \in Sockets, NEW h \in Hosts, NEW s \in Sessions \cup {None}, SubscribeFrame(p, h, s) PROVE PageInv'
  BY <1>8 DEF SubscribeFrame, ReaderReady, PageKeeps, PageInv, Closed, Fields
<1>9. ASSUME NEW p \in Sockets, StoreTarget(p) PROVE PageInv'
  BY <1>9 DEF StoreTarget, PageKeeps, PageInv, Closed, Fields
<1>10. ASSUME NEW p \in Sockets, StoreSession(p) PROVE PageInv'
  BY <1>10 DEF StoreSession, PageKeeps, PageInv, Closed, Fields
<1>11. ASSUME NEW h \in Hosts, Attach(h) PROVE PageInv'
  BY <1>11 DEF Attach, Edit, EditKeeps, PageInv
<1>12. ASSUME NEW h \in Hosts, Detach(h) PROVE PageInv'
  BY <1>12 DEF Detach, Edit, EditKeeps, PageInv
<1>13. ASSUME NEW h \in Hosts, Unpair(h) PROVE PageInv'
  BY <1>13 DEF Unpair, Edit, EditKeeps, PageInv
<1>14. ASSUME NEW h \in Hosts, NEW o \in Members, Pair(h, o) PROVE PageInv'
  BY <1>14 DEF Pair, Edit, EditKeeps, PageInv
<1>15. ASSUME NEW h \in Hosts, NEW c \in Sessions, NEW s \in Sessions, NoteGuestChild(h, c, s) PROVE PageInv'
  BY <1>15 DEF NoteGuestChild, Edit, EditKeeps, PageInv
<1>16. ASSUME NEW u \in Users, DeleteUser(u) PROVE PageInv'
  BY <1>16 DEF DeleteUser, Edit, EditKeeps, PageInv
<1>17. ASSUME NEW g \in Guests, NEW e \in {0, MaxTime}, NEW t \in {"live", "revoked"},
             UpdateGuestToken(g, e, t) PROVE PageInv'
  BY <1>17 DEF UpdateGuestToken, Edit, EditKeeps, PageInv
<1>18. ASSUME NEW g \in Guests, DeleteGuestToken(g) PROVE PageInv'
  BY <1>18 DEF DeleteGuestToken, Edit, EditKeeps, PageInv
<1>19. ASSUME NEW g \in Guests, NEW h \in Hosts, NEW s \in Sessions, RemoveGuestSessions(g, h, s) PROVE PageInv'
  BY <1>19 DEF RemoveGuestSessions, Edit, EditKeeps, PageInv
<1>20. ASSUME NEW g \in Guests, NEW h \in Hosts, NEW s \in Sessions, AddGuestSessions(g, h, s) PROVE PageInv'
  BY <1>20 DEF AddGuestSessions, Edit, EditKeeps, PageInv
<1>21. ASSUME NEW d \in drops, Drop(d) PROVE PageInv'
  BY <1>21 DEF Drop, PageInv, Closed, Fields
<1>23. ASSUME Tick PROVE PageInv'
  BY <1>23 DEF Tick, PageInv
<1>24. ASSUME NEW p \in Sockets, ReadHosts(p) PROVE PageInv'
  BY <1>24 DEF ReadHosts, PageKeeps, PageInv, Fields
<1>25. ASSUME NEW p \in Sockets, StoreHosts(p) PROVE PageInv'
  BY <1>25 DEF StoreHosts, Refreshed, PageKeeps, PageInv, Fields
<1>22. CASE UNCHANGED vars
  BY <1>22 DEF vars, PageInv
<1> QED
  BY <1>1, <1>2, <1>3, <1>4, <1>5, <1>6, <1>7, <1>8, <1>9, <1>10, <1>11, <1>12, <1>13,
     <1>14, <1>15, <1>16, <1>17, <1>18, <1>19, <1>20, <1>21, <1>22, <1>23, <1>24, <1>25 DEF Next,
     AdminStep, ConnectionStep, ReaderStep

\* Every step keeps who owns what.
LEMMA HostStep ==
  ASSUME HostInv, [Next]_vars
  PROVE  HostInv'
<1>1. ASSUME NEW p \in Sockets, NEW who \in Members \cup Guests, Identify(p, who) PROVE HostInv'
  BY <1>1 DEF Identify, PageKeeps, HostInv
<1>2. ASSUME NEW p \in Sockets, TakeScope(p) PROVE HostInv'
  BY <1>2 DEF TakeScope, PageKeeps, HostInv
<1>3. ASSUME NEW p \in Sockets, Register(p) PROVE HostInv'
  BY <1>3 DEF Register, PageKeeps, HostInv
<1>4. ASSUME NEW p \in Sockets, Refused(p) PROVE HostInv'
  BY <1>4 DEF Refused, PageKeeps, HostInv
<1>5. ASSUME NEW p \in Sockets, NEW timer \in BOOLEAN, Leave(p, timer) PROVE HostInv'
  BY <1>5 DEF Leave, PageKeeps, HostInv
<1>6. ASSUME NEW p \in Sockets, NEW who \in {"loop", "reader"}, NotifyAudience(p, who) PROVE HostInv'
  BY <1>6 DEF NotifyAudience, HostInv
<1>7. ASSUME NEW p \in Sockets, NEW s \in Sessions \cup {None}, Viewing(p, s) PROVE HostInv'
  BY <1>7 DEF Viewing, ReaderReady, PageKeeps, HostInv
<1>8. ASSUME NEW p \in Sockets, NEW h \in Hosts, NEW s \in Sessions \cup {None}, SubscribeFrame(p, h, s) PROVE HostInv'
  BY <1>8 DEF SubscribeFrame, ReaderReady, PageKeeps, HostInv
<1>9. ASSUME NEW p \in Sockets, StoreTarget(p) PROVE HostInv'
  BY <1>9 DEF StoreTarget, PageKeeps, HostInv
<1>10. ASSUME NEW p \in Sockets, StoreSession(p) PROVE HostInv'
  BY <1>10 DEF StoreSession, PageKeeps, HostInv
<1>11. ASSUME NEW h \in Hosts, Attach(h) PROVE HostInv'
  BY <1>11 DEF Attach, Edit, EditKeeps, HostInv
<1>12. ASSUME NEW h \in Hosts, Detach(h) PROVE HostInv'
  BY <1>12 DEF Detach, Edit, EditKeeps, HostInv
<1>13. ASSUME NEW h \in Hosts, Unpair(h) PROVE HostInv'
  BY <1>13 DEF Unpair, Edit, EditKeeps, HostInv
<1>14. ASSUME NEW h \in Hosts, NEW o \in Members, Pair(h, o) PROVE HostInv'
  BY <1>14 DEF Pair, Edit, EditKeeps, HostInv
<1>15. ASSUME NEW h \in Hosts, NEW c \in Sessions, NEW s \in Sessions, NoteGuestChild(h, c, s) PROVE HostInv'
  BY <1>15 DEF NoteGuestChild, Edit, EditKeeps, HostInv
<1>16. ASSUME NEW u \in Users, DeleteUser(u) PROVE HostInv'
  BY <1>16 DEF DeleteUser, Edit, EditKeeps, HostInv
<1>17. ASSUME NEW g \in Guests, NEW e \in {0, MaxTime}, NEW t \in {"live", "revoked"},
             UpdateGuestToken(g, e, t) PROVE HostInv'
  BY <1>17 DEF UpdateGuestToken, Edit, EditKeeps, HostInv
<1>18. ASSUME NEW g \in Guests, DeleteGuestToken(g) PROVE HostInv'
  BY <1>18 DEF DeleteGuestToken, Edit, EditKeeps, HostInv
<1>19. ASSUME NEW g \in Guests, NEW h \in Hosts, NEW s \in Sessions, RemoveGuestSessions(g, h, s) PROVE HostInv'
  BY <1>19 DEF RemoveGuestSessions, Edit, EditKeeps, HostInv
<1>20. ASSUME NEW g \in Guests, NEW h \in Hosts, NEW s \in Sessions, AddGuestSessions(g, h, s) PROVE HostInv'
  BY <1>20 DEF AddGuestSessions, Edit, EditKeeps, HostInv
<1>21. ASSUME NEW d \in drops, Drop(d) PROVE HostInv'
  BY <1>21 DEF Drop, HostInv
<1>23. ASSUME Tick PROVE HostInv'
  BY <1>23 DEF Tick, HostInv
<1>24. ASSUME NEW p \in Sockets, ReadHosts(p) PROVE HostInv'
  BY <1>24 DEF ReadHosts, PageKeeps, HostInv, Fields
<1>25. ASSUME NEW p \in Sockets, StoreHosts(p) PROVE HostInv'
  BY <1>25 DEF StoreHosts, Refreshed, PageKeeps, HostInv, Fields
<1>22. CASE UNCHANGED vars
  BY <1>22 DEF vars, HostInv
<1> QED
  BY <1>1, <1>2, <1>3, <1>4, <1>5, <1>6, <1>7, <1>8, <1>9, <1>10, <1>11, <1>12, <1>13,
     <1>14, <1>15, <1>16, <1>17, <1>18, <1>19, <1>20, <1>21, <1>22, <1>23, <1>24, <1>25 DEF Next,
     AdminStep, ConnectionStep, ReaderStep

\* Every step keeps them so.
LEMMA CredentialStep ==
  ASSUME PageInv, HostInv, CredentialInv, [Next]_vars
  PROVE  CredentialInv'
<1>1. ASSUME NEW p \in Sockets, NEW who \in Members \cup Guests, Identify(p, who) PROVE CredentialInv'
  <2> DEFINE x == page'[p]
  <2>1. \A q \in Sockets : q # p => page'[q] = page[q]
    BY <1>1 DEF Identify, PageInv
  <2>2. UNCHANGED << users, drops, late, guests, clock >>
    BY <1>1 DEF Identify, PageKeeps
  <2>3. \/ x.role = "admin"
        \/ x.role = "user" /\ x.who \in users
        \/ /\ x.role = "guest" /\ Active(x.who)
           /\ x.grant = guests[x.who].grant /\ x.expiry = guests[x.who].expiry
    BY <1>1, Identified
  <2>4. Good(p)'
    BY <2>2, <2>3 DEF Good, Unchanged, Active, Past
  <2> QED BY <2>1, <2>2, <2>4 DEF CredentialInv, Good, Unchanged, Due, Active, Past
<1>2. ASSUME NEW p \in Sockets, TakeScope(p) PROVE CredentialInv'
  BY <1>2 DEF TakeScope, PageKeeps, CredentialInv, Good, Unchanged, Due, Active, Past, PageInv, HostInv, Closed, Fields
<1>3. ASSUME NEW p \in Sockets, Register(p) PROVE CredentialInv'
  BY <1>3 DEF Register, PageKeeps, CredentialInv, Good, Unchanged, Due, Active, Past, PageInv, HostInv, Closed, Fields
<1>4. ASSUME NEW p \in Sockets, Refused(p) PROVE CredentialInv'
  BY <1>4 DEF Refused, PageKeeps, CredentialInv, Good, Unchanged, Due, Active, Past, PageInv, HostInv, Closed, Fields
<1>5. ASSUME NEW p \in Sockets, NEW timer \in BOOLEAN, Leave(p, timer) PROVE CredentialInv'
  <2>1. UNCHANGED << users, guests, clock, drops, late >>
    BY <1>5 DEF Leave, PageKeeps
  <2> QED BY <1>5, <2>1, LeaveIs DEF CredentialInv, Good, Unchanged, Due, Active, Past, SameReader
<1>6. ASSUME NEW p \in Sockets, NEW who \in {"loop", "reader"}, NotifyAudience(p, who) PROVE CredentialInv'
  BY <1>6 DEF NotifyAudience, CredentialInv, Good, Unchanged, Due, Active, Past, PageInv, HostInv, Closed, Fields
<1>7. ASSUME NEW p \in Sockets, NEW s \in Sessions \cup {None}, Viewing(p, s) PROVE CredentialInv'
  BY <1>7 DEF Viewing, ReaderReady, PageKeeps, CredentialInv, Good, Unchanged, Due, Active, Past, PageInv, HostInv, Closed, Fields
<1>8. ASSUME NEW p \in Sockets, NEW h \in Hosts, NEW s \in Sessions \cup {None}, SubscribeFrame(p, h, s) PROVE CredentialInv'
  <2>1. \A q \in Sockets : /\ page'[q].pc = page[q].pc /\ page'[q].role = page[q].role /\ page'[q].who = page[q].who
                          /\ page'[q].grant = page[q].grant /\ page'[q].expiry = page[q].expiry
                          /\ page'[q].kicked = page[q].kicked
    BY <1>8 DEF SubscribeFrame, PageInv, Fields
  <2>2. UNCHANGED << users, drops, guests, clock >>
        /\ \A q : <<q, "credential">> \in late => <<q, "credential">> \in late'
    BY <1>8 DEF SubscribeFrame, PageKeeps
  <2> QED BY <2>1, <2>2 DEF CredentialInv, Good, Unchanged, Due, Active, Past
<1>9. ASSUME NEW p \in Sockets, StoreTarget(p) PROVE CredentialInv'
  BY <1>9 DEF StoreTarget, PageKeeps, CredentialInv, Good, Unchanged, Due, Active, Past, PageInv, HostInv, Closed, Fields
<1>10. ASSUME NEW p \in Sockets, StoreSession(p) PROVE CredentialInv'
  BY <1>10 DEF StoreSession, PageKeeps, CredentialInv, Good, Unchanged, Due, Active, Past, PageInv, HostInv, Closed, Fields
<1>11. ASSUME NEW h \in Hosts, Attach(h) PROVE CredentialInv'
  BY <1>11 DEF Attach, Edit, EditKeeps, CredentialInv, Good, Unchanged, Due, Active, Past, PageInv, HostInv, Closed, Fields
<1>12. ASSUME NEW h \in Hosts, Detach(h) PROVE CredentialInv'
  BY <1>12 DEF Detach, Edit, EditKeeps, CredentialInv, Good, Unchanged, Due, Active, Past, PageInv, HostInv, Closed, Fields
<1>13. ASSUME NEW h \in Hosts, Unpair(h) PROVE CredentialInv'
  BY <1>13 DEF Unpair, Edit, EditKeeps, CredentialInv, Good, Unchanged, Due, Active, Past, PageInv, HostInv, Closed, Fields
<1>14. ASSUME NEW h \in Hosts, NEW o \in Members, Pair(h, o) PROVE CredentialInv'
  BY <1>14 DEF Pair, Edit, EditKeeps, CredentialInv, Good, Unchanged, Due, Active, Past, PageInv, HostInv, Closed, Fields
<1>15. ASSUME NEW h \in Hosts, NEW c \in Sessions, NEW s \in Sessions, NoteGuestChild(h, c, s) PROVE CredentialInv'
  BY <1>15 DEF NoteGuestChild, Edit, EditKeeps, CredentialInv, Good, Unchanged, Due, Active, Past, PageInv, HostInv, Closed, Fields
<1>16. ASSUME NEW u \in Users, DeleteUser(u) PROVE CredentialInv'
  BY <1>16 DEF DeleteUser, Edit, EditKeeps, CredentialInv, Good, Unchanged, Due, Active, Past, PageInv, HostInv, Closed, Fields
<1>17. ASSUME NEW g \in Guests, NEW e \in {0, MaxTime}, NEW t \in {"live", "revoked"},
             UpdateGuestToken(g, e, t) PROVE CredentialInv'
  <2> SUFFICES ASSUME NEW q \in Sockets, page'[q].pc \in {"auth", "scoped", "open"} PROVE Good(q)'
    BY DEF CredentialInv
  <2>1. UNCHANGED << page, users, late, clock >> /\ drops \subseteq drops' /\ guests[g].state # "deleted"
    BY <1>17 DEF UpdateGuestToken, EditKeeps
  <2>2. Good(q)
    BY <2>1 DEF CredentialInv
  <2>3. DOMAIN guests' = Guests /\ \A x \in Guests : x # g => guests'[x] = guests[x]
    BY <1>17 DEF UpdateGuestToken, HostInv
  <2>4. guests'[g].state = t /\ guests'[g].expiry = e /\ guests'[g].grant = guests[g].grant
    BY <1>17 DEF UpdateGuestToken, HostInv
  <2>5. CASE page[q].role = "guest" /\ Unchanged(q)
    <3>1. page[q].who \in Guests
      BY <2>5 DEF PageInv
    <3>2. CASE page[q].who # g
      <4>1. Unchanged(q)'
        BY <2>1, <2>3, <2>5, <3>1, <3>2 DEF Unchanged, Due, Active, Past
      <4> QED BY <2>1, <2>5, <4>1 DEF Good
    <3>3. CASE page[q].who = g /\ Due(q)
      <4>1. Unchanged(q)'
        BY <2>1, <2>4, <2>5, <3>3 DEF Unchanged, Due, Past
      <4> QED BY <2>1, <2>5, <4>1 DEF Good
    <3>4. CASE page[q].who = g /\ Active(g) /\ page[q].expiry = guests[g].expiry
      <4>1. CASE Withdraws(g, e, t)
        <5>1. <<"guest", g>> \in drops'
          BY <1>17, <3>4, <4>1 DEF UpdateGuestToken
        <5> QED BY <2>1, <2>5, <3>4, <5>1 DEF Good
      <4>2. CASE ~Withdraws(g, e, t)
        <5>1. e = guests[g].expiry /\ t = "live"
          BY <4>2 DEF Withdraws
        <5>2. Unchanged(q)'
          BY <2>1, <2>4, <2>5, <3>4, <5>1 DEF Unchanged, Active, Past
        <5> QED BY <2>1, <2>5, <5>2 DEF Good
      <4> QED BY <4>1, <4>2
    <3> QED BY <2>5, <3>2, <3>3, <3>4 DEF Unchanged
  <2> QED BY <2>1, <2>2, <2>5 DEF Good
<1>18. ASSUME NEW g \in Guests, DeleteGuestToken(g) PROVE CredentialInv'
  BY <1>18 DEF DeleteGuestToken, Edit, EditKeeps, CredentialInv, Good, Unchanged, Due, Active, Past, PageInv, HostInv, Closed, Fields
<1>19. ASSUME NEW g \in Guests, NEW h \in Hosts, NEW s \in Sessions, RemoveGuestSessions(g, h, s) PROVE CredentialInv'
  BY <1>19 DEF RemoveGuestSessions, Edit, EditKeeps, CredentialInv, Good, Unchanged, Due, Active, Past, PageInv, HostInv, Closed, Fields
<1>20. ASSUME NEW g \in Guests, NEW h \in Hosts, NEW s \in Sessions, AddGuestSessions(g, h, s) PROVE CredentialInv'
  BY <1>20 DEF AddGuestSessions, Edit, EditKeeps, CredentialInv, Good, Unchanged, Due, Active, Past, PageInv, HostInv, Closed, Fields
<1>21. ASSUME NEW d \in drops, Drop(d) PROVE CredentialInv'
  <2> SUFFICES ASSUME NEW p \in Sockets, page'[p].pc \in {"auth", "scoped", "open"} PROVE Good(p)'
    BY DEF CredentialInv
  <2>1. UNCHANGED << users, guests, clock, subs >> /\ drops' = drops \ {d} /\ late \subseteq late'
    BY <1>21 DEF Drop
  <2>2. /\ page'[p].pc = page[p].pc /\ page'[p].role = page[p].role /\ page'[p].who = page[p].who
        /\ page'[p].grant = page[p].grant /\ page'[p].expiry = page[p].expiry
        /\ (page[p].kicked => page'[p].kicked)
    BY <1>21 DEF Drop, PageInv, Fields
  <2>3. Good(p)
    BY <2>2 DEF CredentialInv
  <2>4. CASE page[p].role = "user" /\ d = <<"user", page[p].who>>
    <3>1. CASE p \in subs
      <4>1. Hit(p, d)
        BY <2>4 DEF Hit
      <4>2. page'[p].kicked
        BY <1>21, <3>1, <4>1 DEF Drop, PageInv, Fields
      <4> QED BY <4>2 DEF Good
    <3>2. CASE p \notin subs
      <4>1. MissedCredential(p, d)
        BY <2>2, <2>4, <3>2 DEF MissedCredential, PageInv
      <4>2. <<p, "credential">> \in late'
        BY <1>21, <4>1 DEF Drop
      <4> QED BY <4>2 DEF Good
    <3> QED BY <3>1, <3>2
  <2>5. CASE page[p].role = "guest" /\ d = <<"guest", page[p].who>>
    <3>1. CASE p \in subs
      <4>1. Hit(p, d)
        BY <2>5 DEF Hit
      <4>2. page'[p].kicked
        BY <1>21, <3>1, <4>1 DEF Drop, PageInv, Fields
      <4> QED BY <4>2 DEF Good
    <3>2. CASE p \notin subs
      <4>1. MissedCredential(p, d)
        BY <2>2, <2>5, <3>2 DEF MissedCredential, PageInv
      <4>2. <<p, "credential">> \in late'
        BY <1>21, <4>1 DEF Drop
      <4> QED BY <4>2 DEF Good
    <3> QED BY <3>1, <3>2
  <2> QED BY <2>1, <2>2, <2>3, <2>4, <2>5 DEF Good, Unchanged, Due, Active, Past
<1>23. ASSUME Tick PROVE CredentialInv'
  BY <1>23 DEF Tick, CredentialInv, Good, Unchanged, Due, Active, Past, PageInv, HostInv
<1>24. ASSUME NEW p \in Sockets, ReadHosts(p) PROVE CredentialInv'
  BY <1>24 DEF ReadHosts, PageKeeps, CredentialInv, Good, Unchanged, Due, Active, Past, PageInv, HostInv, Fields
<1>25. ASSUME NEW p \in Sockets, StoreHosts(p) PROVE CredentialInv'
  BY <1>25 DEF StoreHosts, Refreshed, PageKeeps, CredentialInv, Good, Unchanged, Due, Active, Past, PageInv, HostInv, Fields
<1>22. CASE UNCHANGED vars
  BY <1>22 DEF vars, CredentialInv, Good, Unchanged, Due, Active, Past
<1> QED
  BY <1>1, <1>2, <1>3, <1>4, <1>5, <1>6, <1>7, <1>8, <1>9, <1>10, <1>11, <1>12, <1>13,
     <1>14, <1>15, <1>16, <1>17, <1>18, <1>19, <1>20, <1>21, <1>22, <1>23, <1>24, <1>25 DEF Next,
     AdminStep, ConnectionStep, ReaderStep

\* Every step keeps the scopes so.
LEMMA ScopeStep ==
  ASSUME PageInv, HostInv, ScopeInv, [Next]_vars
  PROVE  ScopeInv'
<1>1. ASSUME NEW p \in Sockets, NEW who \in Members \cup Guests, Identify(p, who) PROVE ScopeInv'
  <2>1. \A q \in Sockets : q # p => page'[q] = page[q]
    BY <1>1 DEF Identify, PageInv
  <2>2. UNCHANGED << owner, drops, late >>
    BY <1>1 DEF Identify, PageKeeps
  <2>3. page'[p].pc = "auth" /\ page'[p].reader = "idle" /\ page'[p].scope = {} /\ page'[p].fresh = {}
    BY <1>1, Identified
  <2> QED BY <2>1, <2>2, <2>3 DEF ScopeInv, Ours
<1>2. ASSUME NEW p \in Sockets, TakeScope(p) PROVE ScopeInv'
  <2>1. PICK f : page' = [page EXCEPT ![p].pc = "scoped", ![p].filter = f,
                            ![p].scope = IF page[p].role = "guest" THEN {} ELSE HostIDsForUser(page[p].who)]
    BY <1>2 DEF TakeScope
  <2>2. \A q \in Sockets : q # p => page'[q] = page[q]
    BY <2>1 DEF PageInv
  <2>3. UNCHANGED << owner, drops, late >>
    BY <1>2 DEF TakeScope, PageKeeps
  <2>4. page'[p].reader = page[p].reader /\ page'[p].fresh = page[p].fresh /\ page'[p].who = page[p].who
        /\ page'[p].kicked = page[p].kicked /\ page'[p].scope \in {{}, HostIDsForUser(page[p].who)}
        /\ page'[p].pc = "scoped"
    BY <2>1 DEF PageInv, Fields
  <2>5. \A h \in page'[p].scope : h \in Hosts /\ owner[h] = page'[p].who
    BY <2>4 DEF HostIDsForUser
  <2> QED BY <2>2, <2>3, <2>4, <2>5 DEF ScopeInv, Ours
<1>3. ASSUME NEW p \in Sockets, Register(p) PROVE ScopeInv'
  BY <1>3 DEF Register, PageKeeps, ScopeInv, Ours, PageInv, HostInv, Closed, Fields
<1>4. ASSUME NEW p \in Sockets, Refused(p) PROVE ScopeInv'
  BY <1>4 DEF Refused, PageKeeps, ScopeInv, Ours, PageInv, HostInv, Closed, Fields
<1>5. ASSUME NEW p \in Sockets, NEW timer \in BOOLEAN, Leave(p, timer) PROVE ScopeInv'
  <2>1. UNCHANGED << owner, drops, late >>
    BY <1>5 DEF Leave, PageKeeps
  <2> QED BY <1>5, <2>1, LeaveIs DEF ScopeInv, Ours, SameReader
<1>6. ASSUME NEW p \in Sockets, NEW who \in {"loop", "reader"}, NotifyAudience(p, who) PROVE ScopeInv'
  BY <1>6 DEF NotifyAudience, ScopeInv, Ours, PageInv, HostInv, Closed, Fields
<1>7. ASSUME NEW p \in Sockets, NEW s \in Sessions \cup {None}, Viewing(p, s) PROVE ScopeInv'
  BY <1>7 DEF Viewing, ReaderReady, PageKeeps, ScopeInv, Ours, PageInv, HostInv, Closed, Fields
<1>8. ASSUME NEW p \in Sockets, NEW h \in Hosts, NEW s \in Sessions \cup {None}, SubscribeFrame(p, h, s) PROVE ScopeInv'
  <2>1. \A q \in Sockets : q # p => page'[q] = page[q]
    BY <1>8 DEF SubscribeFrame, PageInv
  <2>2. UNCHANGED << owner, drops >> /\ late' = late \ {<<p, "target">>}
    BY <1>8 DEF SubscribeFrame, PageKeeps
  <2>3. page'[p].pc = page[p].pc /\ page'[p].scope = page[p].scope /\ page'[p].who = page[p].who
        /\ page'[p].kicked = page[p].kicked /\ page'[p].fresh = page[p].fresh /\ page'[p].reader # "hosts"
    BY <1>8 DEF SubscribeFrame, PageInv, Fields
  <2> QED BY <2>1, <2>2, <2>3 DEF ScopeInv, Ours
<1>9. ASSUME NEW p \in Sockets, StoreTarget(p) PROVE ScopeInv'
  BY <1>9 DEF StoreTarget, PageKeeps, ScopeInv, Ours, PageInv, HostInv, Closed, Fields
<1>10. ASSUME NEW p \in Sockets, StoreSession(p) PROVE ScopeInv'
  BY <1>10 DEF StoreSession, PageKeeps, ScopeInv, Ours, PageInv, HostInv, Closed, Fields
<1>11. ASSUME NEW h \in Hosts, Attach(h) PROVE ScopeInv'
  BY <1>11 DEF Attach, Edit, EditKeeps, ScopeInv, Ours, PageInv, HostInv, Closed, Fields
<1>12. ASSUME NEW h \in Hosts, Detach(h) PROVE ScopeInv'
  BY <1>12 DEF Detach, Edit, EditKeeps, ScopeInv, Ours, PageInv, HostInv, Closed, Fields
<1>13. ASSUME NEW h \in Hosts, Unpair(h) PROVE ScopeInv'
  BY <1>13 DEF Unpair, Edit, EditKeeps, ScopeInv, Ours, PageInv, HostInv, Closed, Fields
<1>14. ASSUME NEW h \in Hosts, NEW o \in Members, Pair(h, o) PROVE ScopeInv'
  <2>1. UNCHANGED << page, drops, late >> /\ owner[h] = None /\ \A x \in Hosts : x # h => owner'[x] = owner[x]
    BY <1>14 DEF Pair, EditKeeps, HostInv
  <2>2. \A q \in Sockets : page[q].who # None
    BY PagesAssumption DEF PageInv, Root, None
  <2>3. \A q \in Sockets, x \in Hosts : Ours(q, x) => Ours(q, x)'
    BY <2>1, <2>2 DEF Ours
  <2> QED BY <2>1, <2>3 DEF ScopeInv
<1>15. ASSUME NEW h \in Hosts, NEW c \in Sessions, NEW s \in Sessions, NoteGuestChild(h, c, s) PROVE ScopeInv'
  BY <1>15 DEF NoteGuestChild, Edit, EditKeeps, ScopeInv, Ours, PageInv, HostInv, Closed, Fields
<1>16. ASSUME NEW u \in Users, DeleteUser(u) PROVE ScopeInv'
  BY <1>16 DEF DeleteUser, Edit, EditKeeps, ScopeInv, Ours, PageInv, HostInv, Closed, Fields
<1>17. ASSUME NEW g \in Guests, NEW e \in {0, MaxTime}, NEW t \in {"live", "revoked"},
             UpdateGuestToken(g, e, t) PROVE ScopeInv'
  BY <1>17 DEF UpdateGuestToken, Edit, EditKeeps, ScopeInv, Ours, PageInv, HostInv, Closed, Fields
<1>18. ASSUME NEW g \in Guests, DeleteGuestToken(g) PROVE ScopeInv'
  BY <1>18 DEF DeleteGuestToken, Edit, EditKeeps, ScopeInv, Ours, PageInv, HostInv, Closed, Fields
<1>19. ASSUME NEW g \in Guests, NEW h \in Hosts, NEW s \in Sessions, RemoveGuestSessions(g, h, s) PROVE ScopeInv'
  BY <1>19 DEF RemoveGuestSessions, Edit, EditKeeps, ScopeInv, Ours, PageInv, HostInv, Closed, Fields
<1>20. ASSUME NEW g \in Guests, NEW h \in Hosts, NEW s \in Sessions, AddGuestSessions(g, h, s) PROVE ScopeInv'
  BY <1>20 DEF AddGuestSessions, Edit, EditKeeps, ScopeInv, Ours, PageInv, HostInv, Closed, Fields
<1>21. ASSUME NEW d \in drops, Drop(d) PROVE ScopeInv'
  <2>1. UNCHANGED << owner, subs >> /\ drops' = drops \ {d} /\ late \subseteq late'
    BY <1>21 DEF Drop
  <2>2. \A p \in Sockets :
           /\ page'[p].pc = page[p].pc /\ page'[p].scope = page[p].scope /\ page'[p].fresh = page[p].fresh
           /\ page'[p].who = page[p].who /\ page'[p].reader = page[p].reader /\ (page[p].kicked => page'[p].kicked)
    BY <1>21 DEF Drop, PageInv, Fields
  <2>3. ASSUME NEW p \in Sockets, page[p].pc \in {"scoped", "open"}, NEW h \in page[p].scope PROVE Ours(p, h)'
    <3>1. Ours(p, h)
      BY <2>3 DEF ScopeInv
    <3>2. CASE d = <<"host", h>> /\ page[p].pc = "open"
      <4>1. Hit(p, d) /\ p \in subs
        BY <2>3, <3>2 DEF Hit, Stale, PageInv
      <4>2. page'[p].kicked
        BY <1>21, <4>1 DEF Drop, PageInv, Fields
      <4> QED BY <4>2 DEF Ours
    <3>3. CASE d = <<"host", h>> /\ page[p].pc = "scoped"
      <4>1. MissedScope(p, d)
        BY <2>3, <3>3 DEF MissedScope
      <4>2. <<p, "scope">> \in late'
        BY <1>21, <4>1 DEF Drop
      <4> QED BY <4>2 DEF Ours
    <3> QED BY <2>1, <2>2, <2>3, <3>1, <3>2, <3>3 DEF Ours
  <2>4. ASSUME NEW p \in Sockets, page[p].pc = "open", page[p].reader = "hosts", NEW h \in page[p].fresh PROVE Ours(p, h)'
    <3>1. Ours(p, h)
      BY <2>4 DEF ScopeInv
    <3>2. CASE d = <<"host", h>>
      <4>1. MissedScope(p, d)
        BY <2>4, <3>2 DEF MissedScope
      <4>2. <<p, "scope">> \in late'
        BY <1>21, <4>1 DEF Drop
      <4> QED BY <4>2 DEF Ours
    <3> QED BY <2>1, <2>2, <3>1, <3>2 DEF Ours
  <2> QED BY <2>2, <2>3, <2>4 DEF ScopeInv
<1>23. ASSUME Tick PROVE ScopeInv'
  BY <1>23 DEF Tick, ScopeInv, Ours, PageInv
<1>24. ASSUME NEW p \in Sockets, ReadHosts(p) PROVE ScopeInv'
  <2>1. \A q \in Sockets : q # p => page'[q] = page[q]
    BY <1>24 DEF ReadHosts, PageInv
  <2>2. UNCHANGED << owner, drops, late >>
    BY <1>24 DEF ReadHosts, PageKeeps
  <2>3. page'[p].pc = page[p].pc /\ page'[p].scope = page[p].scope /\ page'[p].who = page[p].who
        /\ page'[p].kicked = page[p].kicked /\ page'[p].fresh = HostIDsForUser(page[p].who)
    BY <1>24 DEF ReadHosts, PageInv, Fields
  <2>4. \A x \in page'[p].fresh : x \in Hosts /\ owner[x] = page'[p].who
    BY <2>3 DEF HostIDsForUser
  <2> QED BY <2>1, <2>2, <2>3, <2>4 DEF ScopeInv, Ours
<1>25. ASSUME NEW p \in Sockets, StoreHosts(p) PROVE ScopeInv'
  BY <1>25 DEF StoreHosts, Refreshed, PageKeeps, ScopeInv, Ours, PageInv, Fields
<1>22. CASE UNCHANGED vars
  BY <1>22 DEF vars, ScopeInv, Ours
<1> QED
  BY <1>1, <1>2, <1>3, <1>4, <1>5, <1>6, <1>7, <1>8, <1>9, <1>10, <1>11, <1>12, <1>13,
     <1>14, <1>15, <1>16, <1>17, <1>18, <1>19, <1>20, <1>21, <1>22, <1>23, <1>24, <1>25 DEF Next,
     AdminStep, ConnectionStep, ReaderStep

\* A subscription stays so, as long as a target that is checked stays so.
LEMMA AckKept ==
  ASSUME NEW p \in Sockets, AckOK(p), SameReader(p), p \in subs' => p \in subs,
         <<p, "target">> \in late => <<p, "target">> \in late',
         page[p].reader = "read" /\ Checked(p, page[p].target) => Checked(p, page[p].target)'
  PROVE  AckOK(p)'
<1>1. \A h : (Checked(p, h)' <=> owner'[h] = page'[p].who \/ <<p, "target">> \in late')
  BY DEF Checked
<1>2. Checked(p, page[p].target)' <=> (owner[page[p].target])' = page'[p].who \/ <<p, "target">> \in late'
  BY DEF Checked
<1> QED BY <1>1, <1>2 DEF AckOK, SameReader, Checked, Served

\* A page that has asked for nothing is served.
LEMMA AckFresh ==
  ASSUME NEW p \in Sockets, page'[p].reader = "idle", page'[p].acked = None
  PROVE  AckOK(p)'
BY DEF AckOK

\* Every step keeps the subscriptions so.
LEMMA AckStep ==
  ASSUME PageInv, HostInv, AckInv, [Next]_vars
  PROVE  AckInv'
<1>1. ASSUME NEW p \in Sockets, NEW who \in Members \cup Guests, Identify(p, who) PROVE AckInv'
  <2>1. \A q \in Sockets : q # p => SameReader(q) /\ (q \in subs' => q \in subs)
    BY <1>1 DEF Identify, SameReader, PageInv, PageKeeps
  <2>2. page'[p].reader = "idle" /\ page'[p].acked = None
    BY <1>1, Identified DEF Identify, PageInv, Closed, Fields
  <2>3. UNCHANGED owner /\ \A q : q # p /\ <<q, "target">> \in late => <<q, "target">> \in late'
    BY <1>1 DEF Identify, PageKeeps
  <2> QED BY <2>1, <2>2, <2>3, AckKept, AckFresh DEF AckInv, Checked, SameReader
<1>2. ASSUME NEW p \in Sockets, TakeScope(p) PROVE AckInv'
  <2>1. \A q \in Sockets : q # p => SameReader(q) /\ (q \in subs' => q \in subs)
    BY <1>2 DEF TakeScope, SameReader, PageInv, PageKeeps
  <2>2. page'[p].reader = "idle" /\ page'[p].acked = None
    BY <1>2 DEF TakeScope, PageInv, Closed, Fields
  <2>3. UNCHANGED owner /\ \A q : q # p /\ <<q, "target">> \in late => <<q, "target">> \in late'
    BY <1>2 DEF TakeScope, PageKeeps
  <2> QED BY <2>1, <2>2, <2>3, AckKept, AckFresh DEF AckInv, Checked, SameReader
<1>3. ASSUME NEW p \in Sockets, Register(p) PROVE AckInv'
  <2>1. \A q \in Sockets : q # p => SameReader(q) /\ (q \in subs' => q \in subs)
    BY <1>3 DEF Register, SameReader, PageInv, PageKeeps
  <2>2. page'[p].reader = "idle" /\ page'[p].acked = None
    BY <1>3 DEF Register, PageInv, Closed, Fields
  <2>3. UNCHANGED owner /\ \A q : q # p /\ <<q, "target">> \in late => <<q, "target">> \in late'
    BY <1>3 DEF Register, PageKeeps
  <2> QED BY <2>1, <2>2, <2>3, AckKept, AckFresh DEF AckInv, Checked, SameReader
<1>4. ASSUME NEW p \in Sockets, Refused(p) PROVE AckInv'
  <2>1. \A q \in Sockets : q # p => SameReader(q) /\ (q \in subs' => q \in subs)
    BY <1>4 DEF Refused, SameReader, PageInv, PageKeeps
  <2>2. page'[p].reader = "idle" /\ page'[p].acked = None
    BY <1>4 DEF Refused, PageInv, Closed, Fields
  <2>3. UNCHANGED owner /\ \A q : q # p /\ <<q, "target">> \in late => <<q, "target">> \in late'
    BY <1>4 DEF Refused, PageKeeps
  <2> QED BY <2>1, <2>2, <2>3, AckKept, AckFresh DEF AckInv, Checked, SameReader
<1>5. ASSUME NEW p \in Sockets, NEW timer \in BOOLEAN, Leave(p, timer) PROVE AckInv'
  <2>1. UNCHANGED << owner, late >> /\ subs' = subs \ {p}
    BY <1>5 DEF Leave, PageKeeps
  <2>2. AckOK(p)'
    BY <1>5, <2>1, LeaveIs DEF AckInv, AckOK, Checked, Served
  <2> QED BY <1>5, <2>1, <2>2, LeaveIs, AckKept DEF AckInv, Checked, SameReader
<1>6. ASSUME NEW p \in Sockets, NEW who \in {"loop", "reader"}, NotifyAudience(p, who) PROVE AckInv'
  <2>1. UNCHANGED << owner, subs >>
    BY <1>6 DEF NotifyAudience
  <2>2. CASE UNCHANGED << page, late >>
    BY <2>1, <2>2, AckKept DEF AckInv, Checked, SameReader
  <2>3. CASE page' = [page EXCEPT ![p] = Closed] /\ late' = {x \in late : x[1] # p}
    <3>1. \A q \in Sockets : q # p => SameReader(q) /\ (<<q, "target">> \in late => <<q, "target">> \in late')
      BY <2>3 DEF SameReader, PageInv
    <3>2. page'[p].reader = "idle" /\ page'[p].acked = None
      BY <2>3 DEF PageInv, Closed
    <3> QED BY <2>1, <3>1, <3>2, AckKept, AckFresh DEF AckInv, Checked, SameReader
  <2> QED BY <1>6, <2>2, <2>3 DEF NotifyAudience
<1>7. ASSUME NEW p \in Sockets, NEW s \in Sessions \cup {None}, Viewing(p, s) PROVE AckInv'
  <2>1. \A q \in Sockets : SameReader(q)
    BY <1>7 DEF Viewing, PageKeeps, SameReader, PageInv, Fields
  <2>2. UNCHANGED << owner, subs >> /\ late \subseteq late'
    BY <1>7 DEF Viewing, PageKeeps
  <2> QED BY <2>1, <2>2, AckKept DEF AckInv, Checked, SameReader
<1>8. ASSUME NEW p \in Sockets, NEW h \in Hosts, NEW s \in Sessions \cup {None}, SubscribeFrame(p, h, s) PROVE AckInv'
  <2>1. \A q \in Sockets : q # p => SameReader(q)
    BY <1>8 DEF SubscribeFrame, SameReader, PageInv
  <2>2. /\ page'[p].acked = None /\ page'[p].target = h /\ page'[p].role = page[p].role /\ page'[p].who = page[p].who
        /\ page'[p].reader = IF page[p].role = "user" THEN "read" ELSE "store"
    BY <1>8 DEF SubscribeFrame, PageInv, Fields
  <2>3. page[p].role = "user" => owner[h] = page[p].who
    BY <1>8 DEF SubscribeFrame, AllowsHost
  <2>4. UNCHANGED << owner, subs >> /\ \A q : q # p /\ <<q, "target">> \in late => <<q, "target">> \in late'
    BY <1>8 DEF SubscribeFrame, PageKeeps
  <2>5. AckOK(p)'
    BY <2>2, <2>3, <2>4 DEF AckOK, Checked
  <2> QED BY <2>1, <2>4, <2>5, AckKept DEF AckInv, Checked, SameReader
<1>9. ASSUME NEW p \in Sockets, StoreTarget(p) PROVE AckInv'
  <2>1. \A q \in Sockets : q # p => SameReader(q)
    BY <1>9 DEF StoreTarget, SameReader, PageInv
  <2>2. UNCHANGED << owner, subs, late >>
    BY <1>9 DEF StoreTarget, PageKeeps
  <2>3. AckOK(p)
    BY DEF AckInv
  <2>4. /\ page[p].reader = "store" /\ page'[p].role = page[p].role /\ page'[p].acked = page[p].acked
        /\ page'[p].scope = page[p].scope /\ page'[p].target = page[p].target
        /\ \/ p \notin subs /\ page'[p].reader = "idle"
           \/ p \in subs /\ page'[p].reader = "session" /\ page'[p].filter = page[p].target
    BY <1>9 DEF StoreTarget, PageInv, Fields
  <2>5. AckOK(p)'
    BY <2>2, <2>3, <2>4 DEF AckOK, Served
  <2> QED BY <2>1, <2>2, <2>5, AckKept DEF AckInv, Checked, SameReader
<1>10. ASSUME NEW p \in Sockets, StoreSession(p) PROVE AckInv'
  <2>1. \A q \in Sockets : q # p => SameReader(q)
    BY <1>10 DEF StoreSession, SameReader, PageInv
  <2>2. UNCHANGED << owner, subs, late >>
    BY <1>10 DEF StoreSession, PageKeeps
  <2>3. AckOK(p)
    BY DEF AckInv
  <2>4. /\ page[p].reader = "session" /\ page'[p].role = page[p].role /\ page'[p].reader = "idle"
        /\ page'[p].scope = page[p].scope /\ page'[p].filter = page[p].filter
        /\ \/ p \notin subs /\ page'[p].acked = page[p].acked
           \/ p \in subs /\ page'[p].acked = page[p].target
    BY <1>10 DEF StoreSession, PageInv, Fields
  <2>5. AckOK(p)'
    BY <2>2, <2>3, <2>4 DEF AckOK, Served
  <2> QED BY <2>1, <2>2, <2>5, AckKept DEF AckInv, Checked, SameReader
<1>11. ASSUME NEW h \in Hosts, Attach(h) PROVE AckInv'
  <2>1. \A q \in Sockets : SameReader(q)
    BY <1>11 DEF Attach, EditKeeps, SameReader
  <2>2. UNCHANGED << owner, subs >> /\ late \subseteq late'
    BY <1>11 DEF Attach, EditKeeps
  <2> QED BY <2>1, <2>2, AckKept DEF AckInv, Checked, SameReader
<1>12. ASSUME NEW h \in Hosts, Detach(h) PROVE AckInv'
  <2>1. \A q \in Sockets : SameReader(q)
    BY <1>12 DEF Detach, EditKeeps, SameReader
  <2>2. UNCHANGED << owner, subs >> /\ late \subseteq late'
    BY <1>12 DEF Detach, EditKeeps
  <2> QED BY <2>1, <2>2, AckKept DEF AckInv, Checked, SameReader
<1>13. ASSUME NEW h \in Hosts, Unpair(h) PROVE AckInv'
  <2>1. \A q \in Sockets : SameReader(q)
    BY <1>13 DEF Unpair, SameReader
  <2>2. UNCHANGED subs /\ late \subseteq late' /\ \A x \in Hosts : x # h => owner'[x] = owner[x]
    BY <1>13 DEF Unpair, HostInv
  <2>3. ASSUME NEW q \in Sockets, page[q].reader = "read", Checked(q, page[q].target)
        PROVE  Checked(q, page[q].target)'
    <3>1. CASE page[q].target = h
      <4>1. <<q, "target">> \in late'
        BY <1>13, <2>3, <3>1 DEF Unpair, Overtaken
      <4> QED BY <4>1 DEF Checked
    <3>2. CASE page[q].target # h /\ page[q].role = "user"
      <4>1. page[q].target \in Hosts
        BY <2>3, <3>2 DEF AckInv, AckOK
      <4>2. owner'[page[q].target] = owner[page[q].target] /\ page' = page
        BY <1>13, <2>2, <3>2, <4>1 DEF Unpair
      <4> QED BY <2>2, <2>3, <4>2 DEF Checked
    <3>3. CASE page[q].role # "user"
      BY <2>3, <3>3 DEF AckInv, AckOK
    <3> QED BY <3>1, <3>2, <3>3
  <2> QED BY <2>1, <2>2, <2>3, AckKept DEF AckInv
<1>14. ASSUME NEW h \in Hosts, NEW o \in Members, Pair(h, o) PROVE AckInv'
  <2>1. \A q \in Sockets : SameReader(q)
    BY <1>14 DEF Pair, EditKeeps, SameReader
  <2>2. UNCHANGED << page, subs, late >> /\ owner[h] = None /\ \A x \in Hosts : x # h => owner'[x] = owner[x]
    BY <1>14 DEF Pair, EditKeeps, HostInv
  <2>3. ASSUME NEW q \in Sockets, page[q].reader = "read", Checked(q, page[q].target)
        PROVE  Checked(q, page[q].target)'
    <3>1. page[q].role = "user" /\ page[q].target \in Hosts /\ page[q].who \in Users
      BY <2>3 DEF AckInv, AckOK, PageInv
    <3>2. page[q].who # None
      BY <3>1, PagesAssumption DEF None
    <3>3. owner'[page[q].target] = owner[page[q].target] \/ <<q, "target">> \in late
      BY <2>2, <2>3, <3>1, <3>2 DEF Checked
    <3> QED BY <2>2, <2>3, <3>3 DEF Checked
  <2> QED BY <2>1, <2>2, <2>3, AckKept DEF AckInv
<1>15. ASSUME NEW h \in Hosts, NEW c \in Sessions, NEW s \in Sessions, NoteGuestChild(h, c, s) PROVE AckInv'
  <2>1. \A q \in Sockets : SameReader(q)
    BY <1>15 DEF NoteGuestChild, EditKeeps, SameReader
  <2>2. UNCHANGED << owner, subs >> /\ late \subseteq late'
    BY <1>15 DEF NoteGuestChild, EditKeeps
  <2> QED BY <2>1, <2>2, AckKept DEF AckInv, Checked, SameReader
<1>16. ASSUME NEW u \in Users, DeleteUser(u) PROVE AckInv'
  <2>1. \A q \in Sockets : SameReader(q)
    BY <1>16 DEF DeleteUser, EditKeeps, SameReader
  <2>2. UNCHANGED << owner, subs >> /\ late \subseteq late'
    BY <1>16 DEF DeleteUser, EditKeeps
  <2> QED BY <2>1, <2>2, AckKept DEF AckInv, Checked, SameReader
<1>17. ASSUME NEW g \in Guests, NEW e \in {0, MaxTime}, NEW t \in {"live", "revoked"},
             UpdateGuestToken(g, e, t) PROVE AckInv'
  <2>1. \A q \in Sockets : SameReader(q)
    BY <1>17 DEF UpdateGuestToken, EditKeeps, SameReader
  <2>2. UNCHANGED << owner, subs >> /\ late \subseteq late'
    BY <1>17 DEF UpdateGuestToken, EditKeeps
  <2> QED BY <2>1, <2>2, AckKept DEF AckInv, Checked, SameReader
<1>18. ASSUME NEW g \in Guests, DeleteGuestToken(g) PROVE AckInv'
  <2>1. \A q \in Sockets : SameReader(q)
    BY <1>18 DEF DeleteGuestToken, EditKeeps, SameReader
  <2>2. UNCHANGED << owner, subs >> /\ late \subseteq late'
    BY <1>18 DEF DeleteGuestToken, EditKeeps
  <2> QED BY <2>1, <2>2, AckKept DEF AckInv, Checked, SameReader
<1>19. ASSUME NEW g \in Guests, NEW h \in Hosts, NEW s \in Sessions, RemoveGuestSessions(g, h, s) PROVE AckInv'
  <2>1. \A q \in Sockets : SameReader(q)
    BY <1>19 DEF RemoveGuestSessions, EditKeeps, SameReader
  <2>2. UNCHANGED << owner, subs >> /\ late \subseteq late'
    BY <1>19 DEF RemoveGuestSessions, EditKeeps
  <2> QED BY <2>1, <2>2, AckKept DEF AckInv, Checked, SameReader
<1>20. ASSUME NEW g \in Guests, NEW h \in Hosts, NEW s \in Sessions, AddGuestSessions(g, h, s) PROVE AckInv'
  <2>1. \A q \in Sockets : SameReader(q)
    BY <1>20 DEF AddGuestSessions, EditKeeps, SameReader
  <2>2. UNCHANGED << owner, subs >> /\ late \subseteq late'
    BY <1>20 DEF AddGuestSessions, EditKeeps
  <2> QED BY <2>1, <2>2, AckKept DEF AckInv, Checked, SameReader
<1>21. ASSUME NEW d \in drops, Drop(d) PROVE AckInv'
  <2>1. \A q \in Sockets : SameReader(q)
    BY <1>21 DEF Drop, SameReader, PageInv, Fields
  <2>2. UNCHANGED << owner, subs >> /\ late \subseteq late'
    BY <1>21 DEF Drop
  <2> QED BY <2>1, <2>2, AckKept DEF AckInv, Checked, SameReader
<1>23. ASSUME Tick PROVE AckInv'
  <2>1. \A q \in Sockets : SameReader(q)
    BY <1>23 DEF Tick, SameReader
  <2>2. UNCHANGED << owner, subs >> /\ late \subseteq late'
    BY <1>23 DEF Tick
  <2> QED BY <2>1, <2>2, AckKept DEF AckInv, Checked, SameReader
<1>24. ASSUME NEW p \in Sockets, ReadHosts(p) PROVE AckInv'
  <2>1. \A q \in Sockets : q # p => SameReader(q)
    BY <1>24 DEF ReadHosts, SameReader, PageInv
  <2>2. UNCHANGED << owner, subs, late >>
    BY <1>24 DEF ReadHosts, PageKeeps
  <2>3. AckOK(p)
    BY DEF AckInv
  <2>4. /\ page[p].reader = "read" /\ page'[p].role = page[p].role /\ page'[p].acked = page[p].acked
        /\ page'[p].target = page[p].target
        /\ page'[p].reader = "hosts" /\ page'[p].fresh = HostIDsForUser(page[p].who)
    BY <1>24 DEF ReadHosts, PageInv, Fields
  <2>5. AckOK(p)'
    <3>1. page[p].role = "user" => Served(p, page[p].target, HostIDsForUser(page[p].who))
      BY <2>3, <2>4 DEF AckOK, Served, Checked, HostIDsForUser
    <3> QED BY <2>2, <2>3, <2>4, <3>1 DEF AckOK, Served
  <2> QED BY <2>1, <2>2, <2>5, AckKept DEF AckInv, Checked, SameReader
<1>25. ASSUME NEW p \in Sockets, StoreHosts(p) PROVE AckInv'
  <2>1. \A q \in Sockets : q # p => SameReader(q)
    BY <1>25 DEF StoreHosts, SameReader, PageInv
  <2>2. UNCHANGED << owner, subs, late >>
    BY <1>25 DEF StoreHosts, PageKeeps
  <2>3. AckOK(p)
    BY DEF AckInv
  <2>4. /\ page[p].reader = "hosts" /\ page'[p].role = page[p].role /\ page'[p].acked = page[p].acked
        /\ page'[p].target = page[p].target /\ page'[p].reader = "store"
        /\ p \in subs => page'[p].scope = page[p].fresh
    BY <1>25 DEF StoreHosts, Refreshed, PageInv, Fields
  <2>5. AckOK(p)'
    BY <2>2, <2>3, <2>4 DEF AckOK, Served
  <2> QED BY <2>1, <2>2, <2>5, AckKept DEF AckInv, Checked, SameReader
<1>22. CASE UNCHANGED vars
  BY <1>22, AckKept DEF vars, AckInv, SameReader, Checked
<1> QED
  BY <1>1, <1>2, <1>3, <1>4, <1>5, <1>6, <1>7, <1>8, <1>9, <1>10, <1>11, <1>12, <1>13,
     <1>14, <1>15, <1>16, <1>17, <1>18, <1>19, <1>20, <1>21, <1>22, <1>23, <1>24, <1>25 DEF Next,
     AdminStep, ConnectionStep, ReaderStep

\* The pages that watch a host are those that did.
LEMMA WatchersKept ==
  ASSUME NEW h, subs' = subs, \A p \in subs : SameView(p)
  PROVE  Watchers(h)' = Watchers(h)
BY DEF Watchers, Watches, SameView

\* What is due stays so.
LEMMA SettledKept ==
  ASSUME subs' = subs, \A p \in subs : SameView(p), owed' = owed, Settled'
  PROVE  Settled
BY DEF Settled, SameView

\* What a host was told still covers its pages when they display the same.
LEMMA ToldKept ==
  ASSUME NEW h, subs' = subs, \A p \in subs : SameView(p), audience'[h] = audience[h],
         h \in spawned => h \in spawned', h \in spawned' \/ \A d : d[1] = h => (d \in children' <=> d \in children), Told(h)
  PROVE  Told(h)'
<1>1. Watchers(h)' = Watchers(h) /\ \A p \in Watchers(h) : page'[p].declared = page[p].declared /\ page'[p].session = page[p].session
  BY WatchersKept DEF Watchers, SameView
<1>2. h \in spawned' \/ \A x : WithChildren(h, {x})' = WithChildren(h, {x})
  BY DEF WithChildren
<1>3. ASSUME NEW p \in Watchers(h)'
      PROVE  \/ audience'[h].all
             \/ /\ page'[p].declared
                /\ {page'[p].session} \ {None} \subseteq audience'[h].sessions
                /\ h \in spawned' \/ WithChildren(h, {page[p].session})' \ {None} \subseteq audience'[h].sessions
  BY <1>1, <1>2, <1>3 DEF Told
<1> QED BY <1>1, <1>3 DEF Told, WithChildren

\* An audience computed now covers what the host's pages display.
LEMMA ToldNow ==
  ASSUME PageInv, HostInv, NEW h, audience'[h] = Audience(h), subs' = subs, \A p \in subs : SameView(p),
         children' = children
  PROVE  Told(h)'
<1> DEFINE W == Watchers(h)
           shown == WithChildren(h, Displayed(h))
           all == W # {} /\ (Undeclared(h) \/ Cardinality(shown) > ViewCap)
           a == audience'[h]
<1>1. W' = W /\ \A p \in W : page'[p].declared = page[p].declared /\ page'[p].session = page[p].session
  BY WatchersKept DEF Watchers, SameView
<1>2. a.watchers = 0 <=> W = {}
  <2>1. IsFiniteSet(W)
    BY FS_Subset DEF PageInv, Watchers
  <2>2. a.watchers = Cardinality(W)
    BY DEF Audience
  <2> QED BY <2>1, <2>2, FS_EmptySet
<1>3. ASSUME NEW p \in W, ~a.all
      PROVE  /\ page[p].declared /\ {page[p].session} \ {None} \subseteq a.sessions
             /\ WithChildren(h, {page[p].session}) \ {None} \subseteq a.sessions
  <2>1. ~all
    <3>1. CASE all
      <4>1. a.all = all
        BY DEF Audience
      <4> HIDE DEF all, a
      <4> QED BY <1>3, <3>1, <4>1
    <3> QED BY <3>1
  <2>2. a.sessions = shown
    BY <1>3, <2>1 DEF Audience
  <2>3. page[p].declared
    BY <1>3, <2>1 DEF Undeclared
  <2>4. page[p].session # None => page[p].session \in Displayed(h)
    BY <1>3 DEF Displayed
  <2>5. \A d \in children : d[3] # None
    BY PagesAssumption DEF HostInv
  <2> QED BY <2>2, <2>3, <2>4, <2>5 DEF WithChildren
<1>4. \A x : WithChildren(h, {x})' = WithChildren(h, {x})
  BY DEF WithChildren
<1>5. ASSUME NEW p \in W'
      PROVE  \/ a.all
             \/ /\ page'[p].declared
                /\ {page'[p].session} \ {None} \subseteq a.sessions
                /\ WithChildren(h, {page[p].session})' \ {None} \subseteq a.sessions
  BY <1>1, <1>3, <1>4, <1>5
<1> QED BY <1>1, <1>2, <1>5 DEF Told, WithChildren

\* Every step keeps what the hosts were told, or owes them a notification.
LEMMA StreamStep ==
  ASSUME PageInv, HostInv, AckInv, StreamInv, [Next]_vars
  PROVE  StreamInv'
<1>1. ASSUME NEW p \in Sockets, NEW who \in Members \cup Guests, Identify(p, who) PROVE StreamInv'
  <2>1. \A q \in subs : SameView(q)
    BY <1>1 DEF Identify, PageKeeps, PageInv, SameView, Fields
  <2>2. UNCHANGED << subs, audience, spawned, children, attached, owed >>
    BY <1>1 DEF Identify, PageKeeps
  <2> QED BY <2>1, <2>2, ToldKept, SettledKept DEF StreamInv
<1>2. ASSUME NEW p \in Sockets, TakeScope(p) PROVE StreamInv'
  <2>1. \A q \in subs : SameView(q)
    BY <1>2 DEF TakeScope, PageKeeps, PageInv, SameView, Fields
  <2>2. UNCHANGED << subs, audience, spawned, children, attached, owed >>
    BY <1>2 DEF TakeScope, PageKeeps
  <2> QED BY <2>1, <2>2, ToldKept, SettledKept DEF StreamInv
<1>3. ASSUME NEW p \in Sockets, Register(p) PROVE StreamInv'
  BY <1>3 DEF Register, PageKeeps, StreamInv, Settled
<1>4. ASSUME NEW p \in Sockets, Refused(p) PROVE StreamInv'
  <2>1. \A q \in subs : SameView(q)
    BY <1>4 DEF Refused, PageKeeps, PageInv, SameView, Fields
  <2>2. UNCHANGED << subs, audience, spawned, children, attached, owed >>
    BY <1>4 DEF Refused, PageKeeps
  <2> QED BY <2>1, <2>2, ToldKept, SettledKept DEF StreamInv
<1>5. ASSUME NEW p \in Sockets, NEW timer \in BOOLEAN, Leave(p, timer) PROVE StreamInv'
  BY <1>5 DEF Leave, PageKeeps, StreamInv, Settled
<1>6. ASSUME NEW p \in Sockets, NEW who \in {"loop", "reader"}, NotifyAudience(p, who) PROVE StreamInv'
  <2>1. \A q \in subs : SameView(q)
    BY <1>6 DEF NotifyAudience, PageInv, SameView
  <2>2. UNCHANGED << subs, children, attached >> /\ \A h \in attached : audience'[h] = Audience(h)
    BY <1>6 DEF NotifyAudience, HostInv
  <2> QED BY <2>1, <2>2, ToldNow DEF StreamInv
<1>7. ASSUME NEW p \in Sockets, NEW s \in Sessions \cup {None}, Viewing(p, s) PROVE StreamInv'
  BY <1>7 DEF Viewing, ReaderReady, PageKeeps, StreamInv, Settled
<1>8. ASSUME NEW p \in Sockets, NEW h \in Hosts, NEW s \in Sessions \cup {None}, SubscribeFrame(p, h, s) PROVE StreamInv'
  <2>1. \A q \in subs : SameView(q)
    BY <1>8 DEF SubscribeFrame, ReaderReady, PageKeeps, PageInv, SameView, Fields
  <2>2. UNCHANGED << subs, audience, spawned, children, attached, owed >>
    BY <1>8 DEF SubscribeFrame, ReaderReady, PageKeeps
  <2> QED BY <2>1, <2>2, ToldKept, SettledKept DEF StreamInv
<1>9. ASSUME NEW p \in Sockets, StoreTarget(p) PROVE StreamInv'
  <2>1. CASE p \in subs
    BY <1>9, <2>1 DEF StoreTarget, StreamInv, Settled
  <2>2. CASE p \notin subs
    <3>1. \A q \in subs : SameView(q)
      BY <1>9, <2>2 DEF StoreTarget, PageInv, SameView
    <3>2. UNCHANGED << subs, audience, spawned, children, attached, owed >>
      BY <1>9, <2>2 DEF StoreTarget, PageKeeps
    <3> QED BY <3>1, <3>2, ToldKept, SettledKept DEF StreamInv
  <2> QED BY <2>1, <2>2
<1>10. ASSUME NEW p \in Sockets, StoreSession(p) PROVE StreamInv'
  <2>1. CASE p \in subs
    BY <1>10, <2>1 DEF StoreSession, StreamInv, Settled
  <2>2. CASE p \notin subs
    <3>1. \A q \in subs : SameView(q)
      BY <1>10, <2>2 DEF StoreSession, PageInv, SameView
    <3>2. UNCHANGED << subs, audience, spawned, children, attached, owed >>
      BY <1>10, <2>2 DEF StoreSession, PageKeeps
    <3> QED BY <3>1, <3>2, ToldKept, SettledKept DEF StreamInv
  <2> QED BY <2>1, <2>2
<1>11. ASSUME NEW h \in Hosts, Attach(h) PROVE StreamInv'
  <2>1. \A q \in subs : SameView(q)
    BY <1>11 DEF Attach, EditKeeps, SameView
  <2>2. /\ UNCHANGED << subs, children, owed >> /\ audience'[h] = Audience(h) /\ attached' = attached \cup {h}
        /\ \A x \in attached : x # h /\ audience'[x] = audience[x] /\ (x \in spawned => x \in spawned')
    BY <1>11 DEF Attach, EditKeeps, HostInv
  <2>3. Told(h)'
    BY <2>1, <2>2, ToldNow
  <2> QED BY <2>1, <2>2, <2>3, ToldKept, SettledKept DEF StreamInv
<1>12. ASSUME NEW h \in Hosts, Detach(h) PROVE StreamInv'
  <2>1. \A q \in subs : SameView(q)
    BY <1>12 DEF Detach, Edit, EditKeeps, PageInv, SameView, Fields
  <2>2. UNCHANGED << subs, audience, spawned, children, owed >>
    BY <1>12 DEF Detach, Edit, EditKeeps
  <2>3. attached' \subseteq attached
    BY <1>12 DEF Detach
  <2> QED BY <2>1, <2>2, <2>3, ToldKept, SettledKept DEF StreamInv
<1>13. ASSUME NEW h \in Hosts, Unpair(h) PROVE StreamInv'
  <2>1. \A q \in subs : SameView(q)
    BY <1>13 DEF Unpair, Edit, EditKeeps, PageInv, SameView, Fields
  <2>2. UNCHANGED << subs, audience, spawned, children, owed >>
    BY <1>13 DEF Unpair, Edit, EditKeeps
  <2>3. attached' \subseteq attached
    BY <1>13 DEF Unpair
  <2> QED BY <2>1, <2>2, <2>3, ToldKept, SettledKept DEF StreamInv
<1>14. ASSUME NEW h \in Hosts, NEW o \in Members, Pair(h, o) PROVE StreamInv'
  <2>1. \A q \in subs : SameView(q)
    BY <1>14 DEF Pair, EditKeeps, SameView
  <2>2. /\ UNCHANGED << subs, attached, spawned, children, owed >>
        /\ \A x \in attached : x # h /\ audience'[x] = audience[x]
    BY <1>14 DEF Pair, EditKeeps, HostInv
  <2> QED BY <2>1, <2>2, ToldKept, SettledKept DEF StreamInv
<1>15. ASSUME NEW h \in Hosts, NEW c \in Sessions, NEW s \in Sessions, NoteGuestChild(h, c, s) PROVE StreamInv'
  <2>1. \A q \in subs : SameView(q)
    BY <1>15 DEF NoteGuestChild, EditKeeps, SameView
  <2>2. /\ UNCHANGED << subs, attached, audience, owed >> /\ h \in spawned' /\ spawned \subseteq spawned'
        /\ \A x : x # h => \A d : d[1] = x => (d \in children' <=> d \in children)
    BY <1>15 DEF NoteGuestChild, EditKeeps
  <2> QED BY <2>1, <2>2, ToldKept, SettledKept DEF StreamInv
<1>16. ASSUME NEW u \in Users, DeleteUser(u) PROVE StreamInv'
  <2>1. \A q \in subs : SameView(q)
    BY <1>16 DEF DeleteUser, Edit, EditKeeps, PageInv, SameView, Fields
  <2>2. UNCHANGED << subs, audience, spawned, children, attached, owed >>
    BY <1>16 DEF DeleteUser, Edit, EditKeeps
  <2> QED BY <2>1, <2>2, ToldKept, SettledKept DEF StreamInv
<1>17. ASSUME NEW g \in Guests, NEW e \in {0, MaxTime}, NEW t \in {"live", "revoked"},
             UpdateGuestToken(g, e, t) PROVE StreamInv'
  <2>1. \A q \in subs : SameView(q)
    BY <1>17 DEF UpdateGuestToken, Edit, EditKeeps, PageInv, SameView, Fields
  <2>2. UNCHANGED << subs, audience, spawned, children, attached, owed >>
    BY <1>17 DEF UpdateGuestToken, Edit, EditKeeps
  <2> QED BY <2>1, <2>2, ToldKept, SettledKept DEF StreamInv
<1>18. ASSUME NEW g \in Guests, DeleteGuestToken(g) PROVE StreamInv'
  <2>1. \A q \in subs : SameView(q)
    BY <1>18 DEF DeleteGuestToken, Edit, EditKeeps, PageInv, SameView, Fields
  <2>2. UNCHANGED << subs, audience, spawned, children, attached, owed >>
    BY <1>18 DEF DeleteGuestToken, Edit, EditKeeps
  <2> QED BY <2>1, <2>2, ToldKept, SettledKept DEF StreamInv
<1>19. ASSUME NEW g \in Guests, NEW h \in Hosts, NEW s \in Sessions, RemoveGuestSessions(g, h, s) PROVE StreamInv'
  <2>1. \A q \in subs : SameView(q)
    BY <1>19 DEF RemoveGuestSessions, Edit, EditKeeps, PageInv, SameView, Fields
  <2>2. UNCHANGED << subs, audience, spawned, children, attached, owed >>
    BY <1>19 DEF RemoveGuestSessions, Edit, EditKeeps
  <2> QED BY <2>1, <2>2, ToldKept, SettledKept DEF StreamInv
<1>20. ASSUME NEW g \in Guests, NEW h \in Hosts, NEW s \in Sessions, AddGuestSessions(g, h, s) PROVE StreamInv'
  <2>1. \A q \in subs : SameView(q)
    BY <1>20 DEF AddGuestSessions, Edit, EditKeeps, PageInv, SameView, Fields
  <2>2. UNCHANGED << subs, audience, spawned, children, attached, owed >>
    BY <1>20 DEF AddGuestSessions, Edit, EditKeeps
  <2> QED BY <2>1, <2>2, ToldKept, SettledKept DEF StreamInv
<1>21. ASSUME NEW d \in drops, Drop(d) PROVE StreamInv'
  <2>1. \A q \in subs : SameView(q)
    BY <1>21 DEF Drop, PageInv, SameView, Fields
  <2>2. UNCHANGED << subs, audience, spawned, children, attached, owed >>
    BY <1>21 DEF Drop
  <2> QED BY <2>1, <2>2, ToldKept, SettledKept DEF StreamInv
<1>23. ASSUME Tick PROVE StreamInv'
  <2>1. \A q \in subs : SameView(q)
    BY <1>23 DEF Tick, PageInv, SameView, Fields
  <2>2. UNCHANGED << subs, audience, spawned, children, attached, owed >>
    BY <1>23 DEF Tick
  <2> QED BY <2>1, <2>2, ToldKept, SettledKept DEF StreamInv
<1>24. ASSUME NEW p \in Sockets, ReadHosts(p) PROVE StreamInv'
  <2>1. \A q \in subs : SameView(q)
    BY <1>24 DEF ReadHosts, PageKeeps, PageInv, SameView, Fields
  <2>2. UNCHANGED << subs, audience, spawned, children, attached, owed >>
    BY <1>24 DEF ReadHosts, PageKeeps
  <2> QED BY <2>1, <2>2, ToldKept, SettledKept DEF StreamInv
<1>25. ASSUME NEW p \in Sockets, StoreHosts(p) PROVE StreamInv'
  <2>1. CASE p \in subs
    <3>1. page[p].role = "user" /\ subs' = subs
      BY <1>25 DEF StoreHosts, AckInv, AckOK, PageInv
    <3>2. page'[p].role = "user" /\ page'[p].reader = "store"
      BY <1>25, <3>1 DEF StoreHosts, PageInv, Fields
    <3> QED BY <2>1, <3>1, <3>2 DEF StreamInv, Settled
  <2>2. CASE p \notin subs
    <3>1. \A q \in subs : SameView(q)
      BY <1>25, <2>2 DEF StoreHosts, PageInv, SameView
    <3>2. UNCHANGED << subs, audience, spawned, children, attached, owed >>
      BY <1>25 DEF StoreHosts, PageKeeps
    <3> QED BY <3>1, <3>2, ToldKept, SettledKept DEF StreamInv
  <2> QED BY <2>1, <2>2
<1>22. CASE UNCHANGED vars
  <2>1. \A q \in subs : SameView(q)
    BY <1>22 DEF vars, SameView
  <2>2. UNCHANGED << subs, audience, spawned, children, attached, owed >>
    BY <1>22 DEF vars
  <2> QED BY <2>1, <2>2, ToldKept, SettledKept DEF StreamInv
<1> QED
  BY <1>1, <1>2, <1>3, <1>4, <1>5, <1>6, <1>7, <1>8, <1>9, <1>10, <1>11, <1>12, <1>13,
     <1>14, <1>15, <1>16, <1>17, <1>18, <1>19, <1>20, <1>21, <1>22, <1>23, <1>24, <1>25 DEF Next,
     AdminStep, ConnectionStep, ReaderStep

-----------------------------------------------------------------------------
(* The theorems. *)

\* Before anybody connects the invariant holds: nobody watches, and every host
\* has been told so.
LEMMA InitPages == ASSUME Init PROVE PagesInv
<1>1. page = [p \in Sockets |-> Closed] /\ subs = {} /\ users = Users
  BY DEF Init
<1>2. PageInv
  BY <1>1, FS_EmptySet DEF PageInv, Closed, Fields
<1>3. HostInv
  BY PagesAssumption DEF Init, HostInv, Members, Root, None
<1>4. CredentialInv /\ AckInv
  BY <1>1 DEF CredentialInv, AckInv, AckOK, Closed
<1>5. ScopeInv
  BY <1>1 DEF ScopeInv, Closed
<1>6. StreamInv
  <2>1. \A h : Watchers(h) = {}
    BY <1>1 DEF Watchers
  <2>2. \A h \in Hosts : audience[h].watchers = 0
    BY DEF Init, NoAudience
  <2>3. attached = Hosts
    BY DEF Init
  <2> QED BY <2>1, <2>2, <2>3 DEF StreamInv, Told
<1> QED BY <1>2, <1>3, <1>4, <1>5, <1>6 DEF PagesInv

\* The inductive invariant, for all pages.
THEOREM PagesInvariant == Spec => []PagesInv
<1>1. PagesInv /\ [Next]_vars => PagesInv'
  BY PageStep, HostStep, CredentialStep, ScopeStep, AckStep, StreamStep DEF PagesInv
<1> QED BY InitPages, <1>1, PTL DEF Spec

\* A registered page holds a credential that is as it was copied, or is kicked or
\* about to be, or leaves by its own timer: an update of a token that has expired drops
\* nothing, and the pages it leaves are those whose timers are due.  Except one that
\* copied its credential before the drop and registered after.
THEOREM WithdrawalCloses == Spec => []WithdrawnPagesKicked
<1>1. PagesInv => WithdrawnPagesKicked
  BY DEF PagesInv, PageInv, CredentialInv, Good, Unchanged, WithdrawnPagesKicked
<1> QED BY <1>1, PagesInvariant, PTL

\* A page's scope holds only hosts of its owner, whatever is unpaired and paired
\* again by others while its connection and its reader copy the registry.
THEOREM ScopesFollowOwners == Spec => []ScopeFollowsOwnership
<1>1. PagesInv => ScopeFollowsOwnership
  BY DEF PagesInv, PageInv, ScopeInv, Ours, ScopeFollowsOwnership
<1> QED BY <1>1, PagesInvariant, PTL

\* A user whose subscribe frame was acked receives the host it asked for, though the
\* frame is checked, the hosts read, and both stored in steps of their own, unless
\* the host was unpaired between the check and the read.
THEOREM AcksAreServed == Spec => []AckedUserReceives
<1>1. ASSUME PagesInv PROVE AckedUserReceives
  <2> SUFFICES ASSUME NEW p \in subs, page[p].role = "user", page[p].acked # None, <<p, "target">> \notin late
               PROVE  Watches(p, page[p].acked)
    BY DEF AckedUserReceives
  <2>1. p \in Sockets
    BY <1>1 DEF PagesInv, PageInv
  <2>2. page[p].acked \in page[p].scope /\ page[p].filter = page[p].acked
    BY <1>1, <2>1 DEF PagesInv, AckInv, AckOK, Served
  <2> QED BY <2>2 DEF Watches
<1> QED BY <1>1, PagesInvariant, PTL

\* What the pages display is what their hosts upload once the notifications are
\* through, for any number of pages and changes between them.
THEOREM DisplayReachesHosts == Spec => []DisplayedIsStreamed
<1>1. ASSUME PagesInv PROVE DisplayedIsStreamed
  <2> SUFFICES ASSUME Settled, NEW h \in attached
               PROVE  /\ (audience[h].watchers = 0) = (Watchers(h) = {})
                      /\ \A p \in Watchers(h) :
                             \/ audience[h].all
                             \/ /\ page[p].declared
                                /\ {page[p].session} \ {None} \subseteq audience[h].sessions
                                /\ \/ h \in spawned
                                   \/ WithChildren(h, {page[p].session}) \ {None} \subseteq audience[h].sessions
    BY DEF DisplayedIsStreamed
  <2>1. Told(h)
    BY <1>1 DEF PagesInv, StreamInv
  <2>2. (audience[h].watchers = 0) = (Watchers(h) = {})
    BY <2>1 DEF Told
  <2> QED BY <2>1, <2>2 DEF Told
<1> QED BY <1>1, PagesInvariant, PTL

=============================================================================
