--------------------------- MODULE RegistryProofs ---------------------------
(***************************************************************************)
(* Proofs about Registry, for any number of handlers, users, names, codes, *)
(* hosts, tokens and crashes: one token per host, pairing codes used once, *)
(* answered changes durable, no host left behind a deleted account.        *)
(***************************************************************************)
EXTENDS Registry, TLAPS, FiniteSetTheorems, NaturalsInduction, WellFoundedInduction

-----------------------------------------------------------------------------
(***************************************************************************)
(* The inductive invariant, in parts.  Shapes: the records, and who holds  *)
(* the file locks.                                                         *)
(***************************************************************************)

PCs == {"idle", "pair", "persist", "write", "unpairAll", "persistUsers", "writeUsers"}

HandlerShape(h) ==
    /\ DOMAIN h = {"pc", "op", "owner", "code", "name", "todo", "token", "dead", "snap"}
    /\ h.pc \in PCs
    /\ h.token \in 0 .. issued
    /\ h.pc \in {"persistUsers", "writeUsers"} => h.op \in {"create", "delete"}
    /\ h.pc = "unpairAll" => h.op = "delete"
    /\ h.pc = "pair" => h.op = "pair"
    /\ h.pc = "idle" => h.op = "none"
    /\ h.op \in {"create", "delete"} => h.owner \in Users

Shape ==
    /\ DOMAIN proc = Handlers /\ \A p \in Handlers : HandlerShape(proc[p])
    /\ issued \in Nat
    /\ DOMAIN disk = {"hub", "users"} /\ DOMAIN lock = {"hub", "users"}
    /\ DOMAIN acked = {"tokens", "revoked", "created", "deleted"}
    /\ failed \in BOOLEAN

\* persistMu and userPersistMu are held from the snapshot to the end of the write.
Locks ==
    \A p \in Handlers : /\ proc[p].pc = "write" <=> lock.hub = p
                        /\ proc[p].pc = "writeUsers" <=> lock.users = p

TypeInv == Shape /\ Locks

-----------------------------------------------------------------------------
(* A consistent registry: memory, file, and every snapshot on its way to it. *)

Consistent(r) ==
    /\ \A t \in DOMAIN r.tokens : t \in 1 .. issued /\ r.tokens[t] \in DOMAIN r.hosts
    /\ \A id \in DOMAIN r.hosts : \E t \in DOMAIN r.tokens : r.tokens[t] = id
    /\ \A t, u \in DOMAIN r.tokens : r.tokens[t] = r.tokens[u] => t = u

TokenInv ==
    /\ Consistent(HubFile) /\ Consistent(disk.hub)
    /\ \A p \in Handlers : proc[p].pc = "write" => Consistent(proc[p].snap)

-----------------------------------------------------------------------------
(* Codes that can be redeemed have not been. *)

CodeInv ==
    /\ rootCode \in Codes /\ DOMAIN codes \subseteq Codes /\ rootCode \notin DOMAIN codes
    /\ spent \in [Codes -> {0, 1}]
    /\ spent[rootCode] = 0 /\ \A c \in DOMAIN codes : spent[c] = 0

-----------------------------------------------------------------------------
(* What was answered is in memory, in every snapshot, and in the file. *)

AnsweredHosts ==
    /\ acked.tokens \subseteq 1 .. issued /\ acked.revoked \subseteq 1 .. issued
    /\ acked.revoked \cap DOMAIN tokens = {}
    /\ acked.revoked \cap DOMAIN disk.hub.tokens = {}
    /\ \A t \in acked.tokens : t \in DOMAIN tokens => t \in DOMAIN disk.hub.tokens
    /\ \A p \in Handlers :
           /\ proc[p].dead \subseteq 1 .. issued /\ proc[p].dead \cap DOMAIN tokens = {}
           /\ proc[p].pc = "write" =>
                  /\ (proc[p].dead \cup acked.revoked) \cap DOMAIN proc[p].snap.tokens = {}
                  /\ \A t \in acked.tokens \cup {proc[p].token} :
                         t \in DOMAIN tokens => t \in DOMAIN proc[p].snap.tokens

AnsweredUsers ==
    /\ acked.created \cup acked.deleted \subseteq Users
    /\ acked.deleted \cap users = {} /\ acked.deleted \cap disk.users = {}
    /\ \A u \in acked.created : u \in users => u \in disk.users
    /\ \A p \in Handlers :
           /\ proc[p].pc \in {"persistUsers", "writeUsers"} /\ proc[p].op = "delete"
                  => proc[p].owner \notin users
           /\ proc[p].pc = "writeUsers" =>
                  /\ acked.deleted \cap proc[p].snap = {}
                  /\ proc[p].op = "delete" => proc[p].owner \notin proc[p].snap
                  /\ \A u \in acked.created : u \in users => u \in proc[p].snap
                  /\ proc[p].op = "create" /\ proc[p].owner \in users => proc[p].owner \in proc[p].snap

DurableInv == failed \/ (AnsweredHosts /\ AnsweredUsers)

-----------------------------------------------------------------------------
(* The hosts of an account that is being, or has been, deleted. *)

Removing(q) == proc[q].op \in {"unpair", "delete"} /\ proc[q].pc = "persist"

\* The hosts of a file that memory has, with the same owner.
Fresh(h) == \A id \in DOMAIN h : id \in DOMAIN hosts /\ hosts[id] = h[id]

\* A host in the file, or in a snapshot, that memory does not have is one whose
\* removal is still to be written.
FileInv ==
    /\ Fresh(disk.hub.hosts) \/ \E q \in Handlers : Unwritten(q)
    /\ \A p \in Handlers : proc[p].pc = "write" =>
           Fresh(proc[p].snap.hosts) \/ \E q \in Handlers : Removing(q)

Deleting(u) == \E p \in Handlers : /\ proc[p].op = "delete" /\ proc[p].owner = u
                                   /\ proc[p].pc \in {"persistUsers", "writeUsers"}

HostsOf(h, u) == {id \in DOMAIN h : h[id] = u}

NoHostOf(u) ==
    /\ HostsOf(hosts, u) = {} /\ HostsOf(disk.hub.hosts, u) = {}
    /\ \A p \in Handlers : proc[p].pc = "write" => HostsOf(proc[p].snap.hosts, u) = {}

\* The hosts a deletion has still to unpair are the ones its user has.
DeleteInv ==
    \A p \in Handlers : proc[p].op = "delete" /\ proc[p].pc \in {"unpairAll", "persist", "write"}
        => proc[p].owner \in raced \/ HostsOf(hosts, proc[p].owner) \subseteq proc[p].todo

\* Once the account is gone no registry has a host of it.
GoneInv ==
    \A u \in Users : u \in acked.deleted \/ Deleting(u) => u \in raced \/ NoHostOf(u)

OrphanInv == failed \/ (FileInv /\ DeleteInv /\ GoneInv)

\* The host limit, in memory, in the file and in every snapshot: the first free
\* suffix of a name exists.
Within(h) == IsFiniteSet(DOMAIN h) /\ Cardinality(DOMAIN h) <= MaxHosts

LimitInv ==
    /\ Within(hosts) /\ Within(disk.hub.hosts)
    /\ \A p \in Handlers : proc[p].pc = "write" => Within(proc[p].snap.hosts)

-----------------------------------------------------------------------------
\* Every step keeps the shapes and the owners of the file locks.
LEMMA TypeStep ==
  ASSUME TypeInv, [Next]_vars
  PROVE  TypeInv'
<1> USE RegistryAssumption DEF TypeInv, Shape, HandlerShape, Locks, PCs, Set, At, Idle
<1>1. ASSUME NEW p \in Handlers, NEW c \in Codes, NEW n \in Names, OwnerForPairCode(p, c, n) PROVE TypeInv'
  BY <1>1 DEF OwnerForPairCode
<1>2. ASSUME NEW p \in Handlers, PairAs(p) PROVE TypeInv'
  BY <1>2 DEF PairAs
<1>3. ASSUME NEW p \in Handlers, PairRefused(p) PROVE TypeInv'
  BY <1>3 DEF PairRefused
<1>4. ASSUME NEW p \in Handlers, NEW id \in DOMAIN hosts, Unpair(p, id) PROVE TypeInv'
  BY <1>4 DEF Unpair, HandlerKeeps
<1>5. ASSUME NEW p \in Handlers, NEW id \in DOMAIN hosts, RenameHost(p, id) PROVE TypeInv'
  BY <1>5 DEF RenameHost, HandlerKeeps
<1>6. ASSUME NEW p \in Handlers, NEW u \in Users, CreateUser(p, u) PROVE TypeInv'
  BY <1>6 DEF CreateUser, HandlerKeeps
<1>7. ASSUME NEW p \in Handlers, NEW u \in Users, DeleteBegin(p, u) PROVE TypeInv'
  BY <1>7 DEF DeleteBegin, HandlerKeeps
<1>8. ASSUME NEW p \in Handlers, NEW id \in proc[p].todo, DeleteUnpair(p, id) PROVE TypeInv'
  <2>1. CASE id \in DOMAIN hosts
    <3>1. proc' = [proc EXCEPT ![p] = [proc[p] EXCEPT !.pc = "persist", !.todo = proc[p].todo \ {id},
                                                     !.dead = proc[p].dead \cup TokensOf(id)]]
          /\ UNCHANGED << disk, lock, acked, failed, issued >>
      BY <1>8, <2>1 DEF DeleteUnpair, HandlerKeeps
    <3> QED BY <1>8, <3>1 DEF DeleteUnpair
  <2>2. CASE id \notin DOMAIN hosts
    BY <1>8, <2>2 DEF DeleteUnpair, HandlerKeeps
  <2> QED BY <2>1, <2>2
<1>9. ASSUME NEW p \in Handlers, DeleteUser(p) PROVE TypeInv'
  BY <1>9 DEF DeleteUser
<1>10. ASSUME NEW p \in Handlers, Persist(p) PROVE TypeInv'
  <2>1. Shape'
    BY <1>10 DEF Persist, MayPersist, HandlerKeeps
  <2>2. Locks'
    BY <1>10 DEF Persist, MayPersist, HandlerKeeps
  <2> QED BY <2>1, <2>2
<1>11. ASSUME NEW p \in Handlers, Write(p) PROVE TypeInv'
  <2>1. \A q \in Handlers : HandlerShape(proc'[q])
    <3>1. HandlerShape(Answered(p))
      BY <1>11 DEF Write, Answered
    <3> QED BY <1>11, <3>1 DEF Write
  <2>2. issued' = issued /\ DOMAIN proc' = Handlers
    BY <1>11 DEF Write, HandlerKeeps
  <2>3. DOMAIN disk' = DOMAIN disk /\ DOMAIN lock' = DOMAIN lock /\ DOMAIN acked' = DOMAIN acked
        /\ failed' \in BOOLEAN
    BY <1>11 DEF Write
  <2>4. Locks'
    BY <1>11 DEF Write, Answered, HandlerKeeps
  <2> QED BY <2>1, <2>2, <2>3, <2>4
<1>12. ASSUME NEW p \in Handlers, PersistUsers(p) PROVE TypeInv'
  BY <1>12 DEF PersistUsers, HandlerKeeps
<1>13. ASSUME NEW p \in Handlers, WriteUsers(p) PROVE TypeInv'
  <2>1. \A q \in Handlers : HandlerShape(proc'[q])
    BY <1>13 DEF WriteUsers
  <2>2. issued' = issued /\ DOMAIN proc' = Handlers
    BY <1>13 DEF WriteUsers, HandlerKeeps
  <2>3. DOMAIN disk' = DOMAIN disk /\ DOMAIN lock' = DOMAIN lock /\ failed' \in BOOLEAN
    BY <1>13 DEF WriteUsers
  <2>4. DOMAIN acked' = DOMAIN acked
    BY <1>13 DEF WriteUsers
  <2>5. Locks'
    BY <1>13 DEF WriteUsers, HandlerKeeps
  <2> QED BY <2>1, <2>2, <2>3, <2>4, <2>5
<1>14. ASSUME RotatePairingCode PROVE TypeInv'
  BY <1>14 DEF RotatePairingCode, CodeKeeps
<1>15. ASSUME Crash PROVE TypeInv'
  BY <1>15 DEF Crash
<1>16. ASSUME NEW u \in Users, UserPairingCode(u) PROVE TypeInv'
  BY <1>16 DEF UserPairingCode, CodeKeeps
<1>17. ASSUME NEW u \in Users, RotateUserPairingCode(u) PROVE TypeInv'
  BY <1>17 DEF RotateUserPairingCode, CodeKeeps
<1>18. ASSUME NEW c \in Codes, Expire(c) PROVE TypeInv'
  BY <1>18 DEF Expire, CodeKeeps
<1>19. CASE UNCHANGED vars
  BY <1>19 DEF vars
<1> QED
  BY <1>1, <1>2, <1>3, <1>4, <1>5, <1>6, <1>7, <1>8, <1>9, <1>10, <1>11, <1>12, <1>13,
     <1>14, <1>15, <1>16, <1>17, <1>18, <1>19 DEF Next, HandlerStep

\* A handler that goes on keeps the fields it does not set, and no step of one
\* handler touches another.
LEMMA PersistEffect ==
  ASSUME TypeInv, NEW p \in Handlers, Persist(p)
  PROVE  /\ \A q \in Handlers : q # p => proc'[q] = proc[q]
         /\ proc'[p].pc = "write" /\ proc'[p].snap = HubFile
         /\ proc'[p].op = proc[p].op /\ proc'[p].owner = proc[p].owner /\ proc'[p].todo = proc[p].todo
         /\ proc'[p].token = proc[p].token /\ proc'[p].dead = proc[p].dead
  BY DEF TypeInv, Shape, HandlerShape, Persist, Set

\* The same of the answer to a written change: a deletion goes on with its other
\* hosts, every other handler is done.
LEMMA WriteEffect ==
  ASSUME TypeInv, NEW p \in Handlers, Write(p)
  PROVE  /\ \A q \in Handlers : q # p => proc'[q] = proc[q]
         /\ proc[p].op # "delete" => proc'[p] = Idle
         /\ proc[p].op = "delete" =>
                /\ proc'[p].pc = "unpairAll" /\ proc'[p].op = "delete" /\ proc'[p].dead = proc[p].dead
                /\ proc'[p].owner = proc[p].owner /\ proc'[p].todo = proc[p].todo
  BY DEF TypeInv, Shape, HandlerShape, Write, Answered, Set

\* The same of a deletion's next host: unpaired in memory, or skipped.
LEMMA DeleteUnpairEffect ==
  ASSUME TypeInv, NEW p \in Handlers, NEW id \in proc[p].todo, DeleteUnpair(p, id)
  PROVE  /\ \A q \in Handlers : q # p => proc'[q] = proc[q]
         /\ proc[p].pc = "unpairAll" /\ proc'[p].op = "delete"
         /\ proc'[p].owner = proc[p].owner /\ proc'[p].todo = proc[p].todo \ {id}
         /\ \/ /\ id \in DOMAIN hosts /\ RemoveHost(id)
               /\ proc'[p].pc = "persist" /\ proc'[p].dead = proc[p].dead \cup TokensOf(id)
            \/ /\ id \notin DOMAIN hosts /\ hosts' = hosts /\ tokens' = tokens
               /\ proc'[p].pc = "unpairAll" /\ proc'[p].dead = proc[p].dead
<1> USE DEF TypeInv, Shape, HandlerShape, DeleteUnpair, Set, At
<1>1. CASE id \in DOMAIN hosts
  <2> DEFINE D == proc[p].dead \cup TokensOf(id)
  <2>1. proc' = [proc EXCEPT ![p] = [proc[p] EXCEPT !.pc = "persist", !.todo = proc[p].todo \ {id}, !.dead = D]]
    BY <1>1
  <2> HIDE DEF D
  <2>2. proc'[p] = [proc[p] EXCEPT !.pc = "persist", !.todo = proc[p].todo \ {id}, !.dead = D]
        /\ \A q \in Handlers : q # p => proc'[q] = proc[q]
    BY <2>1
  <2>3. /\ proc'[p].op = proc[p].op /\ proc'[p].owner = proc[p].owner
        /\ proc'[p].pc = "persist" /\ proc'[p].todo = proc[p].todo \ {id} /\ proc'[p].dead = D
    BY <2>2
  <2>4. RemoveHost(id) /\ proc[p].pc = "unpairAll" /\ proc[p].op = "delete"
    BY <1>1
  <2> QED BY <1>1, <2>2, <2>3, <2>4 DEF D
<1>2. CASE id \notin DOMAIN hosts
  BY <1>2
<1> QED BY <1>1, <1>2

\* Every step keeps memory, the file and the snapshots consistent: a pairing
\* revokes the tokens of the host it gives one to, an unpairing drops both.
LEMMA TokenStep ==
  ASSUME TypeInv, TokenInv, [Next]_vars
  PROVE  TokenInv'
<1> USE DEF TypeInv, Shape, HandlerShape, PCs, TokenInv, Consistent, HubFile, Set, At, Idle
<1>1. ASSUME NEW p \in Handlers, NEW c \in Codes, NEW n \in Names, OwnerForPairCode(p, c, n) PROVE TokenInv'
  BY <1>1 DEF OwnerForPairCode
<1>2. ASSUME NEW p \in Handlers, PairAs(p) PROVE TokenInv'
  <2> DEFINE o == proc[p].owner
             id == ResolveHostID(o, proc[p].name)
             t == issued + 1
  <2>1. hosts' = With(hosts, id, o) /\ issued' = t /\ t \in Nat \ {0}
        /\ tokens' = With(Restrict(tokens, DOMAIN tokens \ TokensOf(id)), t, id)
    BY <1>2 DEF PairAs, Revoked
  <2> HIDE DEF id
  <2>2. Consistent(HubFile)'
    BY <2>1 DEF With, Restrict, TokensOf
  <2>3. disk' = disk /\ \A q \in Handlers : proc'[q].pc = "write" => proc[q].pc = "write" /\ proc'[q].snap = proc[q].snap
    BY <1>2 DEF PairAs
  <2>4. 1 .. issued \subseteq 1 .. issued'
    BY <2>1
  <2> QED BY <2>2, <2>3, <2>4
<1>3. ASSUME NEW p \in Handlers, PairRefused(p) PROVE TokenInv'
  BY <1>3 DEF PairRefused
<1>4. ASSUME NEW p \in Handlers, NEW id \in DOMAIN hosts, Unpair(p, id) PROVE TokenInv'
  <2>1. issued' = issued /\ disk' = disk
        /\ \A q \in Handlers : proc'[q].pc = "write" => proc[q].pc = "write" /\ proc'[q].snap = proc[q].snap
    BY <1>4 DEF Unpair, HandlerKeeps
  <2>2. Consistent(HubFile)'
    BY <1>4 DEF Unpair, HandlerKeeps, RemoveHost, Restrict, TokensOf
  <2> QED BY <2>1, <2>2
<1>5. ASSUME NEW p \in Handlers, NEW id \in DOMAIN hosts, RenameHost(p, id) PROVE TokenInv'
  BY <1>5 DEF RenameHost, HandlerKeeps
<1>6. ASSUME NEW p \in Handlers, NEW u \in Users, CreateUser(p, u) PROVE TokenInv'
  BY <1>6 DEF CreateUser, HandlerKeeps
<1>7. ASSUME NEW p \in Handlers, NEW u \in Users, DeleteBegin(p, u) PROVE TokenInv'
  BY <1>7 DEF DeleteBegin, HandlerKeeps
<1>8. ASSUME NEW p \in Handlers, NEW id \in proc[p].todo, DeleteUnpair(p, id) PROVE TokenInv'
  <2>1. issued' = issued /\ disk' = disk
    BY <1>8 DEF DeleteUnpair, HandlerKeeps
  <2>2. \A q \in Handlers : proc'[q].pc = "write" => proc[q].pc = "write" /\ proc'[q].snap = proc[q].snap
    BY <1>8, DeleteUnpairEffect
  <2>3. Consistent(HubFile)'
    <3>1. CASE id \in DOMAIN hosts
      BY <1>8, <2>1, <3>1 DEF DeleteUnpair, RemoveHost, Restrict, TokensOf
    <3>2. CASE id \notin DOMAIN hosts
      BY <1>8, <2>1, <3>2 DEF DeleteUnpair
    <3> QED BY <3>1, <3>2
  <2> QED BY <2>1, <2>2, <2>3
<1>9. ASSUME NEW p \in Handlers, DeleteUser(p) PROVE TokenInv'
  BY <1>9 DEF DeleteUser
<1>10. ASSUME NEW p \in Handlers, Persist(p) PROVE TokenInv'
  BY <1>10 DEF Persist, MayPersist, HandlerKeeps
<1>11. ASSUME NEW p \in Handlers, Write(p) PROVE TokenInv'
  <2>1. hosts' = hosts /\ tokens' = tokens /\ issued' = issued
    BY <1>11 DEF Write, Answered, HandlerKeeps
  <2>2. disk'.hub \in {disk.hub, proc[p].snap}
    BY <1>11 DEF Write
  <2>3. \A q \in Handlers : proc'[q].pc = "write" => proc[q].pc = "write" /\ proc'[q].snap = proc[q].snap
    BY <1>11 DEF Write, Answered
  <2>4. At(p, "write")
    BY <1>11 DEF Write
  <2> QED BY <2>1, <2>2, <2>3, <2>4
<1>12. ASSUME NEW p \in Handlers, PersistUsers(p) PROVE TokenInv'
  BY <1>12 DEF PersistUsers, HandlerKeeps
<1>13. ASSUME NEW p \in Handlers, WriteUsers(p) PROVE TokenInv'
  <2>1. hosts' = hosts /\ tokens' = tokens /\ issued' = issued
    BY <1>13 DEF WriteUsers, HandlerKeeps
  <2>2. disk'.hub = disk.hub
    BY <1>13 DEF WriteUsers
  <2>3. \A q \in Handlers : proc'[q].pc = "write" => proc[q].pc = "write" /\ proc'[q].snap = proc[q].snap
    BY <1>13 DEF WriteUsers
  <2> QED BY <2>1, <2>2, <2>3
<1>14. ASSUME RotatePairingCode PROVE TokenInv'
  BY <1>14 DEF RotatePairingCode, CodeKeeps
<1>15. ASSUME Crash PROVE TokenInv'
  BY <1>15 DEF Crash
<1>16. ASSUME NEW u \in Users, UserPairingCode(u) PROVE TokenInv'
  BY <1>16 DEF UserPairingCode, CodeKeeps
<1>17. ASSUME NEW u \in Users, RotateUserPairingCode(u) PROVE TokenInv'
  BY <1>17 DEF RotateUserPairingCode, CodeKeeps
<1>18. ASSUME NEW c \in Codes, Expire(c) PROVE TokenInv'
  BY <1>18 DEF Expire, CodeKeeps
<1>19. CASE UNCHANGED vars
  BY <1>19 DEF vars
<1> QED
  BY <1>1, <1>2, <1>3, <1>4, <1>5, <1>6, <1>7, <1>8, <1>9, <1>10, <1>11, <1>12, <1>13,
     <1>14, <1>15, <1>16, <1>17, <1>18, <1>19 DEF Next, HandlerStep

\* Rotating the root code: the old one may have paid once, the new one has not.
LEMMA RotateRootKeepsCodes ==
  ASSUME CodeInv, NEW n \in {0, 1}, RotateRoot(n), codes' = codes \/ codes' = Empty
  PROVE  CodeInv'
<1>1. PICK c \in Codes : /\ FreshRoot(c) /\ rootCode' = c
                         /\ spent' = [spent EXCEPT ![rootCode] = @ + n, ![c] = 0]
  BY DEF RotateRoot
<1>2. spent' \in [Codes -> {0, 1}] /\ spent'[c] = 0
      /\ \A d \in Codes : d # rootCode => spent'[d] \in {spent[d], 0}
  BY <1>1 DEF CodeInv
<1>3. DOMAIN codes' \subseteq DOMAIN codes
  BY DEF Empty
<1> QED BY <1>1, <1>2, <1>3 DEF CodeInv, FreshRoot

\* A new user code: it is nobody's, and it has not paid.
LEMMA NewUserCodeKeepsCodes ==
  ASSUME CodeInv, NEW u, NEW old, NewUserCode(u, old), DOMAIN old \subseteq DOMAIN codes, rootCode' = rootCode
  PROVE  CodeInv'
<1>1. PICK c \in Codes \ ({rootCode} \cup DOMAIN old) :
          /\ codes' = With(old, c, [owner |-> u, expired |-> FALSE]) /\ spent' = [spent EXCEPT ![c] = 0]
  BY DEF NewUserCode
<1>2. DOMAIN codes' = DOMAIN old \cup {c}
  BY <1>1 DEF With
<1> QED BY <1>1, <1>2 DEF CodeInv

\* Every step leaves the codes that can be redeemed unspent.
LEMMA CodeStep ==
  ASSUME CodeInv, [Next]_vars
  PROVE  CodeInv'
<1>1. ASSUME NEW p \in Handlers, NEW c \in Codes, NEW n \in Names, OwnerForPairCode(p, c, n) PROVE CodeInv'
  BY <1>1 DEF OwnerForPairCode, CodeInv
<1>2. ASSUME NEW p \in Handlers, PairAs(p) PROVE CodeInv'
  <2> DEFINE o == proc[p].owner
             c == proc[p].code
  <2>1. CodeValid(o, c) /\ Consume(o, c)
    BY <1>2 DEF PairAs
  <2>2. CASE o = Root
    BY <2>1, <2>2, RotateRootKeepsCodes DEF Consume
  <2>3. CASE o # Root
    BY <2>1, <2>3 DEF CodeInv, CodeValid, Consume, Restrict
  <2> QED BY <2>2, <2>3
<1>3. ASSUME NEW p \in Handlers, PairRefused(p) PROVE CodeInv'
  BY <1>3 DEF PairRefused, CodeInv
<1>4. ASSUME NEW p \in Handlers, NEW id \in DOMAIN hosts, Unpair(p, id) PROVE CodeInv'
  BY <1>4 DEF Unpair, HandlerKeeps, CodeInv
<1>5. ASSUME NEW p \in Handlers, NEW id \in DOMAIN hosts, RenameHost(p, id) PROVE CodeInv'
  BY <1>5 DEF RenameHost, HandlerKeeps, CodeInv
<1>6. ASSUME NEW p \in Handlers, NEW u \in Users, CreateUser(p, u) PROVE CodeInv'
  BY <1>6 DEF CreateUser, HandlerKeeps, CodeInv
<1>7. ASSUME NEW p \in Handlers, NEW u \in Users, DeleteBegin(p, u) PROVE CodeInv'
  BY <1>7 DEF DeleteBegin, HandlerKeeps, CodeInv
<1>8. ASSUME NEW p \in Handlers, NEW id \in proc[p].todo, DeleteUnpair(p, id) PROVE CodeInv'
  BY <1>8 DEF DeleteUnpair, HandlerKeeps, CodeInv
<1>9. ASSUME NEW p \in Handlers, DeleteUser(p) PROVE CodeInv'
  <2>1. rootCode' = rootCode /\ spent' = spent
    BY <1>9 DEF DeleteUser
  <2>2. DOMAIN codes' \subseteq DOMAIN codes
    <3>1. CASE proc[p].owner \in users
      BY <1>9, <3>1 DEF DeleteUser, Restrict
    <3>2. CASE proc[p].owner \notin users
      BY <1>9, <3>2 DEF DeleteUser
    <3> QED BY <3>1, <3>2
  <2> QED BY <2>1, <2>2 DEF CodeInv
<1>10. ASSUME NEW p \in Handlers, Persist(p) PROVE CodeInv'
  BY <1>10 DEF Persist, MayPersist, HandlerKeeps, CodeInv
<1>11. ASSUME NEW p \in Handlers, Write(p) PROVE CodeInv'
  BY <1>11 DEF Write, Answered, HandlerKeeps, CodeInv
<1>12. ASSUME NEW p \in Handlers, PersistUsers(p) PROVE CodeInv'
  BY <1>12 DEF PersistUsers, HandlerKeeps, CodeInv
<1>13. ASSUME NEW p \in Handlers, WriteUsers(p) PROVE CodeInv'
  BY <1>13 DEF WriteUsers, HandlerKeeps, CodeInv
<1>14. ASSUME RotatePairingCode PROVE CodeInv'
  BY <1>14, RotateRootKeepsCodes DEF RotatePairingCode, CodeKeeps
<1>15. ASSUME Crash PROVE CodeInv'
  BY <1>15, RotateRootKeepsCodes DEF Crash
<1>16. ASSUME NEW u \in Users, UserPairingCode(u) PROVE CodeInv'
  BY <1>16, NewUserCodeKeepsCodes DEF UserPairingCode, CodeKeeps
<1>17. ASSUME NEW u \in Users, RotateUserPairingCode(u) PROVE CodeInv'
  <2> DEFINE old == IF u \in DOMAIN codeOf THEN Restrict(codes, DOMAIN codes \ {codeOf[u]}) ELSE codes
  <2>1. NewUserCode(u, old) /\ rootCode' = rootCode
    BY <1>17 DEF RotateUserPairingCode, CodeKeeps
  <2>2. DOMAIN old \subseteq DOMAIN codes
    BY DEF Restrict
  <2> QED BY <2>1, <2>2, NewUserCodeKeepsCodes
<1>18. ASSUME NEW c \in Codes, Expire(c) PROVE CodeInv'
  BY <1>18 DEF Expire, CodeKeeps, CodeInv
<1>19. CASE UNCHANGED vars
  BY <1>19 DEF vars, CodeInv
<1> QED
  BY <1>1, <1>2, <1>3, <1>4, <1>5, <1>6, <1>7, <1>8, <1>9, <1>10, <1>11, <1>12, <1>13,
     <1>14, <1>15, <1>16, <1>17, <1>18, <1>19 DEF Next, HandlerStep

\* Every step that is not a failed write keeps what was answered of tokens.
LEMMA AnsweredHostsStep ==
  ASSUME TypeInv, TokenInv, AnsweredHosts, failed' = FALSE, [Next]_vars
  PROVE  AnsweredHosts'
<1> USE DEF TypeInv, Shape, HandlerShape, PCs, AnsweredHosts, Set, At, Idle
<1>1. ASSUME NEW p \in Handlers, NEW c \in Codes, NEW n \in Names, OwnerForPairCode(p, c, n) PROVE AnsweredHosts'
  BY <1>1 DEF OwnerForPairCode
<1>2. ASSUME NEW p \in Handlers, PairAs(p) PROVE AnsweredHosts'
  <2> DEFINE o == proc[p].owner
             id == ResolveHostID(o, proc[p].name)
             t == issued + 1
  <2>1. issued' = t /\ tokens' = With(Restrict(tokens, DOMAIN tokens \ TokensOf(id)), t, id)
        /\ acked' = acked /\ disk' = disk
        /\ proc' = [proc EXCEPT ![p] = [proc[p] EXCEPT !.pc = "persist", !.token = t, !.dead = TokensOf(id)]]
    BY <1>2 DEF PairAs, Revoked
  <2> HIDE DEF id
  <2>2. DOMAIN tokens' = (DOMAIN tokens \ TokensOf(id)) \cup {t}
    BY <2>1 DEF With, Restrict
  <2>3. TokensOf(id) \subseteq DOMAIN tokens /\ DOMAIN tokens \subseteq 1 .. issued
    BY DEF TokensOf, TokenInv, Consistent, HubFile
  <2>4. 1 .. issued \subseteq 1 .. t /\ t \notin 1 .. issued
    OBVIOUS
  <2>5. /\ \A q \in Handlers : q # p => proc'[q] = proc[q]
        /\ proc'[p].pc = "persist" /\ proc'[p].dead = TokensOf(id)
    BY <2>1
  <2> HIDE DEF t
  <2>6. acked.tokens \subseteq 1 .. t /\ acked.revoked \subseteq 1 .. t
        /\ acked.revoked \cap DOMAIN tokens' = {}
    BY <2>2, <2>3, <2>4
  <2>7. ASSUME NEW q \in Handlers
        PROVE  proc'[q].dead \subseteq 1 .. t /\ proc'[q].dead \cap DOMAIN tokens' = {}
    BY <2>2, <2>3, <2>4, <2>5
  <2>8. ASSUME NEW q \in Handlers, proc'[q].pc = "write"
        PROVE  /\ proc'[q] = proc[q] /\ proc[q].pc = "write"
               /\ \A x \in acked.tokens \cup {proc[q].token} : x \in DOMAIN tokens' => x \in DOMAIN tokens
    <3>1. q # p /\ proc'[q] = proc[q]
      BY <2>5, <2>8
    <3>2. t \notin acked.tokens \cup {proc[q].token}
      <4>1. proc[q].token \in 0 .. issued
        OBVIOUS
      <4>2. proc[q].token # t
        BY <4>1 DEF t
      <4> QED BY <2>4, <4>2
    <3> QED BY <2>2, <2>8, <3>1, <3>2
  <2>9. \A x \in acked.tokens : x \in DOMAIN tokens' => x \in DOMAIN disk.hub.tokens
    BY <2>2, <2>4
  <2>10. issued' = t /\ acked' = acked /\ disk' = disk
    BY <2>1
  <2> QED BY <2>6, <2>7, <2>8, <2>9, <2>10
<1>3. ASSUME NEW p \in Handlers, PairRefused(p) PROVE AnsweredHosts'
  BY <1>3 DEF PairRefused
<1>4. ASSUME NEW p \in Handlers, NEW id \in DOMAIN hosts, Unpair(p, id) PROVE AnsweredHosts'
  <2>1. issued' = issued /\ disk' = disk /\ acked' = acked
    BY <1>4 DEF Unpair, HandlerKeeps
  <2>2. DOMAIN tokens' = DOMAIN tokens \ TokensOf(id)
    BY <1>4 DEF Unpair, RemoveHost, Restrict
  <2>3. TokensOf(id) \subseteq DOMAIN tokens /\ DOMAIN tokens \subseteq 1 .. issued
    BY DEF TokensOf, TokenInv, Consistent, HubFile
  <2>4. /\ \A q \in Handlers : q # p => proc'[q] = proc[q]
        /\ proc'[p].pc = "persist" /\ proc'[p].dead = TokensOf(id)
    BY <1>4 DEF Unpair
  <2> QED BY <2>1, <2>2, <2>3, <2>4
<1>5. ASSUME NEW p \in Handlers, NEW id \in DOMAIN hosts, RenameHost(p, id) PROVE AnsweredHosts'
  BY <1>5 DEF RenameHost, HandlerKeeps
<1>6. ASSUME NEW p \in Handlers, NEW u \in Users, CreateUser(p, u) PROVE AnsweredHosts'
  BY <1>6 DEF CreateUser, HandlerKeeps
<1>7. ASSUME NEW p \in Handlers, NEW u \in Users, DeleteBegin(p, u) PROVE AnsweredHosts'
  BY <1>7 DEF DeleteBegin, HandlerKeeps
<1>8. ASSUME NEW p \in Handlers, NEW id \in proc[p].todo, DeleteUnpair(p, id) PROVE AnsweredHosts'
  <2>1. issued' = issued /\ disk' = disk /\ acked' = acked
    BY <1>8 DEF DeleteUnpair, HandlerKeeps
  <2>2. TokensOf(id) \subseteq DOMAIN tokens /\ DOMAIN tokens \subseteq 1 .. issued
    BY DEF TokensOf, TokenInv, Consistent, HubFile
  <2>3. /\ \A q \in Handlers : q # p => proc'[q] = proc[q]
        /\ proc'[p].pc # "write"
        /\ \/ DOMAIN tokens' = DOMAIN tokens \ TokensOf(id) /\ proc'[p].dead = proc[p].dead \cup TokensOf(id)
           \/ DOMAIN tokens' = DOMAIN tokens /\ proc'[p].dead = proc[p].dead
    BY <1>8, DeleteUnpairEffect DEF RemoveHost, Restrict
  <2> QED BY <2>1, <2>2, <2>3
<1>9. ASSUME NEW p \in Handlers, DeleteUser(p) PROVE AnsweredHosts'
  <2>1. UNCHANGED << tokens, issued, disk, acked >>
    BY <1>9 DEF DeleteUser
  <2>2. /\ \A q \in Handlers : q # p => proc'[q] = proc[q]
        /\ proc'[p].pc # "write" /\ proc'[p].dead \in {{}, proc[p].dead}
    BY <1>9 DEF DeleteUser
  <2> QED BY <2>1, <2>2
<1>10. ASSUME NEW p \in Handlers, Persist(p) PROVE AnsweredHosts'
  <2>1. UNCHANGED << tokens, issued, disk, acked >>
    BY <1>10 DEF Persist, MayPersist, HandlerKeeps
  <2>2. /\ \A q \in Handlers : q # p => proc'[q] = proc[q]
        /\ proc'[p].dead = proc[p].dead /\ proc'[p].snap.tokens = tokens
    BY <1>10, PersistEffect DEF HubFile
  <2> QED BY <2>1, <2>2
<1>11. ASSUME NEW p \in Handlers, Write(p) PROVE AnsweredHosts'
  <2>1. UNCHANGED << tokens, issued >> /\ disk' = [disk EXCEPT !.hub = proc[p].snap] /\ proc[p].pc = "write"
    BY <1>11 DEF Write, Answered, HandlerKeeps
  <2>5. disk'.hub = proc[p].snap
    BY <2>1
  <2>2. /\ acked'.tokens = acked.tokens \cup ({proc[p].token} \ {0})
        /\ acked'.revoked = acked.revoked \cup proc[p].dead
    BY <1>11 DEF Write, Answered, HandlerKeeps
  <2>3. /\ \A q \in Handlers : q # p => proc'[q] = proc[q] /\ proc[q].pc # "write"
        /\ proc'[p].pc # "write" /\ proc'[p].dead \in {{}, proc[p].dead}
    <3>1. \A q \in Handlers : q # p => proc[q].pc # "write"
      BY <2>1 DEF Locks
    <3>2. proc'[p] = Idle \/ (proc'[p].pc = "unpairAll" /\ proc'[p].dead = proc[p].dead)
      BY <1>11, WriteEffect
    <3> QED BY <1>11, WriteEffect, <3>1, <3>2
  <2>4. {proc[p].token} \ {0} \subseteq 1 .. issued
    OBVIOUS
  <2> QED BY <2>1, <2>2, <2>3, <2>4, <2>5
<1>12. ASSUME NEW p \in Handlers, PersistUsers(p) PROVE AnsweredHosts'
  <2>1. UNCHANGED << tokens, issued, disk, acked >>
    BY <1>12 DEF PersistUsers, HandlerKeeps
  <2>2. /\ \A q \in Handlers : q # p => proc'[q] = proc[q]
        /\ proc'[p].pc # "write" /\ proc'[p].dead = proc[p].dead
    BY <1>12 DEF PersistUsers, HandlerKeeps
  <2> QED BY <2>1, <2>2
<1>13. ASSUME NEW p \in Handlers, WriteUsers(p) PROVE AnsweredHosts'
  <2>1. UNCHANGED << tokens, issued >> /\ disk'.hub = disk.hub
    BY <1>13 DEF WriteUsers, HandlerKeeps
  <2>2. acked'.tokens = acked.tokens /\ acked'.revoked = acked.revoked
    <3>1. CASE proc[p].op = "create"
      BY <1>13, <3>1 DEF WriteUsers
    <3>2. CASE proc[p].op # "create"
      BY <1>13, <3>2 DEF WriteUsers
    <3> QED BY <3>1, <3>2
  <2>3. /\ \A q \in Handlers : q # p => proc'[q] = proc[q]
        /\ proc'[p].pc # "write" /\ proc'[p].dead = {}
    BY <1>13 DEF WriteUsers
  <2> QED BY <2>1, <2>2, <2>3
<1>14. ASSUME RotatePairingCode PROVE AnsweredHosts'
  BY <1>14 DEF RotatePairingCode, CodeKeeps
<1>15. ASSUME Crash PROVE AnsweredHosts'
  BY <1>15 DEF Crash
<1>16. ASSUME NEW u \in Users, UserPairingCode(u) PROVE AnsweredHosts'
  BY <1>16 DEF UserPairingCode, CodeKeeps
<1>17. ASSUME NEW u \in Users, RotateUserPairingCode(u) PROVE AnsweredHosts'
  BY <1>17 DEF RotateUserPairingCode, CodeKeeps
<1>18. ASSUME NEW c \in Codes, Expire(c) PROVE AnsweredHosts'
  BY <1>18 DEF Expire, CodeKeeps
<1>19. CASE UNCHANGED vars
  BY <1>19 DEF vars
<1> QED
  BY <1>1, <1>2, <1>3, <1>4, <1>5, <1>6, <1>7, <1>8, <1>9, <1>10, <1>11, <1>12, <1>13,
     <1>14, <1>15, <1>16, <1>17, <1>18, <1>19 DEF Next, HandlerStep

\* Every step that is not a failed write keeps what was answered of accounts.
LEMMA AnsweredUsersStep ==
  ASSUME TypeInv, AnsweredUsers, failed' = FALSE, [Next]_vars
  PROVE  AnsweredUsers'
<1> USE DEF TypeInv, Shape, HandlerShape, PCs, AnsweredUsers, Set, At, Idle
<1>1. ASSUME NEW p \in Handlers, NEW c \in Codes, NEW n \in Names, OwnerForPairCode(p, c, n) PROVE AnsweredUsers'
  BY <1>1 DEF OwnerForPairCode
<1>2. ASSUME NEW p \in Handlers, PairAs(p) PROVE AnsweredUsers'
  <2>1. UNCHANGED << users, disk, acked >>
    BY <1>2 DEF PairAs
  <2>2. /\ \A q \in Handlers : q # p => proc'[q] = proc[q]
        /\ proc'[p].pc \notin {"persistUsers", "writeUsers"}
    BY <1>2 DEF PairAs
  <2> QED BY <2>1, <2>2
<1>3. ASSUME NEW p \in Handlers, PairRefused(p) PROVE AnsweredUsers'
  BY <1>3 DEF PairRefused
<1>4. ASSUME NEW p \in Handlers, NEW id \in DOMAIN hosts, Unpair(p, id) PROVE AnsweredUsers'
  <2>1. UNCHANGED << users, disk, acked >>
    BY <1>4 DEF Unpair, HandlerKeeps
  <2>2. /\ \A q \in Handlers : q # p => proc'[q] = proc[q]
        /\ proc'[p].pc \notin {"persistUsers", "writeUsers"}
    BY <1>4 DEF Unpair, HandlerKeeps
  <2> QED BY <2>1, <2>2
<1>5. ASSUME NEW p \in Handlers, NEW id \in DOMAIN hosts, RenameHost(p, id) PROVE AnsweredUsers'
  BY <1>5 DEF RenameHost, HandlerKeeps
<1>6. ASSUME NEW p \in Handlers, NEW u \in Users, CreateUser(p, u) PROVE AnsweredUsers'
  <2>1. users' = users \cup {u} /\ UNCHANGED << disk, acked >> /\ u \notin acked.created \cup acked.deleted
    BY <1>6 DEF CreateUser, HandlerKeeps
  <2>2. /\ \A q \in Handlers : q # p => proc'[q] = proc[q] /\ proc[q].owner # u
        /\ proc'[p].pc = "persistUsers" /\ proc'[p].op = "create"
    BY <1>6 DEF CreateUser, HandlerKeeps
  <2> QED BY <2>1, <2>2
<1>7. ASSUME NEW p \in Handlers, NEW u \in Users, DeleteBegin(p, u) PROVE AnsweredUsers'
  BY <1>7 DEF DeleteBegin, HandlerKeeps
<1>8. ASSUME NEW p \in Handlers, NEW id \in proc[p].todo, DeleteUnpair(p, id) PROVE AnsweredUsers'
  <2>1. UNCHANGED << users, disk, acked >>
    BY <1>8 DEF DeleteUnpair, HandlerKeeps
  <2>2. /\ \A q \in Handlers : q # p => proc'[q] = proc[q]
        /\ proc'[p].pc \notin {"persistUsers", "writeUsers"}
    BY <1>8, DeleteUnpairEffect
  <2> QED BY <2>1, <2>2
<1>9. ASSUME NEW p \in Handlers, DeleteUser(p) PROVE AnsweredUsers'
  <2>1. UNCHANGED << disk, acked >> /\ proc[p].pc = "unpairAll"
    BY <1>9 DEF DeleteUser
  <2>2. \A q \in Handlers : q # p => proc'[q] = proc[q]
    BY <1>9 DEF DeleteUser
  <2>3. CASE proc[p].owner \in users
    <3>1. users' = users \ {proc[p].owner} /\ proc'[p].pc = "persistUsers"
          /\ proc'[p].owner = proc[p].owner
      BY <1>9, <2>3 DEF DeleteUser
    <3> QED BY <2>1, <2>2, <3>1
  <2>4. CASE proc[p].owner \notin users
    BY <1>9, <2>1, <2>2, <2>4 DEF DeleteUser
  <2> QED BY <2>3, <2>4
<1>10. ASSUME NEW p \in Handlers, Persist(p) PROVE AnsweredUsers'
  <2>1. UNCHANGED << users, disk, acked >>
    BY <1>10 DEF Persist, MayPersist, HandlerKeeps
  <2>2. /\ \A q \in Handlers : q # p => proc'[q] = proc[q]
        /\ proc'[p].pc \notin {"persistUsers", "writeUsers"}
    BY <1>10, PersistEffect
  <2> QED BY <2>1, <2>2
<1>11. ASSUME NEW p \in Handlers, Write(p) PROVE AnsweredUsers'
  <2>1. users' = users /\ disk'.users = disk.users
    BY <1>11 DEF Write, Answered, HandlerKeeps
  <2>2. acked'.created = acked.created /\ acked'.deleted = acked.deleted
    BY <1>11 DEF Write, Answered, HandlerKeeps
  <2>3. /\ \A q \in Handlers : q # p => proc'[q] = proc[q]
        /\ proc'[p].pc \notin {"persistUsers", "writeUsers"}
    BY <1>11, WriteEffect
  <2> QED BY <2>1, <2>2, <2>3
<1>12. ASSUME NEW p \in Handlers, PersistUsers(p) PROVE AnsweredUsers'
  <2>1. UNCHANGED << users, disk, acked >>
    BY <1>12 DEF PersistUsers, HandlerKeeps
  <2>2. /\ \A q \in Handlers : q # p => proc'[q] = proc[q]
        /\ proc[p].pc = "persistUsers" /\ proc'[p].op = proc[p].op /\ proc'[p].owner = proc[p].owner
        /\ proc'[p].snap = users
    BY <1>12 DEF PersistUsers, HandlerKeeps
  <2> QED BY <2>1, <2>2
<1>13. ASSUME NEW p \in Handlers, WriteUsers(p) PROVE AnsweredUsers'
  <2>1. users' = users /\ proc[p].pc = "writeUsers" /\ disk' = [disk EXCEPT !.users = proc[p].snap]
    BY <1>13 DEF WriteUsers, HandlerKeeps
  <2>2. disk'.users = proc[p].snap
    BY <2>1
  <2>3. /\ \A q \in Handlers : q # p => proc'[q] = proc[q]
        /\ proc'[p].pc = "idle"
    BY <1>13 DEF WriteUsers
  <2>4. \A q \in Handlers : q # p => proc[q].pc # "writeUsers"
    BY <2>1 DEF Locks
  <2>5. CASE proc[p].op = "create"
    <3>1. acked'.created = acked.created \cup {proc[p].owner} /\ acked'.deleted = acked.deleted
      BY <1>13, <2>5 DEF WriteUsers
    <3> QED BY <2>1, <2>2, <2>3, <2>4, <2>5, <3>1
  <2>6. CASE proc[p].op # "create"
    <3>1. acked'.created = acked.created /\ acked'.deleted = acked.deleted \cup {proc[p].owner}
      BY <1>13, <2>6 DEF WriteUsers
    <3>2. proc[p].op = "delete"
      BY <2>1, <2>6
    <3> QED BY <2>1, <2>2, <2>3, <2>4, <3>1, <3>2
  <2> QED BY <2>5, <2>6
<1>14. ASSUME RotatePairingCode PROVE AnsweredUsers'
  BY <1>14 DEF RotatePairingCode, CodeKeeps
<1>15. ASSUME Crash PROVE AnsweredUsers'
  BY <1>15 DEF Crash
<1>16. ASSUME NEW u \in Users, UserPairingCode(u) PROVE AnsweredUsers'
  BY <1>16 DEF UserPairingCode, CodeKeeps
<1>17. ASSUME NEW u \in Users, RotateUserPairingCode(u) PROVE AnsweredUsers'
  BY <1>17 DEF RotateUserPairingCode, CodeKeeps
<1>18. ASSUME NEW c \in Codes, Expire(c) PROVE AnsweredUsers'
  BY <1>18 DEF Expire, CodeKeeps
<1>19. CASE UNCHANGED vars
  BY <1>19 DEF vars
<1> QED
  BY <1>1, <1>2, <1>3, <1>4, <1>5, <1>6, <1>7, <1>8, <1>9, <1>10, <1>11, <1>12, <1>13,
     <1>14, <1>15, <1>16, <1>17, <1>18, <1>19 DEF Next, HandlerStep

\* A failed write stays on record.
LEMMA FailedStep ==
  ASSUME [Next]_vars, failed = TRUE
  PROVE  failed' = TRUE
BY DEF Next, HandlerStep, vars, HandlerKeeps, CodeKeeps, OwnerForPairCode, PairAs, PairRefused, Unpair,
       RenameHost, CreateUser, DeleteBegin, DeleteUnpair, DeleteUser, Persist, Write, PersistUsers, WriteUsers,
       RotatePairingCode, Crash, UserPairingCode, RotateUserPairingCode, Expire

\* Every step keeps answered changes durable, or a write failed.
LEMMA DurableStep ==
  ASSUME TypeInv, TokenInv, DurableInv, [Next]_vars
  PROVE  DurableInv'
<1>1. failed \in BOOLEAN /\ failed' \in BOOLEAN
  BY TypeStep DEF TypeInv, Shape
<1>2. CASE failed
  BY <1>1, <1>2, FailedStep DEF DurableInv
<1>3. CASE ~failed
  BY <1>1, <1>3, AnsweredHostsStep, AnsweredUsersStep DEF DurableInv
<1> QED BY <1>2, <1>3


\* A registry that loses hosts stays within the limit.
LEMMA WithinSubset ==
  ASSUME NEW g, NEW h, Within(h), DOMAIN g \subseteq DOMAIN h
  PROVE  Within(g)
<1>1. IsFiniteSet(DOMAIN g) /\ Cardinality(DOMAIN g) <= Cardinality(DOMAIN h)
  BY FS_Subset DEF Within
<1>2. Cardinality(DOMAIN g) \in Nat /\ Cardinality(DOMAIN h) \in Nat /\ MaxHosts \in Nat
  BY <1>1, FS_CardinalityType, RegistryAssumption DEF Within
<1> QED BY <1>1, <1>2 DEF Within

\* Every step keeps the host limit.
LEMMA LimitStep ==
  ASSUME TypeInv, LimitInv, [Next]_vars
  PROVE  LimitInv'
<1> USE DEF TypeInv, Shape, HandlerShape, PCs, Set, At, Idle, LimitInv, Within
<1>1. ASSUME NEW p \in Handlers, NEW c \in Codes, NEW n \in Names, OwnerForPairCode(p, c, n) PROVE LimitInv'
  BY <1>1 DEF OwnerForPairCode
<1>2. ASSUME NEW p \in Handlers, PairAs(p) PROVE LimitInv'
  <2> DEFINE id == ResolveHostID(proc[p].owner, proc[p].name)
  <2>1. /\ hosts' = With(hosts, id, proc[p].owner) /\ disk' = disk
        /\ id \in DOMAIN hosts \/ Cardinality(DOMAIN hosts) < MaxHosts
    BY <1>2 DEF PairAs
  <2>2. \A q \in Handlers : proc'[q].pc = "write" => proc[q].pc = "write" /\ proc'[q].snap = proc[q].snap
    BY <1>2 DEF PairAs
  <2> HIDE DEF id
  <2>3. DOMAIN hosts' = DOMAIN hosts \cup {id}
    BY <2>1 DEF With
  <2>4. IsFiniteSet(DOMAIN hosts')
        /\ Cardinality(DOMAIN hosts') = IF id \in DOMAIN hosts THEN Cardinality(DOMAIN hosts) ELSE Cardinality(DOMAIN hosts) + 1
    BY <2>3, FS_AddElement
  <2>5. Cardinality(DOMAIN hosts) \in Nat /\ MaxHosts \in Nat
    BY FS_CardinalityType, RegistryAssumption
  <2>6. Cardinality(DOMAIN hosts') <= MaxHosts
    BY <2>1, <2>4, <2>5
  <2> QED BY <2>1, <2>2, <2>4, <2>6
<1>3. ASSUME NEW p \in Handlers, PairRefused(p) PROVE LimitInv'
  BY <1>3 DEF PairRefused
<1>4. ASSUME NEW p \in Handlers, NEW id \in DOMAIN hosts, Unpair(p, id) PROVE LimitInv'
  <2>1. disk' = disk /\ \A q \in Handlers : proc'[q].pc = "write" => proc[q].pc = "write" /\ proc'[q].snap = proc[q].snap
    BY <1>4 DEF Unpair, HandlerKeeps
  <2>2. DOMAIN hosts' \subseteq DOMAIN hosts
    BY <1>4 DEF Unpair, HandlerKeeps, RemoveHost, Restrict
  <2> QED BY <2>1, <2>2, WithinSubset
<1>5. ASSUME NEW p \in Handlers, NEW id \in DOMAIN hosts, RenameHost(p, id) PROVE LimitInv'
  BY <1>5 DEF RenameHost, HandlerKeeps
<1>6. ASSUME NEW p \in Handlers, NEW u \in Users, CreateUser(p, u) PROVE LimitInv'
  BY <1>6 DEF CreateUser, HandlerKeeps
<1>7. ASSUME NEW p \in Handlers, NEW u \in Users, DeleteBegin(p, u) PROVE LimitInv'
  BY <1>7 DEF DeleteBegin, HandlerKeeps
<1>8. ASSUME NEW p \in Handlers, NEW id \in proc[p].todo, DeleteUnpair(p, id) PROVE LimitInv'
  <2>1. disk' = disk /\ \A q \in Handlers : proc'[q].pc = "write" => proc[q].pc = "write" /\ proc'[q].snap = proc[q].snap
    BY <1>8, DeleteUnpairEffect DEF DeleteUnpair, HandlerKeeps
  <2>2. DOMAIN hosts' \subseteq DOMAIN hosts
    <3>1. RemoveHost(id) \/ hosts' = hosts
      BY <1>8, DeleteUnpairEffect
    <3> QED BY <3>1 DEF RemoveHost, Restrict
  <2> QED BY <2>1, <2>2, WithinSubset
<1>9. ASSUME NEW p \in Handlers, DeleteUser(p) PROVE LimitInv'
  BY <1>9 DEF DeleteUser
<1>10. ASSUME NEW p \in Handlers, Persist(p) PROVE LimitInv'
  <2>1. hosts' = hosts /\ disk' = disk
    BY <1>10 DEF Persist, MayPersist, HandlerKeeps
  <2> QED BY <1>10, <2>1, PersistEffect DEF HubFile
<1>11. ASSUME NEW p \in Handlers, Write(p) PROVE LimitInv'
  <2>1. hosts' = hosts /\ disk'.hub \in {disk.hub, proc[p].snap} /\ proc[p].pc = "write"
    BY <1>11 DEF Write
  <2>2. \A q \in Handlers : proc'[q].pc = "write" => proc[q].pc = "write" /\ proc'[q].snap = proc[q].snap
    BY <1>11, WriteEffect
  <2> QED BY <2>1, <2>2
<1>12. ASSUME NEW p \in Handlers, PersistUsers(p) PROVE LimitInv'
  BY <1>12 DEF PersistUsers, HandlerKeeps
<1>13. ASSUME NEW p \in Handlers, WriteUsers(p) PROVE LimitInv'
  <2>1. hosts' = hosts /\ disk'.hub = disk.hub
    BY <1>13 DEF WriteUsers
  <2>2. \A q \in Handlers : proc'[q].pc = "write" => proc[q].pc = "write" /\ proc'[q].snap = proc[q].snap
    BY <1>13 DEF WriteUsers
  <2> QED BY <2>1, <2>2
<1>14. ASSUME RotatePairingCode PROVE LimitInv'
  BY <1>14 DEF RotatePairingCode, CodeKeeps
<1>15. ASSUME Crash PROVE LimitInv'
  BY <1>15 DEF Crash
<1>16. ASSUME NEW u \in Users, UserPairingCode(u) PROVE LimitInv'
  BY <1>16 DEF UserPairingCode, CodeKeeps
<1>17. ASSUME NEW u \in Users, RotateUserPairingCode(u) PROVE LimitInv'
  BY <1>17 DEF RotateUserPairingCode, CodeKeeps
<1>18. ASSUME NEW c \in Codes, Expire(c) PROVE LimitInv'
  BY <1>18 DEF Expire, CodeKeeps
<1>19. CASE UNCHANGED vars
  BY <1>19 DEF vars
<1> QED
  BY <1>1, <1>2, <1>3, <1>4, <1>5, <1>6, <1>7, <1>8, <1>9, <1>10, <1>11, <1>12, <1>13,
     <1>14, <1>15, <1>16, <1>17, <1>18, <1>19 DEF Next, HandlerStep

\* Every nonempty set of naturals has a least element.
LEMMA LeastElement ==
  ASSUME NEW T \in SUBSET Nat, T # {}
  PROVE  \E m \in T : \A k \in T : m <= k
<1> DEFINE R == OpToRel(<, Nat)
<1>1. IsWellFoundedOn(R, Nat)
  BY NatLessThanWellFounded
<1>2. \A x, y \in Nat : <<y, x>> \in R <=> y < x
  BY DEF OpToRel
<1> HIDE DEF R
<1>3. PICK x \in T : \A y \in T : <<y, x>> \notin R
  BY <1>1, WFMin
<1>4. ASSUME NEW k \in T PROVE x <= k
  <2>1. x \in Nat /\ k \in Nat /\ ~ (k < x)
    BY <1>2, <1>3
  <2> QED BY <2>1
<1> QED BY <1>4

\* A pairing never takes over another owner's host: the id is free or the
\* owner's own, because among more names than the hub has hosts one is free.
LEMMA ResolveKeepsOwner ==
  ASSUME Within(hosts), NEW o, NEW name
  PROVE  LET id == ResolveHostID(o, name) IN id \notin DOMAIN hosts \/ hosts[id] = o
<1> DEFINE I == 1 .. MaxHosts + 1
           free == {n \in I : Suffixed(name, o, n) \notin DOMAIN hosts}
           f == [n \in I |-> Suffixed(name, o, n)]
           least == CHOOSE n \in free : \A m \in free : n <= m
<1>1. CASE Plain(name) \notin DOMAIN hosts \/ hosts[Plain(name)] = o
  BY <1>1 DEF ResolveHostID
<1>2. CASE ~(Plain(name) \notin DOMAIN hosts \/ hosts[Plain(name)] = o)
  <2>1. free # {}
    <3> SUFFICES ASSUME free = {} PROVE FALSE
      OBVIOUS
    <3>0. MaxHosts \in Nat
      BY RegistryAssumption
    <3>1. IsFiniteSet(I) /\ Cardinality(I) = MaxHosts + 1 /\ MaxHosts \in Nat
      BY <3>0, FS_Interval
    <3>2. f \in [I -> DOMAIN hosts]
      OBVIOUS
    <3>3. Cardinality(DOMAIN hosts) < Cardinality(I)
      BY <3>1, FS_CardinalityType DEF Within
    <3> HIDE DEF f, I
    <3>4. PICK x, y \in I : x # y /\ f[x] = f[y]
      BY <3>1, <3>2, <3>3, FS_PigeonHole DEF Within
    <3>5. Suffixed(name, o, x) = Suffixed(name, o, y)
      BY <3>4 DEF f
    <3> QED BY <3>4, <3>5 DEF Suffixed
  <2>2. free \in SUBSET Nat
    OBVIOUS
  <2>3. \E n \in free : \A m \in free : n <= m
    BY <2>1, <2>2, LeastElement
  <2>4. least \in free
    BY <2>3
  <2> QED BY <1>2, <2>4 DEF ResolveHostID
<1> QED BY <1>1, <1>2


\* Every step that is not a failed write keeps the file behind memory by pending
\* removals only.
LEMMA FileStep ==
  ASSUME TypeInv, LimitInv, FileInv, failed' = FALSE, [Next]_vars
  PROVE  FileInv'
<1> USE DEF TypeInv, Shape, HandlerShape, PCs, Set, At, Idle, FileInv, Fresh, Unwritten, Removing
<1>1. ASSUME NEW p \in Handlers, NEW c \in Codes, NEW n \in Names, OwnerForPairCode(p, c, n) PROVE FileInv'
  BY <1>1 DEF OwnerForPairCode
<1>2. ASSUME NEW p \in Handlers, PairAs(p) PROVE FileInv'
  <2> DEFINE id == ResolveHostID(proc[p].owner, proc[p].name)
  <2>1. /\ hosts' = With(hosts, id, proc[p].owner) /\ disk' = disk
        /\ id \notin DOMAIN hosts \/ hosts[id] = proc[p].owner
    BY <1>2, ResolveKeepsOwner DEF PairAs, LimitInv
  <2>2. /\ \A q \in Handlers : q # p => proc'[q] = proc[q]
        /\ proc'[p].pc = "persist" /\ proc'[p].op = "pair" /\ proc[p].pc = "pair"
    BY <1>2 DEF PairAs
  <2> HIDE DEF id
  <2>3. \A j \in DOMAIN hosts : j \in DOMAIN hosts' /\ hosts'[j] = hosts[j]
    BY <2>1 DEF With
  <2> QED BY <2>1, <2>2, <2>3
<1>3. ASSUME NEW p \in Handlers, PairRefused(p) PROVE FileInv'
  BY <1>3 DEF PairRefused
<1>4. ASSUME NEW p \in Handlers, NEW id \in DOMAIN hosts, Unpair(p, id) PROVE FileInv'
  <2>1. disk' = disk /\ Removing(p)' /\ \A q \in Handlers : q # p => proc'[q] = proc[q]
    BY <1>4 DEF Unpair, HandlerKeeps
  <2> QED BY <2>1
<1>5. ASSUME NEW p \in Handlers, NEW id \in DOMAIN hosts, RenameHost(p, id) PROVE FileInv'
  BY <1>5 DEF RenameHost, HandlerKeeps
<1>6. ASSUME NEW p \in Handlers, NEW u \in Users, CreateUser(p, u) PROVE FileInv'
  BY <1>6 DEF CreateUser, HandlerKeeps
<1>7. ASSUME NEW p \in Handlers, NEW u \in Users, DeleteBegin(p, u) PROVE FileInv'
  BY <1>7 DEF DeleteBegin, HandlerKeeps
<1>8. ASSUME NEW p \in Handlers, NEW id \in proc[p].todo, DeleteUnpair(p, id) PROVE FileInv'
  <2>1. disk' = disk
    BY <1>8 DEF DeleteUnpair, HandlerKeeps
  <2>2. CASE id \in DOMAIN hosts
    <3>1. Removing(p)'
      BY <1>8, <2>2, DeleteUnpairEffect
    <3> QED BY <2>1, <3>1, <1>8, DeleteUnpairEffect
  <2>3. CASE id \notin DOMAIN hosts
    <3>1. hosts' = hosts /\ proc'[p].pc = "unpairAll" /\ proc[p].pc = "unpairAll" /\ \A q \in Handlers : q # p => proc'[q] = proc[q]
      BY <1>8, <2>3, DeleteUnpairEffect
    <3> QED BY <2>1, <3>1
  <2> QED BY <2>2, <2>3
<1>9. ASSUME NEW p \in Handlers, DeleteUser(p) PROVE FileInv'
  <2>1. hosts' = hosts /\ disk' = disk /\ proc[p].pc = "unpairAll"
        /\ \A q \in Handlers : q # p => proc'[q] = proc[q]
    BY <1>9 DEF DeleteUser
  <2>2. proc'[p].pc \in {"idle", "persistUsers"}
    BY <1>9 DEF DeleteUser
  <2> QED BY <2>1, <2>2
<1>10. ASSUME NEW p \in Handlers, Persist(p) PROVE FileInv'
  <2>1. hosts' = hosts /\ disk' = disk /\ lock.hub = Nobody /\ proc[p].pc = "persist"
    BY <1>10 DEF Persist, MayPersist, HandlerKeeps
  <2>2. /\ \A q \in Handlers : q # p => proc'[q] = proc[q]
        /\ proc'[p].pc = "write" /\ proc'[p].op = proc[p].op /\ proc'[p].snap.hosts = hosts
    BY <1>10, PersistEffect DEF HubFile
  <2>3. \A q \in Handlers : proc[q].pc # "write"
    BY <2>1, RegistryAssumption DEF Locks
  <2> QED BY <2>1, <2>2, <2>3
<1>11. ASSUME NEW p \in Handlers, Write(p) PROVE FileInv'
  <2>1. hosts' = hosts /\ proc[p].pc = "write" /\ disk' = [disk EXCEPT !.hub = proc[p].snap]
    BY <1>11 DEF Write, Answered, HandlerKeeps
  <2>2. disk'.hub = proc[p].snap
    BY <2>1
  <2>3. \A q \in Handlers : q # p => proc[q].pc # "write"
    BY <2>1 DEF Locks
  <2>4. /\ \A q \in Handlers : q # p => proc'[q] = proc[q]
        /\ proc'[p].pc \in {"idle", "unpairAll"}
    BY <1>11, WriteEffect
  <2> QED BY <2>1, <2>2, <2>3, <2>4
<1>12. ASSUME NEW p \in Handlers, PersistUsers(p) PROVE FileInv'
  BY <1>12 DEF PersistUsers, HandlerKeeps
<1>13. ASSUME NEW p \in Handlers, WriteUsers(p) PROVE FileInv'
  <2>1. hosts' = hosts /\ disk'.hub = disk.hub /\ proc[p].pc = "writeUsers"
    BY <1>13 DEF WriteUsers, HandlerKeeps
  <2>2. proc'[p].pc = "idle" /\ \A q \in Handlers : q # p => proc'[q] = proc[q]
    BY <1>13 DEF WriteUsers, HandlerKeeps
  <2> QED BY <2>1, <2>2
<1>14. ASSUME RotatePairingCode PROVE FileInv'
  BY <1>14 DEF RotatePairingCode, CodeKeeps
<1>15. ASSUME Crash PROVE FileInv'
  BY <1>15 DEF Crash
<1>16. ASSUME NEW u \in Users, UserPairingCode(u) PROVE FileInv'
  BY <1>16 DEF UserPairingCode, CodeKeeps
<1>17. ASSUME NEW u \in Users, RotateUserPairingCode(u) PROVE FileInv'
  BY <1>17 DEF RotateUserPairingCode, CodeKeeps
<1>18. ASSUME NEW c \in Codes, Expire(c) PROVE FileInv'
  BY <1>18 DEF Expire, CodeKeeps
<1>19. CASE UNCHANGED vars
  BY <1>19 DEF vars
<1> QED
  BY <1>1, <1>2, <1>3, <1>4, <1>5, <1>6, <1>7, <1>8, <1>9, <1>10, <1>11, <1>12, <1>13,
     <1>14, <1>15, <1>16, <1>17, <1>18, <1>19 DEF Next, HandlerStep

\* Every step keeps the hosts of a user being deleted among the ones still to be
\* unpaired, or the deletion raced with a pairing.
LEMMA DeleteStep ==
  ASSUME TypeInv, DeleteInv, [Next]_vars
  PROVE  DeleteInv'
<1> USE DEF TypeInv, Shape, HandlerShape, PCs, Set, At, Idle, DeleteInv, HostsOf
<1>1. ASSUME NEW p \in Handlers, NEW c \in Codes, NEW n \in Names, OwnerForPairCode(p, c, n) PROVE DeleteInv'
  BY <1>1 DEF OwnerForPairCode
<1>2. ASSUME NEW p \in Handlers, PairAs(p) PROVE DeleteInv'
  <2> DEFINE o == proc[p].owner
             id == ResolveHostID(o, proc[p].name)
  <2>1. hosts' = With(hosts, id, o)
    BY <1>2 DEF PairAs
  <2>2. raced' = raced \cup {u \in {o} : \E d \in Handlers : proc[d].op = "delete" /\ proc[d].owner = u}
    BY <1>2 DEF PairAs
  <2>3. proc'[p].op = "pair" /\ \A q \in Handlers : q # p => proc'[q] = proc[q]
    BY <1>2 DEF PairAs
  <2> HIDE DEF id
  <2>4. \A u : u # o => HostsOf(hosts', u) \subseteq HostsOf(hosts, u)
    BY <2>1 DEF With
  <2> QED BY <2>2, <2>3, <2>4
<1>3. ASSUME NEW p \in Handlers, PairRefused(p) PROVE DeleteInv'
  BY <1>3 DEF PairRefused
<1>4. ASSUME NEW p \in Handlers, NEW id \in DOMAIN hosts, Unpair(p, id) PROVE DeleteInv'
  <2>1. proc'[p].op = "unpair" /\ raced' = raced /\ \A q \in Handlers : q # p => proc'[q] = proc[q]
    BY <1>4 DEF Unpair, HandlerKeeps
  <2>2. \A u : HostsOf(hosts', u) \subseteq HostsOf(hosts, u)
    BY <1>4 DEF Unpair, HandlerKeeps, RemoveHost, Restrict
  <2> QED BY <2>1, <2>2
<1>5. ASSUME NEW p \in Handlers, NEW id \in DOMAIN hosts, RenameHost(p, id) PROVE DeleteInv'
  BY <1>5 DEF RenameHost, HandlerKeeps
<1>6. ASSUME NEW p \in Handlers, NEW u \in Users, CreateUser(p, u) PROVE DeleteInv'
  BY <1>6 DEF CreateUser, HandlerKeeps
<1>7. ASSUME NEW p \in Handlers, NEW u \in Users, DeleteBegin(p, u) PROVE DeleteInv'
  BY <1>7 DEF DeleteBegin, HandlerKeeps, HostIDsForUser
<1>8. ASSUME NEW p \in Handlers, NEW id \in proc[p].todo, DeleteUnpair(p, id) PROVE DeleteInv'
  <2>1. raced' = raced
    BY <1>8 DEF DeleteUnpair, HandlerKeeps
  <2>2. RemoveHost(id) \/ (id \notin DOMAIN hosts /\ hosts' = hosts)
    BY <1>8, DeleteUnpairEffect
  <2>3. \A u : HostsOf(hosts', u) \subseteq HostsOf(hosts, u) \ {id}
    BY <2>2 DEF RemoveHost, Restrict
  <2>4. /\ \A q \in Handlers : q # p => proc'[q] = proc[q]
        /\ proc[p].pc = "unpairAll" /\ proc'[p].owner = proc[p].owner /\ proc'[p].todo = proc[p].todo \ {id}
    BY <1>8, DeleteUnpairEffect
  <2> QED BY <2>1, <2>3, <2>4
<1>9. ASSUME NEW p \in Handlers, DeleteUser(p) PROVE DeleteInv'
  <2>1. hosts' = hosts /\ raced \subseteq raced' /\ \A q \in Handlers : q # p => proc'[q] = proc[q]
    BY <1>9 DEF DeleteUser
  <2>2. proc'[p].pc \in {"idle", "persistUsers"}
    BY <1>9 DEF DeleteUser
  <2> QED BY <2>1, <2>2
<1>10. ASSUME NEW p \in Handlers, Persist(p) PROVE DeleteInv'
  <2>1. hosts' = hosts /\ raced' = raced /\ proc[p].pc = "persist"
    BY <1>10 DEF Persist, MayPersist, HandlerKeeps
  <2> QED BY <1>10, <2>1, PersistEffect
<1>11. ASSUME NEW p \in Handlers, Write(p) PROVE DeleteInv'
  <2>1. hosts' = hosts /\ raced' = raced /\ proc[p].pc = "write"
    BY <1>11 DEF Write, Answered, HandlerKeeps
  <2> QED BY <1>11, <2>1, WriteEffect
<1>12. ASSUME NEW p \in Handlers, PersistUsers(p) PROVE DeleteInv'
  BY <1>12 DEF PersistUsers, HandlerKeeps
<1>13. ASSUME NEW p \in Handlers, WriteUsers(p) PROVE DeleteInv'
  <2>1. hosts' = hosts /\ raced' = raced /\ proc'[p].pc = "idle" /\ \A q \in Handlers : q # p => proc'[q] = proc[q]
    BY <1>13 DEF WriteUsers, HandlerKeeps
  <2> QED BY <2>1
<1>14. ASSUME RotatePairingCode PROVE DeleteInv'
  BY <1>14 DEF RotatePairingCode, CodeKeeps
<1>15. ASSUME Crash PROVE DeleteInv'
  BY <1>15 DEF Crash
<1>16. ASSUME NEW u \in Users, UserPairingCode(u) PROVE DeleteInv'
  BY <1>16 DEF UserPairingCode, CodeKeeps
<1>17. ASSUME NEW u \in Users, RotateUserPairingCode(u) PROVE DeleteInv'
  BY <1>17 DEF RotateUserPairingCode, CodeKeeps
<1>18. ASSUME NEW c \in Codes, Expire(c) PROVE DeleteInv'
  BY <1>18 DEF Expire, CodeKeeps
<1>19. CASE UNCHANGED vars
  BY <1>19 DEF vars
<1> QED
  BY <1>1, <1>2, <1>3, <1>4, <1>5, <1>6, <1>7, <1>8, <1>9, <1>10, <1>11, <1>12, <1>13,
     <1>14, <1>15, <1>16, <1>17, <1>18, <1>19 DEF Next, HandlerStep


\* When a deletion has unpaired the hosts of its snapshot, and no pairing and no
\* unwritten unpairing overlapped, neither memory nor a file has one left.
LEMMA DeletedHasNoHost ==
  ASSUME FileInv, DeleteInv, NEW p \in Handlers,
         proc[p].pc = "unpairAll", proc[p].op = "delete", proc[p].todo = {}, proc[p].owner \notin raced,
         \A q \in Handlers : q # p => ~Unwritten(q)
  PROVE  NoHostOf(proc[p].owner)
<1> DEFINE v == proc[p].owner
<1>1. HostsOf(hosts, v) = {}
  BY DEF DeleteInv
<1>2. ~Unwritten(p)
  BY DEF Unwritten
<1>3. \A q \in Handlers : ~Unwritten(q) /\ ~Removing(q)
  BY <1>2 DEF Unwritten, Removing
<1>4. Fresh(disk.hub.hosts) /\ \A q \in Handlers : proc[q].pc = "write" => Fresh(proc[q].snap.hosts)
  BY <1>3 DEF FileInv
<1> QED BY <1>1, <1>4 DEF Fresh, NoHostOf, HostsOf

\* Every step keeps a deleted account free of hosts, or its deletion raced.
LEMMA GoneStep ==
  ASSUME TypeInv, AnsweredUsers, FileInv, DeleteInv, GoneInv, [Next]_vars
  PROVE  GoneInv'
<1> USE DEF TypeInv, Shape, HandlerShape, PCs, Set, At, Idle, GoneInv, Deleting, NoHostOf, HostsOf
<1>1. ASSUME NEW p \in Handlers, NEW c \in Codes, NEW n \in Names, OwnerForPairCode(p, c, n) PROVE GoneInv'
  BY <1>1 DEF OwnerForPairCode
<1>2. ASSUME NEW p \in Handlers, PairAs(p) PROVE GoneInv'
  <2> DEFINE o == proc[p].owner
             id == ResolveHostID(o, proc[p].name)
  <2> HIDE DEF GoneInv, NoHostOf, HostsOf, Deleting
  <2>1. hosts' = With(hosts, id, o) /\ disk' = disk /\ acked' = acked /\ raced \subseteq raced' /\ CodeValid(o, proc[p].code)
    BY <1>2 DEF PairAs
  <2>2. proc'[p].op = "pair" /\ proc'[p].pc = "persist" /\ \A q \in Handlers : q # p => proc'[q] = proc[q]
    BY <1>2 DEF PairAs
  <2> HIDE DEF id
  <2>3. \A u : u # o => HostsOf(hosts', u) \subseteq HostsOf(hosts, u)
    BY <2>1 DEF With, HostsOf
  <2>4. o = Root \/ o \in users
    BY <2>1 DEF CodeValid
  <2>5. \A u \in Users : u \in acked.deleted \/ Deleting(u) => u # o
    BY <2>4, RegistryAssumption DEF AnsweredUsers, Deleting
  <2>6. \A u \in Users : (u \in acked.deleted \/ Deleting(u))' => u \in acked.deleted \/ Deleting(u)
    BY <2>1, <2>2 DEF Deleting
  <2>7. \A q \in Handlers : proc'[q].pc = "write" => proc[q].pc = "write" /\ proc'[q].snap = proc[q].snap
    BY <2>2
  <2>8. disk' = disk /\ raced \subseteq raced'
    BY <2>1
  <2>9. \A u \in Users : u # o /\ NoHostOf(u) => NoHostOf(u)'
    BY <2>3, <2>7, <2>8 DEF NoHostOf
  <2> QED
    <3> SUFFICES ASSUME NEW u \in Users, (u \in acked.deleted \/ Deleting(u))', u \notin raced'
                 PROVE  NoHostOf(u)'
      BY DEF GoneInv
    <3>1. u \in acked.deleted \/ Deleting(u)
      BY <2>6
    <3>2. NoHostOf(u) /\ u # o
      BY <2>5, <2>8, <3>1 DEF GoneInv
    <3> QED BY <2>9, <3>2
<1>3. ASSUME NEW p \in Handlers, PairRefused(p) PROVE GoneInv'
  BY <1>3 DEF PairRefused
<1>4. ASSUME NEW p \in Handlers, NEW id \in DOMAIN hosts, Unpair(p, id) PROVE GoneInv'
  <2>1. /\ proc'[p].op = "unpair" /\ proc'[p].pc = "persist" /\ \A q \in Handlers : q # p => proc'[q] = proc[q]
        /\ UNCHANGED << raced, acked, disk >>
    BY <1>4 DEF Unpair, HandlerKeeps
  <2>2. \A u : HostsOf(hosts', u) \subseteq HostsOf(hosts, u)
    BY <1>4 DEF Unpair, HandlerKeeps, RemoveHost, Restrict
  <2> HIDE DEF TypeInv
  <2>3. \A u \in Users : NoHostOf(u) => NoHostOf(u)'
    BY <2>1, <2>2
  <2>4. \A u \in Users : (u \in acked.deleted \/ Deleting(u))' => u \in acked.deleted \/ Deleting(u)
    BY <2>1
  <2> QED BY <2>1, <2>3, <2>4
<1>5. ASSUME NEW p \in Handlers, NEW id \in DOMAIN hosts, RenameHost(p, id) PROVE GoneInv'
  BY <1>5 DEF RenameHost, HandlerKeeps
<1>6. ASSUME NEW p \in Handlers, NEW u \in Users, CreateUser(p, u) PROVE GoneInv'
  BY <1>6 DEF CreateUser, HandlerKeeps
<1>7. ASSUME NEW p \in Handlers, NEW u \in Users, DeleteBegin(p, u) PROVE GoneInv'
  BY <1>7 DEF DeleteBegin, HandlerKeeps
<1>8. ASSUME NEW p \in Handlers, NEW id \in proc[p].todo, DeleteUnpair(p, id) PROVE GoneInv'
  <2>1. UNCHANGED << raced, acked, disk >>
    BY <1>8 DEF DeleteUnpair, HandlerKeeps
  <2>2. RemoveHost(id) \/ hosts' = hosts
    BY <1>8, DeleteUnpairEffect
  <2>3. \A u : HostsOf(hosts', u) \subseteq HostsOf(hosts, u)
    BY <2>2 DEF RemoveHost, Restrict
  <2>4. proc'[p].pc \in {"persist", "unpairAll"} /\ \A q \in Handlers : q # p => proc'[q] = proc[q]
    BY <1>8, DeleteUnpairEffect
  <2> QED BY <2>1, <2>3, <2>4
<1>9. ASSUME NEW p \in Handlers, DeleteUser(p) PROVE GoneInv'
  <2> DEFINE v == proc[p].owner
  <2> HIDE DEF GoneInv, NoHostOf, HostsOf, Deleting
  <2>1. /\ UNCHANGED << hosts, acked, disk >> /\ \A q \in Handlers : q # p => proc'[q] = proc[q]
        /\ proc[p].pc = "unpairAll" /\ proc[p].op = "delete" /\ proc[p].todo = {}
    BY <1>9 DEF DeleteUser, Todo
  <2>2. raced \subseteq raced' /\ (v \in raced' \/ \A q \in Handlers : q # p => ~Unwritten(q))
    BY <1>9 DEF DeleteUser
  <2>3. proc'[p].pc = "idle" \/ (proc'[p].pc = "persistUsers" /\ proc'[p].owner = v)
    BY <1>9 DEF DeleteUser
  <2>4. ASSUME v \notin raced' PROVE NoHostOf(v)
    <3> HIDE DEF TypeInv
    <3>1. v \notin raced /\ \A q \in Handlers : q # p => ~Unwritten(q)
      BY <2>2, <2>4
    <3> QED BY <2>1, <3>1, DeletedHasNoHost
  <2>5. \A q \in Handlers : proc'[q].pc = "write" => proc[q].pc = "write" /\ proc'[q].snap = proc[q].snap
    BY <2>1, <2>3
  <2>6. \A u \in Users : (u \in acked.deleted \/ Deleting(u))' => u \in acked.deleted \/ Deleting(u) \/ u = v
    BY <2>1, <2>3 DEF Deleting
  <2>7. \A u \in Users : NoHostOf(u) => NoHostOf(u)'
    BY <2>1, <2>5 DEF NoHostOf
  <2>8. \A u \in Users : (u \in acked.deleted \/ Deleting(u))' => u \in raced' \/ NoHostOf(u)
    BY <2>2, <2>4, <2>6 DEF GoneInv
  <2> QED BY <2>7, <2>8 DEF GoneInv
<1>10. ASSUME NEW p \in Handlers, Persist(p) PROVE GoneInv'
  <2>1. UNCHANGED << hosts, raced, acked, disk >>
    BY <1>10 DEF Persist, MayPersist, HandlerKeeps
  <2> QED BY <1>10, <2>1, PersistEffect DEF HubFile
<1>11. ASSUME NEW p \in Handlers, Write(p) PROVE GoneInv'
  <2>1. UNCHANGED << hosts, raced >> /\ disk'.hub \in {disk.hub, proc[p].snap} /\ proc[p].pc = "write"
    BY <1>11 DEF Write, Answered, HandlerKeeps
  <2>2. acked'.deleted = acked.deleted
    BY <1>11 DEF Write
  <2>3. proc'[p].pc \in {"idle", "unpairAll"} /\ \A q \in Handlers : q # p => proc'[q] = proc[q]
    BY <1>11, WriteEffect
  <2> QED BY <2>1, <2>2, <2>3
<1>12. ASSUME NEW p \in Handlers, PersistUsers(p) PROVE GoneInv'
  BY <1>12 DEF PersistUsers, HandlerKeeps
<1>13. ASSUME NEW p \in Handlers, WriteUsers(p) PROVE GoneInv'
  <2>1. UNCHANGED << hosts, raced >> /\ disk'.hub = disk.hub /\ proc[p].pc = "writeUsers"
    BY <1>13 DEF WriteUsers, HandlerKeeps
  <2>2. proc'[p].pc = "idle" /\ \A q \in Handlers : q # p => proc'[q] = proc[q]
    BY <1>13 DEF WriteUsers
  <2>3. acked'.deleted = acked.deleted \/ (acked'.deleted = acked.deleted \cup {proc[p].owner} /\ proc[p].op = "delete")
    <3>1. CASE proc[p].op = "create"
      BY <1>13, <3>1 DEF WriteUsers
    <3>2. CASE proc[p].op # "create"
      BY <1>13, <3>2 DEF WriteUsers
    <3> QED BY <3>1, <3>2
  <2>4. \A u \in Users : (u \in acked.deleted \/ Deleting(u))' => u \in acked.deleted \/ Deleting(u)
    BY <2>1, <2>2, <2>3
  <2>5. \A q \in Handlers : proc'[q].pc = "write" => proc[q].pc = "write" /\ proc'[q].snap = proc[q].snap
    BY <2>2
  <2> QED BY <2>1, <2>4, <2>5
<1>14. ASSUME RotatePairingCode PROVE GoneInv'
  BY <1>14 DEF RotatePairingCode, CodeKeeps
<1>15. ASSUME Crash PROVE GoneInv'
  BY <1>15 DEF Crash
<1>16. ASSUME NEW u \in Users, UserPairingCode(u) PROVE GoneInv'
  BY <1>16 DEF UserPairingCode, CodeKeeps
<1>17. ASSUME NEW u \in Users, RotateUserPairingCode(u) PROVE GoneInv'
  BY <1>17 DEF RotateUserPairingCode, CodeKeeps
<1>18. ASSUME NEW c \in Codes, Expire(c) PROVE GoneInv'
  BY <1>18 DEF Expire, CodeKeeps
<1>19. CASE UNCHANGED vars
  BY <1>19 DEF vars
<1> QED
  BY <1>1, <1>2, <1>3, <1>4, <1>5, <1>6, <1>7, <1>8, <1>9, <1>10, <1>11, <1>12, <1>13,
     <1>14, <1>15, <1>16, <1>17, <1>18, <1>19 DEF Next, HandlerStep

\* Every step keeps the three facts about deletions, or a write failed.
LEMMA OrphanStep ==
  ASSUME TypeInv, LimitInv, DurableInv, OrphanInv, [Next]_vars
  PROVE  OrphanInv'
<1>1. failed \in BOOLEAN /\ failed' \in BOOLEAN
  BY TypeStep DEF TypeInv, Shape
<1>2. CASE failed
  BY <1>1, <1>2, FailedStep DEF OrphanInv
<1>3. CASE ~failed
  BY <1>1, <1>3, FileStep, DeleteStep, GoneStep DEF OrphanInv, DurableInv
<1> QED BY <1>2, <1>3

-----------------------------------------------------------------------------
(* The theorems. *)

RegistryInv == TypeInv /\ TokenInv /\ CodeInv /\ LimitInv /\ DurableInv /\ OrphanInv

\* A hub that starts with empty files is in order.
LEMMA InitRegistry == Init => RegistryInv
<1> SUFFICES ASSUME Init PROVE RegistryInv
  OBVIOUS
<1> USE RegistryAssumption DEF Init, Empty, Idle
<1>1. TypeInv
  <2>1. DOMAIN proc = Handlers /\ \A p \in Handlers : HandlerShape(proc[p]) /\ proc[p].pc = "idle"
    BY DEF HandlerShape, PCs
  <2>2. \A p \in Handlers : lock.hub # p /\ lock.users # p
    OBVIOUS
  <2>3. /\ issued \in Nat /\ failed \in BOOLEAN
        /\ DOMAIN disk = {"hub", "users"} /\ DOMAIN lock = {"hub", "users"}
        /\ DOMAIN acked = {"tokens", "revoked", "created", "deleted"}
    OBVIOUS
  <2> QED BY <2>1, <2>2, <2>3 DEF TypeInv, Shape, Locks
<1>2. TokenInv
  BY DEF TokenInv, Consistent, HubFile
<1>3. CodeInv
  BY DEF CodeInv
<1>4. LimitInv
  BY FS_EmptySet DEF LimitInv, Within
<1>5. DurableInv
  BY DEF DurableInv, AnsweredHosts, AnsweredUsers
<1>6. OrphanInv
  <2>1. FileInv
    BY DEF FileInv, Fresh
  <2>2. DeleteInv /\ GoneInv
    BY DEF DeleteInv, GoneInv, Deleting
  <2> QED BY <2>1, <2>2 DEF OrphanInv
<1> QED BY <1>1, <1>2, <1>3, <1>4, <1>5, <1>6 DEF RegistryInv

\* The inductive invariant, for the whole registry.
THEOREM RegistryInvariant == Spec => []RegistryInv
<1>1. RegistryInv /\ [Next]_vars => RegistryInv'
  BY TypeStep, TokenStep, CodeStep, LimitStep, DurableStep, OrphanStep DEF RegistryInv
<1> QED BY InitRegistry, <1>1, PTL DEF Spec

\* In a consistent registry a host has one token.
LEMMA ConsistentOneToken ==
  ASSUME NEW r, Consistent(r), NEW id \in DOMAIN r.hosts
  PROVE  Cardinality({t \in DOMAIN r.tokens : r.tokens[t] = id}) = 1
<1>1. PICK t \in DOMAIN r.tokens : r.tokens[t] = id
  BY DEF Consistent
<1>2. {u \in DOMAIN r.tokens : r.tokens[u] = id} = {t}
  BY <1>1 DEF Consistent
<1> QED BY <1>2, FS_Singleton

\* Every host has exactly one token and every token a host, in memory and in the
\* file, for any number of handlers, hosts and crashes: PairAs revokes before it
\* issues, and a snapshot is taken under the lock that both changes hold.
THEOREM TokensAreOnePerHost == Spec => []OneTokenPerHost
<1>1. RegistryInv => OneTokenPerHost
  <2> SUFFICES ASSUME RegistryInv, NEW r \in {HubFile, disk.hub}
               PROVE  /\ \A t \in DOMAIN r.tokens : r.tokens[t] \in DOMAIN r.hosts
                      /\ \A id \in DOMAIN r.hosts : Cardinality({t \in DOMAIN r.tokens : r.tokens[t] = id}) = 1
    BY DEF OneTokenPerHost
  <2>1. Consistent(r)
    BY DEF RegistryInv, TokenInv
  <2> QED BY <2>1, ConsistentOneToken DEF Consistent
<1> QED BY <1>1, RegistryInvariant, PTL

\* A pairing code pays for one pairing between two issues of it.
THEOREM CodesAreOneShot == Spec => []CodeIsOneShot
<1>1. RegistryInv => CodeIsOneShot
  BY DEF RegistryInv, CodeInv, CodeIsOneShot
<1> QED BY <1>1, RegistryInvariant, PTL

\* What a handler answered is what a restart finds, unless a write failed.
THEOREM AnswersAreDurable == Spec => []AcknowledgedDurable
<1>1. RegistryInv => AcknowledgedDurable
  BY DEF RegistryInv, DurableInv, AnsweredHosts, AnsweredUsers, AcknowledgedDurable
<1> QED BY <1>1, RegistryInvariant, PTL

\* A deleted account leaves no host behind, unless its deletion raced with a
\* pairing or an unwritten unpairing, or a write failed.
THEOREM DeletionLeavesNoHost == Spec => []NoOrphanHost
<1>1. ASSUME RegistryInv PROVE NoOrphanHost
  <2> SUFFICES ASSUME NEW u \in acked.deleted, ~failed, u \notin raced PROVE HostIDsForUser(u) = {}
    BY DEF NoOrphanHost
  <2>1. u \in Users /\ GoneInv
    BY <1>1 DEF RegistryInv, DurableInv, AnsweredUsers, OrphanInv
  <2>2. NoHostOf(u)
    BY <2>1 DEF GoneInv
  <2> QED BY <2>2 DEF NoHostOf, HostsOf, HostIDsForUser
<1> QED BY <1>1, RegistryInvariant, PTL

=============================================================================
