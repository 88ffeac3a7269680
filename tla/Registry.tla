------------------------------ MODULE Registry ------------------------------
(***************************************************************************)
(* Pairing and accounts: the registry of hosts, host tokens and users in   *)
(* memory, the files hub.json and users.json behind it, and the HTTP       *)
(* handlers that change them concurrently (internal/hub/hub.go, users.go,  *)
(* cmd/capri-hub/main.go, users.go), with failed writes, crashes and       *)
(* restarts.                                                               *)
(*                                                                         *)
(* A handler releases h.mu between its parts: a pairing resolves its code  *)
(* in one and redeems it in another, every change is written after h.mu is *)
(* released, and the deletion of a user unpairs its hosts one by one.      *)
(* Tokens are numbers in the order they were issued; names, ports and what *)
(* a page sees are left out.                                               *)
(***************************************************************************)
EXTENDS Naturals, FiniteSets, Functions, TLC

CONSTANTS Handlers,     \* HTTP requests served at the same time
          Users,        \* account ids
          Names,        \* host ids that hosts ask for
          Codes,        \* pairing codes
          MaxHosts,     \* MaxHosts
          MaxTokens,    \* bound: tokens issued
          MaxMints,     \* bound: pairing codes issued on request
          MaxCrashes    \* bound: hub restarts

Root == "root"
Nobody == "nobody"
Owners == Users \cup {Root}

ASSUME RegistryAssumption ==
    /\ Root \notin Users /\ Nobody \notin Handlers
    /\ {MaxHosts, MaxTokens} \subseteq Nat \ {0} /\ {MaxMints, MaxCrashes} \subseteq Nat
    /\ Cardinality(Codes) > Cardinality(Users) + 1

\* A host id is the name asked for, or that name with its owner's suffix.
Plain(name) == [name |-> name, suffix |-> Root, n |-> 0]
Suffixed(name, o, n) == [name |-> name, suffix |-> o, n |-> n]

VARIABLES
    hosts,      \* hosts[id]: the owner of a paired host
    tokens,     \* tokens[t]: the host a token is for
    users,      \* accounts
    rootCode,   \* pairingCode
    codes,      \* userPairCodes: codes[c] = owner, and whether it has expired
    codeOf,     \* userPairCodeByOwner
    disk,       \* hub.json and users.json
    lock,       \* who holds persistMu and userPersistMu
    proc,       \* the handlers
    issued,     \* tokens issued so far
    mints,      \* codes issued on request so far
    crashes,
    acked,      \* history: tokens handed out, tokens known revoked, users known created, deleted
    spent,      \* history: how often each code redeemed since it was issued
    raced,      \* history: users whose deletion another request's pairing or unwritten
                \* unpairing overlapped
    failed      \* history: a write failed

vars == << hosts, tokens, users, rootCode, codes, codeOf, disk, lock, proc, issued, mints,
           crashes, acked, spent, raced, failed >>

Idle == [pc |-> "idle", op |-> "none", owner |-> Root, code |-> Nobody, name |-> Nobody,
         todo |-> {}, token |-> 0, dead |-> {}, snap |-> << >>]

Empty == [x \in {} |-> x]

\* A map with the entry of x set to v.
With(f, x, v) == [y \in DOMAIN f \cup {x} |-> IF y = x THEN v ELSE f[y]]

HubFile == [hosts |-> hosts, tokens |-> tokens]

Init ==
    /\ hosts = Empty /\ tokens = Empty /\ users = {}
    /\ rootCode \in Codes /\ codes = Empty /\ codeOf = Empty
    /\ disk = [hub |-> [hosts |-> Empty, tokens |-> Empty], users |-> {}]
    /\ lock = [hub |-> Nobody, users |-> Nobody]
    /\ proc = [p \in Handlers |-> Idle]
    /\ issued = 0 /\ mints = 0 /\ crashes = 0
    /\ acked = [tokens |-> {}, revoked |-> {}, created |-> {}, deleted |-> {}]
    /\ spent = [c \in Codes |-> 0] /\ raced = {} /\ failed = FALSE

TokensOf(id) == {t \in DOMAIN tokens : tokens[t] = id}
HostIDsForUser(u) == {id \in DOMAIN hosts : hosts[id] = u}

-----------------------------------------------------------------------------
(* Pairing codes: issued, rotated, expired.  None of this is persisted. *)

CodeKeeps == << hosts, tokens, users, disk, lock, proc, issued, crashes, acked, raced, failed >>

\* rotateCode never takes a code that a user holds.
FreshRoot(c) == c # rootCode /\ c \notin DOMAIN codes

RotateRoot(paid) ==
    \E c \in Codes : /\ FreshRoot(c)
                     /\ rootCode' = c /\ spent' = [spent EXCEPT ![rootCode] = @ + paid, ![c] = 0]

\* The operator, or the maintainer after expiry.
RotatePairingCode == mints < MaxMints /\ mints' = mints + 1 /\ RotateRoot(0)
                     /\ UNCHANGED << codes, codeOf, CodeKeeps >>

NewUserCode(u, old) ==
    \E c \in Codes \ ({rootCode} \cup DOMAIN old) :
        /\ codes' = With(old, c, [owner |-> u, expired |-> FALSE])
        /\ codeOf' = With(codeOf, u, c)
        /\ spent' = [spent EXCEPT ![c] = 0]

\* UserPairingCode: the live one, or a new one; an expired entry stays behind.
\* The request may have been admitted before its user was deleted.
UserPairingCode(u) ==
    /\ u \in acked.created /\ mints < MaxMints /\ mints' = mints + 1
    /\ ~(u \in DOMAIN codeOf /\ codeOf[u] \in DOMAIN codes /\ ~codes[codeOf[u]].expired)
    /\ NewUserCode(u, codes)
    /\ UNCHANGED << rootCode, CodeKeeps >>

RotateUserPairingCode(u) ==
    /\ u \in acked.created /\ mints < MaxMints /\ mints' = mints + 1
    /\ NewUserCode(u, IF u \in DOMAIN codeOf THEN Restrict(codes, DOMAIN codes \ {codeOf[u]}) ELSE codes)
    /\ UNCHANGED << rootCode, CodeKeeps >>

Expire(c) ==
    /\ c \in DOMAIN codes /\ ~codes[c].expired
    /\ codes' = [codes EXCEPT ![c].expired = TRUE]
    /\ UNCHANGED << rootCode, codeOf, mints, spent, CodeKeeps >>

-----------------------------------------------------------------------------
(* The handlers. *)

At(p, pc) == proc[p].pc = pc
Set(p, r) == proc' = [proc EXCEPT ![p] = r]

\* handlePair: OwnerForPairCode resolves the code without redeeming it ...
OwnerForPairCode(p, c, name) ==
    /\ At(p, "idle")
    /\ c = rootCode \/ (c \in DOMAIN codes /\ ~codes[c].expired)
    /\ Set(p, [Idle EXCEPT !.pc = "pair", !.op = "pair", !.code = c, !.name = name,
                           !.owner = IF c = rootCode THEN Root ELSE codes[c].owner])
    /\ UNCHANGED << hosts, tokens, users, rootCode, codes, codeOf, disk, lock, issued, mints,
                    crashes, acked, spent, raced, failed >>

\* ... and PairAs checks it again: the owner's own live code, of an account
\* that still exists.
CodeValid(o, c) ==
    IF o = Root THEN c = rootCode
    ELSE c \in DOMAIN codes /\ codes[c].owner = o /\ ~codes[c].expired /\ o \in users

\* resolveHostIDLocked: the name when it is free or the owner's, else the first
\* free suffix.
ResolveHostID(o, name) ==
    IF Plain(name) \notin DOMAIN hosts \/ hosts[Plain(name)] = o THEN Plain(name)
    ELSE LET free == {n \in 1 .. MaxHosts + 1 : Suffixed(name, o, n) \notin DOMAIN hosts}
         IN  Suffixed(name, o, CHOOSE n \in free : \A m \in free : n <= m)

\* Mutant: re-pairing adds a token to the ones the host has.
Revoked_None(id) == {}

\* revokeTokensForHostLocked.
Revoked(id) == TokensOf(id)

\* Mutant: a user's code stays redeemable.
Consume_Root(o, c) ==
    IF o = Root THEN RotateRoot(1) /\ UNCHANGED << codes, codeOf >>
    ELSE UNCHANGED << rootCode, codes, codeOf >> /\ spent' = [spent EXCEPT ![c] = @ + 1]

\* A code is spent by the pairing it paid for.
Consume(o, c) ==
    IF o = Root THEN RotateRoot(1) /\ UNCHANGED << codes, codeOf >>
    ELSE /\ codes' = Restrict(codes, DOMAIN codes \ {c})
         /\ codeOf' = Restrict(codeOf, DOMAIN codeOf \ {o})
         /\ spent' = [spent EXCEPT ![c] = @ + 1]
         /\ UNCHANGED rootCode

PairAs(p) ==
    LET o  == proc[p].owner
        c  == proc[p].code
        id == ResolveHostID(o, proc[p].name)
    IN  /\ At(p, "pair") /\ issued < MaxTokens
        /\ CodeValid(o, c) /\ (id \in DOMAIN hosts \/ Cardinality(DOMAIN hosts) < MaxHosts)
        /\ issued' = issued + 1
        /\ hosts' = With(hosts, id, o)
        /\ tokens' = With(Restrict(tokens, DOMAIN tokens \ Revoked(id)), issued + 1, id)
        /\ Consume(o, c)
        /\ raced' = raced \cup {u \in {o} : \E d \in Handlers : proc[d].op = "delete" /\ proc[d].owner = u}
        /\ Set(p, [proc[p] EXCEPT !.pc = "persist", !.token = issued + 1, !.dead = Revoked(id)])
        /\ UNCHANGED << users, disk, lock, mints, crashes, acked, failed >>

\* ErrCodeInvalid (a root code may also have expired and not been rotated yet),
\* ErrHostLimit: nothing changes, the code is not burnt.
PairRefused(p) ==
    LET o  == proc[p].owner
        id == ResolveHostID(o, proc[p].name)
    IN  /\ At(p, "pair")
        /\ ~CodeValid(o, proc[p].code) \/ o = Root \/ (id \notin DOMAIN hosts /\ Cardinality(DOMAIN hosts) >= MaxHosts)
        /\ Set(p, Idle)
        /\ UNCHANGED << hosts, tokens, users, rootCode, codes, codeOf, disk, lock, issued, mints,
                        crashes, acked, spent, raced, failed >>

HandlerKeeps == << rootCode, codes, codeOf, issued, mints, crashes, spent, raced >>

\* Unpair: tokens and host go together, the file follows.
RemoveHost(id) ==
    /\ hosts' = Restrict(hosts, DOMAIN hosts \ {id})
    /\ tokens' = Restrict(tokens, DOMAIN tokens \ TokensOf(id))

Unpair(p, id) ==
    /\ At(p, "idle") /\ id \in DOMAIN hosts
    /\ RemoveHost(id)
    /\ Set(p, [Idle EXCEPT !.pc = "persist", !.op = "unpair", !.dead = TokensOf(id)])
    /\ UNCHANGED << users, disk, lock, acked, failed, HandlerKeeps >>

\* RenameHost changes a name and writes the file.
RenameHost(p, id) ==
    /\ At(p, "idle") /\ id \in DOMAIN hosts
    /\ Set(p, [Idle EXCEPT !.pc = "persist", !.op = "rename"])
    /\ UNCHANGED << hosts, tokens, users, disk, lock, acked, failed, HandlerKeeps >>

CreateUser(p, u) ==
    /\ At(p, "idle") /\ u \notin users /\ u \notin acked.created \cup acked.deleted
    /\ \A q \in Handlers : proc[q].owner # u
    /\ users' = users \cup {u}
    /\ Set(p, [Idle EXCEPT !.pc = "persistUsers", !.op = "create", !.owner = u])
    /\ UNCHANGED << hosts, tokens, disk, lock, acked, failed, HandlerKeeps >>

\* handleUserDelete: a snapshot of the user's hosts ...
DeleteBegin(p, u) ==
    /\ At(p, "idle") /\ u \in users
    /\ Set(p, [Idle EXCEPT !.pc = "unpairAll", !.op = "delete", !.owner = u, !.todo = HostIDsForUser(u)])
    /\ UNCHANGED << hosts, tokens, users, disk, lock, acked, failed, HandlerKeeps >>

\* Mutant: the account goes without its hosts.
Todo_None(p) == {}

Todo(p) == proc[p].todo

\* ... each unpaired with its own write (one that is gone is skipped) ...
DeleteUnpair(p, id) ==
    /\ At(p, "unpairAll") /\ id \in Todo(p)
    /\ IF id \in DOMAIN hosts
       THEN /\ RemoveHost(id)
            /\ Set(p, [proc[p] EXCEPT !.pc = "persist", !.todo = @ \ {id}, !.dead = @ \cup TokensOf(id)])
       ELSE Set(p, [proc[p] EXCEPT !.todo = @ \ {id}]) /\ UNCHANGED << hosts, tokens >>
    /\ UNCHANGED << users, disk, lock, acked, failed, HandlerKeeps >>

\* A host that left memory and is still in hub.json.
Unwritten(q) == proc[q].op \in {"unpair", "delete"} /\ proc[q].pc \in {"persist", "write"}

\* ... then DeleteUser: the account and its pairing code.
DeleteUser(p) ==
    LET u == proc[p].owner
        c == IF u \in DOMAIN codeOf THEN {codeOf[u]} ELSE {}
    IN  /\ At(p, "unpairAll") /\ Todo(p) = {}
        /\ IF u \in users
           THEN /\ users' = users \ {u}
                /\ codes' = Restrict(codes, DOMAIN codes \ c)
                /\ codeOf' = Restrict(codeOf, DOMAIN codeOf \ {u})
                /\ Set(p, [proc[p] EXCEPT !.pc = "persistUsers"])
           ELSE Set(p, Idle) /\ UNCHANGED << users, codes, codeOf >>
        /\ raced' = raced \cup {v \in {u} : \E q \in Handlers \ {p} : Unwritten(q)}
        /\ UNCHANGED << hosts, tokens, rootCode, disk, lock, issued, mints, crashes, acked,
                        spent, failed >>

-----------------------------------------------------------------------------
(* Persistence: snapshot under h.mu, write outside it. *)

\* Mutant: nothing orders the snapshots of hub.json.
MayPersist_Unordered == TRUE

\* persistMu makes a snapshot and its write one ordered unit.
MayPersist == lock.hub = Nobody

Persist(p) ==
    /\ At(p, "persist") /\ MayPersist
    /\ lock' = [lock EXCEPT !.hub = p]
    /\ Set(p, [proc[p] EXCEPT !.pc = "write", !.snap = HubFile])
    /\ UNCHANGED << hosts, tokens, users, disk, acked, failed, HandlerKeeps >>

\* The answer of a handler whose hub.json is written; a deletion goes on.
Answered(p) ==
    IF proc[p].op = "delete" THEN [proc[p] EXCEPT !.pc = "unpairAll", !.snap = << >>] ELSE Idle

\* writePersist: temp file and rename; a failure is only logged.
Write(p) ==
    /\ At(p, "write")
    /\ \/ disk' = [disk EXCEPT !.hub = proc[p].snap] /\ UNCHANGED failed
       \/ failed' = TRUE /\ UNCHANGED disk
    /\ lock' = [lock EXCEPT !.hub = Nobody]
    /\ Set(p, Answered(p))
    /\ acked' = [acked EXCEPT !.tokens = @ \cup ({proc[p].token} \ {0}), !.revoked = @ \cup proc[p].dead]
    /\ UNCHANGED << hosts, tokens, users, HandlerKeeps >>

PersistUsers(p) ==
    /\ At(p, "persistUsers") /\ lock.users = Nobody
    /\ lock' = [lock EXCEPT !.users = p]
    /\ Set(p, [proc[p] EXCEPT !.pc = "writeUsers", !.snap = users])
    /\ UNCHANGED << hosts, tokens, users, disk, acked, failed, HandlerKeeps >>

WriteUsers(p) ==
    /\ At(p, "writeUsers")
    /\ \/ disk' = [disk EXCEPT !.users = proc[p].snap] /\ UNCHANGED failed
       \/ failed' = TRUE /\ UNCHANGED disk
    /\ lock' = [lock EXCEPT !.users = Nobody]
    /\ Set(p, Idle)
    /\ acked' = IF proc[p].op = "create" THEN [acked EXCEPT !.created = @ \cup {proc[p].owner}]
                ELSE [acked EXCEPT !.deleted = @ \cup {proc[p].owner}]
    /\ UNCHANGED << hosts, tokens, users, HandlerKeeps >>

\* A crash and the restart: requests die, codes are new, load reads the files.
Crash ==
    /\ crashes < MaxCrashes /\ crashes' = crashes + 1
    /\ hosts' = disk.hub.hosts /\ tokens' = disk.hub.tokens /\ users' = disk.users
    /\ codes' = Empty /\ codeOf' = Empty
    /\ RotateRoot(0)
    /\ lock' = [lock EXCEPT !.hub = Nobody, !.users = Nobody]
    /\ proc' = [p \in Handlers |-> Idle]
    /\ UNCHANGED << disk, issued, mints, acked, raced, failed >>

-----------------------------------------------------------------------------

HandlerStep(p) ==
    \/ \E c \in Codes, n \in Names : OwnerForPairCode(p, c, n)
    \/ PairAs(p) \/ PairRefused(p)
    \/ \E id \in DOMAIN hosts : Unpair(p, id) \/ RenameHost(p, id)
    \/ \E u \in Users : CreateUser(p, u) \/ DeleteBegin(p, u)
    \/ \E id \in proc[p].todo : DeleteUnpair(p, id)
    \/ DeleteUser(p) \/ Persist(p) \/ Write(p) \/ PersistUsers(p) \/ WriteUsers(p)

Next ==
    \/ \E p \in Handlers : HandlerStep(p)
    \/ RotatePairingCode \/ Crash
    \/ \E u \in Users : UserPairingCode(u) \/ RotateUserPairingCode(u)
    \/ \E c \in Codes : Expire(c)

Spec == Init /\ [][Next]_vars

-----------------------------------------------------------------------------
(* Properties. *)

\* Every token names a host and every host has exactly one, in memory and in
\* the file a restart would load, however pairings, re-pairings, deletions and
\* crashes overlap (PairAs, revokeTokensForHostLocked, snapshotLocked, load).
OneTokenPerHost ==
    \A r \in {HubFile, disk.hub} :
        /\ \A t \in DOMAIN r.tokens : r.tokens[t] \in DOMAIN r.hosts
        /\ \A id \in DOMAIN r.hosts : Cardinality({t \in DOMAIN r.tokens : r.tokens[t] = id}) = 1

\* "The file always ends on the newest state": what was answered is what a
\* restart finds.  A token handed out and not revoked since is in the file, a
\* token whose revocation was answered is not, and the same for accounts, unless
\* a write failed (persistNow, persistMu, persistUsersNow).
AcknowledgedDurable ==
    failed \/
        /\ acked.revoked \cap DOMAIN disk.hub.tokens = {}
        /\ \A t \in acked.tokens : t \in DOMAIN tokens => t \in DOMAIN disk.hub.tokens
        /\ \A u \in acked.created : u \in users => u \in disk.users
        /\ acked.deleted \cap disk.users = {}

\* A code pays for one pairing at most between two issues of it, and a root code
\* is never a user's (rotateCode, newUniquePairCodeLocked, PairAs).
CodeIsOneShot ==
    /\ rootCode \notin DOMAIN codes
    /\ \A c \in Codes : spent[c] <= 1

\* "So no orphan host keeps a live credential": when the deletion of an account
\* was answered, none of its hosts is left or comes back with a restart, unless
\* one was paired between the deletion's snapshot and its end, another request's
\* unpairing was not written when the account went, or a write failed
\* (handleUserDelete).
NoOrphanHost ==
    \A u \in acked.deleted : u \in raced \/ failed \/ HostIDsForUser(u) = {}
=============================================================================
