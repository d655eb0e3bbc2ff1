------------------------------- MODULE Users -------------------------------
(***************************************************************************)
(* Accounts: UserStore over Postgres behind CachedUserStore, whose cache   *)
(* entries live in Redis.                                                  *)
(*                                                                         *)
(* UpsertOAuthConnection is one statement, but its parts see the database  *)
(* at different times: `existing' reads the snapshot the statement began   *)
(* with, its INSERTs meet what has been committed since.  A cache miss     *)
(* reads the database and writes the cache as two steps.                   *)
(***************************************************************************)
EXTENDS Integers

CONSTANTS
    Calls,      \* calls of the repository
    Emails,
    MaxUsers,   \* bound on the accounts
    CacheTTL,
    None

VARIABLES
    now,
    users,     \* users[id]: a row of the users table, or None
    link,      \* the account a provider identity is connected to, or None
    linkedBy,  \* the call that connected it (history)
    cache,     \* cache[id]: the cached account, or None
    uexp,      \* uexp[id]: when Redis drops the entry
    op         \* op[c]: progress and answer of a call

vars == <<now, users, link, linkedBy, cache, uexp, op>>

IDs == 1..MaxUsers
Status == {"active", "disabled"}
Rows == [email : Emails, status : Status, changed : Nat]   \* changed: history
Copies == [status : Status, read : Nat]                     \* read: history
Entries == [copy : Copies, stored : Nat]
Answers == {"none", "user", "not_found", "duplicate", "error"}

TypeOK ==
    /\ users \in [IDs -> Rows \cup {None}]
    /\ \A i, j \in IDs : i # j /\ None \notin {users[i], users[j]} => users[i].email # users[j].email
    /\ link \in IDs \cup {None} /\ linkedBy \in Calls \cup {None}
    /\ cache \in [IDs -> Entries \cup {None}] /\ uexp \in [IDs -> Nat]
    /\ op \in [Calls -> [pc : {"idle", "upsert", "invalidate", "load", "fill", "done"},
                         email : Emails \cup {None}, existing : IDs \cup {None},
                         id : IDs \cup {None}, copy : Copies \cup {None}, answer : Answers]]

Init ==
    /\ users = [i \in IDs |-> None] /\ link = None /\ linkedBy = None
    /\ cache = [i \in IDs |-> None] /\ uexp = [i \in IDs |-> 0]
    /\ op = [c \in Calls |-> [pc |-> "idle", email |-> None, existing |-> None, id |-> None,
                              copy |-> None, answer |-> "none"]]

Exists(i) == users[i] # None
WithEmail(email) == {i \in IDs : Exists(i) /\ users[i].email = email}
Fresh == {i \in IDs : ~Exists(i) /\ \A j \in 1..(i - 1) : Exists(j)}
NewRow(email) == [email |-> email, status |-> "active", changed |-> now]
Copy(i) == [status |-> users[i].status, read |-> now]

db == <<users, link, linkedBy>>
redis == <<cache, uexp>>
\* The caller takes the user, if any, and goes on with it.
Return(c, answer) == op' = [op EXCEPT ![c].pc = "done", ![c].copy = None, ![c].answer = answer]

\* Of a failed statement the application knows the SQLSTATE, unless the connection broke:
\* wrapSelectErr and wrapWriteErr.
wrapSelectErr(rows) == IF rows = {} THEN "not_found" ELSE "user"
wrapWriteErr(rows) == IF rows # {} THEN "duplicate" ELSE "user"

----------------------------------------------------------------------------
(* UserStore.                                                              *)

GetByEmail(c, email) ==
    /\ op[c].pc = "idle"
    /\ \E answer \in {wrapSelectErr(WithEmail(email)), "error"} : Return(c, answer)
    /\ UNCHANGED <<now, db, redis>>

\* INSERT, which the unique address refuses; its answer may be lost.
CreateByEmail(c, email) ==
    /\ op[c].pc = "idle"
    /\ \/ /\ WithEmail(email) = {}
          /\ \E i \in Fresh : users' = [users EXCEPT ![i] = NewRow(email)]
       \/ UNCHANGED users
    /\ \E answer \in {"error"} \cup (IF users' # users \/ WithEmail(email) # {}
                                     THEN {wrapWriteErr(WithEmail(email))} ELSE {}) :
        Return(c, answer)
    /\ UNCHANGED <<now, link, linkedBy, redis>>

\* UpsertOAuthConnection begins: `existing' is what the snapshot has for the identity.
UpsertOAuthUser(c, email) ==
    /\ op[c].pc = "idle"
    /\ op' = [op EXCEPT ![c].pc = "upsert", ![c].email = email, ![c].existing = link,
                        ![c].id = link, ![c].copy = IF link = None THEN None ELSE Copy(link)]
    /\ UNCHANGED <<now, db, redis>>

\* An upsert that connects only the accounts it made.
ConnectNewOnly(c, i) ==
    IF link = None /\ ~Exists(i) THEN link' = i /\ linkedBy' = c
    ELSE UNCHANGED <<link, linkedBy>>
\* ensure_connection: ON CONFLICT DO NOTHING.
Connect(c, i) ==
    IF link = None THEN link' = i /\ linkedBy' = c ELSE UNCHANGED <<link, linkedBy>>

\* target_user: the connected account, or new_user: the one that has the address, also if
\* it was committed since the snapshot, or a new one.
Targets(c) ==
    IF op[c].existing # None THEN {op[c].existing}
    ELSE IF WithEmail(op[c].email) # {} THEN WithEmail(op[c].email) ELSE Fresh

UpsertOAuthConnection(c, i) ==
    /\ users' = IF Exists(i) THEN users ELSE [users EXCEPT ![i] = NewRow(op[c].email)]
    /\ Connect(c, i)

\* The statement answers: a connected account as the snapshot had it.
Upsert(c) ==
    /\ op[c].pc = "upsert"
    /\ \E i \in Targets(c) :
        /\ UpsertOAuthConnection(c, i)
        /\ op' = [op EXCEPT ![c].pc = "invalidate", ![c].id = i,
                            ![c].copy = IF op[c].existing # None THEN @
                                        ELSE [status |-> users'[i].status, read |-> now]]
    /\ UNCHANGED <<now, redis>>

\* The statement fails, or commits and its answer is lost.
UpsertFails(c) ==
    /\ op[c].pc = "upsert"
    /\ UNCHANGED db \/ \E i \in Targets(c) : UpsertOAuthConnection(c, i)
    /\ Return(c, "error")
    /\ UNCHANGED <<now, redis>>

----------------------------------------------------------------------------
(* CachedUserStore.                                                        *)

\* The cache entry of an upserted account is deleted; a failure is only logged.
DeleteByID(c) ==
    /\ op[c].pc = "invalidate"
    /\ cache' \in {cache, [cache EXCEPT ![op[c].id] = None]}
    /\ Return(c, "user")
    /\ UNCHANGED <<now, db, uexp>>

\* UserCacheStore.GetByID.
Hit(i) == cache[i] # None

\* A hit answers; a miss or a failing cache asks the database.
GetByID(c, i) ==
    /\ op[c].pc = "idle"
    /\ \/ /\ Hit(i)
          /\ Return(c, "user")
       \/ op' = [op EXCEPT ![c].pc = "load", ![c].id = i]
    /\ UNCHANGED <<now, db, redis>>

Load(c) ==
    /\ op[c].pc = "load"
    /\ \/ /\ Exists(op[c].id)
          /\ op' = [op EXCEPT ![c].pc = "fill", ![c].copy = Copy(op[c].id)]
       \/ ~Exists(op[c].id) /\ Return(c, "not_found")
       \/ Return(c, "error")
    /\ UNCHANGED <<now, db, redis>>

\* A SET without a time to live.
SetByIDForever(c) ==
    /\ op[c].pc = "fill"
    /\ cache' = [cache EXCEPT ![op[c].id] = [copy |-> op[c].copy, stored |-> now]]
    /\ uexp' = [uexp EXCEPT ![op[c].id] = now + 100 * CacheTTL]
    /\ Return(c, "user")
    /\ UNCHANGED <<now, db>>
\* SET with the TTL; a failure is only logged.
SetByID(c) ==
    /\ op[c].pc = "fill"
    /\ \/ /\ cache' = [cache EXCEPT ![op[c].id] = [copy |-> op[c].copy, stored |-> now]]
          /\ uexp' = [uexp EXCEPT ![op[c].id] = now + CacheTTL]
       \/ UNCHANGED redis
    /\ Return(c, "user")
    /\ UNCHANGED <<now, db>>

\* Somebody else changes the status of an account: nothing tells the cache.
StatusChanges(i) ==
    /\ Exists(i)
    /\ \E new \in Status \ {users[i].status} :
        users' = [users EXCEPT ![i] = [@ EXCEPT !.status = new, !.changed = now]]
    /\ UNCHANGED <<now, link, linkedBy, redis, op>>

Expired(time) == cache' = [i \in IDs |-> IF uexp[i] <= time THEN None ELSE cache[i]]

Next ==
    \/ \E c \in Calls, email \in Emails :
        GetByEmail(c, email) \/ CreateByEmail(c, email) \/ UpsertOAuthUser(c, email)
    \/ \E c \in Calls : Upsert(c) \/ UpsertFails(c) \/ DeleteByID(c) \/ Load(c) \/ SetByID(c)
    \/ \E c \in Calls, i \in IDs : GetByID(c, i)
    \/ \E i \in IDs : StatusChanges(i)

----------------------------------------------------------------------------

\* An upsert answers with an account the identity is not connected to only if another one
\* connected it meanwhile, for another address; otherwise everybody who logs in with the
\* identity gets one account, also when the connecting upsert's own answer was lost.
StrayAccountOnlyFromRace ==
    \A c \in Calls :
        op[c].email # None /\ op[c].answer = "user" /\ op[c].id # link =>
            /\ op[c].existing = None
            /\ linkedBy \notin {None, c} /\ op[linkedBy].email # op[c].email

\* A cached copy that no longer agrees with its account was loaded before the account
\* changed, and is gone CacheTTL after it was stored, whichever reads and invalidations
\* raced with the change.
StaleCopyExpires ==
    \A i \in IDs :
        cache[i] # None /\ cache[i].copy.status # users[i].status =>
            cache[i].copy.read <= users[i].changed /\ now < cache[i].stored + CacheTTL
=============================================================================
