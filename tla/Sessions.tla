------------------------------ MODULE Sessions ------------------------------
(***************************************************************************)
(* Server-side sessions: SessionManager.Create, Validate and Revoke over   *)
(* the Redis keys session:<token>, the session middleware in front of      *)
(* GET /auth/me, and POST /auth/logout.                                    *)
(*                                                                         *)
(* A session carries two deadlines.  Redis drops the key ttl after the SET *)
(* is executed; the value holds ExpiresAt, computed before the SET and     *)
(* rounded down to a second, which Validate compares with its own clock.   *)
(* Requests interleave between calls, and a call may fail with no effect   *)
(* or with its effect applied and the answer lost.                         *)
(***************************************************************************)
EXTENDS Naturals

CONSTANTS
    Tokens,     \* session tokens; GenerateToken(32) never repeats one
    Reqs,       \* requests to a protected route
    Logouts,    \* logout requests
    None,       \* no token, or a missing key
    TTL,        \* SESSION_TTL, in ticks
    Second,     \* ticks in a second
    MaxClock    \* bound on the clock

ASSUME SessionConstants ==
    /\ TTL \in Nat \ {0} /\ Second \in Nat \ {0} /\ MaxClock \in Nat
    /\ None \notin Tokens /\ None \notin 0..(MaxClock + TTL)

VARIABLES
    now,       \* the clock of the server and of Redis
    store,     \* store[t]: ExpiresAt as stored under session:<t>, or None
    storeExp,  \* storeExp[t]: when Redis drops the key
    create,    \* create[t]: progress of the login that creates session t
    req,       \* req[r]: progress of a request through the middleware
    logout,    \* logout[l]: progress of a logout
    revoked    \* tokens whose revocation Redis confirmed (history)

vars == <<now, store, storeExp, create, req, logout, revoked>>

Deadlines == 0..(MaxClock + TTL)
ReqPC == {"idle", "get", "check", "drop", "accepted", "unauthorized", "unavailable"}

TypeOK ==
    /\ now \in 0..MaxClock
    /\ store \in [Tokens -> Deadlines \cup {None}]
    /\ storeExp \in [Tokens -> Deadlines]
    /\ create \in [Tokens -> [pc : {"idle", "set", "created", "error"}, at : 0..MaxClock]]
    /\ req \in [Reqs -> [pc : ReqPC, token : Tokens \cup {None}, exp : Deadlines,
                         stale : SUBSET Tokens, done : 0..MaxClock]]
    /\ logout \in [Logouts -> [pc : {"idle", "del", "loggedout"}, token : Tokens \cup {None}]]
    /\ revoked \in SUBSET Tokens

Init ==
    /\ now = 0
    /\ store = [t \in Tokens |-> None]
    /\ storeExp = [t \in Tokens |-> 0]
    /\ create = [t \in Tokens |-> [pc |-> "idle", at |-> 0]]
    /\ req = [r \in Reqs |-> [pc |-> "idle", token |-> None, exp |-> 0, stale |-> {}, done |-> 0]]
    /\ logout = [l \in Logouts |-> [pc |-> "idle", token |-> None]]
    /\ revoked = {}

Outcomes == {"ok", "fail", "lost", "again"}
Executed(out) == out # "fail"

\* Tokens a browser can present: the cookie is set only once Create has returned.
Issued == {t \in Tokens : create[t].pc = "created"}

----------------------------------------------------------------------------
(* SessionManager.Create.                                                  *)

\* Truncation to Unix seconds by sessionJSON.
UnixCoarser(t) == t - (t % (2 * Second))   \* a unit longer than the second
Unix(t) == t - (t % Second)

\* A fresh token, which may fail to be drawn; expiresAt is computed now.
Create(t) ==
    /\ create[t].pc = "idle"
    /\ \E pc \in {"set", "error"} : create' = [create EXCEPT ![t] = [pc |-> pc, at |-> now]]
    /\ UNCHANGED <<now, store, storeExp, req, logout, revoked>>

ExpiresAt(t) == create[t].at + TTL

\* SessionStore.Create: SET with the TTL, counted from its execution.
CreateSet(t) ==
    /\ create[t].pc = "set"
    /\ \E out \in Outcomes :
        /\ store' = IF Executed(out) THEN [store EXCEPT ![t] = Unix(ExpiresAt(t))] ELSE store
        /\ storeExp' = IF Executed(out) THEN [storeExp EXCEPT ![t] = now + TTL] ELSE storeExp
        /\ create' = [create EXCEPT ![t].pc = CASE out = "ok" -> "created"
                                                [] out = "again" -> "set"
                                                [] OTHER -> "error"]
    /\ UNCHANGED <<now, req, logout, revoked>>

----------------------------------------------------------------------------
(* The session middleware and SessionManager.Validate.                     *)

GotoReq(r, pc) == req' = [req EXCEPT ![r].pc = pc, ![r].done = now]

\* A request arrives with a cookie, or without one and is refused.
Request(r, t) ==
    /\ req[r].pc = "idle"
    /\ t \in Issued \cup {None}
    /\ req' = [req EXCEPT ![r] = [pc |-> IF t = None THEN "unauthorized" ELSE "get",
                                  token |-> t, exp |-> 0, stale |-> {}, done |-> now]]
    /\ UNCHANGED <<now, store, storeExp, create, logout, revoked>>

GetByToken(t) == store[t]
Delete(t) == [store EXCEPT ![t] = None]

\* GetByToken: no key is a 401, a failing Redis a 503.
ValidateGet(r) ==
    LET t == req[r].token IN
    /\ req[r].pc = "get"
    /\ \/ GotoReq(r, "unavailable")
       \/ GetByToken(t) = None /\ GotoReq(r, "unauthorized")
       \/ /\ GetByToken(t) # None
          /\ req' = [req EXCEPT ![r].pc = "check", ![r].exp = GetByToken(t), ![r].stale = revoked]
    /\ UNCHANGED <<now, store, storeExp, create, logout, revoked>>

\* A Validate that leaves expiry to Redis.
ValidateCheckNothing(r) ==
    /\ req[r].pc = "check"
    /\ GotoReq(r, "accepted")
    /\ UNCHANGED <<now, store, storeExp, create, logout, revoked>>

\* time.Now().After(ExpiresAt); on success the handler runs with the session's identity.
ValidateCheck(r) ==
    /\ req[r].pc = "check"
    /\ GotoReq(r, IF now > req[r].exp THEN "drop" ELSE "accepted")
    /\ UNCHANGED <<now, store, storeExp, create, logout, revoked>>

\* The expired session is deleted; a failure to do so is only logged.
ValidateDrop(r) ==
    /\ req[r].pc = "drop"
    /\ \E out \in Outcomes :
        /\ store' = IF Executed(out) THEN Delete(req[r].token) ELSE store
        /\ IF out = "again" THEN UNCHANGED req ELSE GotoReq(r, "unauthorized")
    /\ UNCHANGED <<now, storeExp, create, logout, revoked>>

----------------------------------------------------------------------------
(* Logout.                                                                 *)

\* Without a cookie there is nothing to revoke.
Logout(l, t) ==
    /\ logout[l].pc = "idle"
    /\ t \in Issued \cup {None}
    /\ logout' = [logout EXCEPT ![l] = [pc |-> IF t = None THEN "loggedout" ELSE "del",
                                        token |-> t]]
    /\ UNCHANGED <<now, store, storeExp, create, req, revoked>>

\* A Revoke that marks the session revoked but keeps its key.
LogoutRevokeKeepsKey(l) ==
    /\ logout[l].pc = "del"
    /\ revoked' = revoked \cup {logout[l].token}
    /\ logout' = [logout EXCEPT ![l].pc = "loggedout"]
    /\ UNCHANGED <<now, store, storeExp, create, req>>

\* Revoke: DEL.  The handler logs a failure and answers 200 in either case.
LogoutRevoke(l) ==
    LET t == logout[l].token IN
    /\ logout[l].pc = "del"
    /\ \E out \in Outcomes :
        /\ store' = IF Executed(out) THEN Delete(t) ELSE store
        /\ revoked' = IF out = "ok" THEN revoked \cup {t} ELSE revoked
        /\ logout' = [logout EXCEPT ![l].pc = IF out = "again" THEN "del" ELSE "loggedout"]
    /\ UNCHANGED <<now, storeExp, create, req>>

----------------------------------------------------------------------------

\* Time passes; Redis drops the keys whose TTL is over.
Tick ==
    /\ now < MaxClock
    /\ now' = now + 1
    /\ store' = [t \in Tokens |-> IF storeExp[t] <= now' THEN None ELSE store[t]]
    /\ UNCHANGED <<storeExp, create, req, logout, revoked>>

Next ==
    \/ \E t \in Tokens : Create(t) \/ CreateSet(t)
    \/ \E r \in Reqs, t \in Tokens \cup {None} : Request(r, t)
    \/ \E r \in Reqs : ValidateGet(r) \/ ValidateCheck(r) \/ ValidateDrop(r)
    \/ \E l \in Logouts, t \in Tokens \cup {None} : Logout(l, t)
    \/ \E l \in Logouts : LogoutRevoke(l)
    \/ Tick

Spec == Init /\ [][Next]_vars

----------------------------------------------------------------------------
(* Properties.                                                             *)

\* No request is let in later than TTL after its session was created, even when the
\* SET was delayed so that Redis still holds the key (Validate's own check).
NotAcceptedAfterTTL ==
    \A r \in Reqs : req[r].pc = "accepted" => req[r].done <= ExpiresAt(req[r].token)

\* A request that reads its session after a logout's DEL of it succeeded is not let in,
\* whenever it arrived.  Only one that had read the session before may still be.
RevokedSessionRejected ==
    \A r \in Reqs : req[r].pc = "accepted" => req[r].token \notin req[r].stale

\* A session whose creation succeeded is one Validate would accept until a second before
\* its ExpiresAt, unless a logout asked for its removal: the truncation to seconds costs less
\* than one, and neither Redis's TTL nor the cleanup of an expired session comes early.
LiveSessionKept ==
    \A t \in Issued :
        \/ store[t] # None /\ now <= store[t]
        \/ now + Second > ExpiresAt(t)
        \/ \E l \in Logouts : logout[l].token = t

\* "Revokes the server-side session and clears the session cookie": after the 200 of a
\* logout, Redis does not hold the session (contracts/http/openapi.yaml, /auth/logout).
LogoutRevokesSession ==
    \A l \in Logouts :
        logout[l].pc = "loggedout" /\ logout[l].token # None => store[logout[l].token] = None
=============================================================================
