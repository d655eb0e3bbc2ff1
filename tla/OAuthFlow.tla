----------------------------- MODULE OAuthFlow -----------------------------
(***************************************************************************)
(* OAuth login: GET /auth/oauth/:provider/authorize and .../callback.      *)
(*                                                                         *)
(* Authorize draws a state and a browser binding, stores the hash of the   *)
(* binding under oauth_state:<state> and answers with a redirect that      *)
(* carries the state and a cookie that carries the binding.  The callback  *)
(* must come back with both.  A browser has one such cookie, whatever the  *)
(* number of flows it has open, and it changes when a response arrives.    *)
(***************************************************************************)
EXTENDS Naturals, FiniteSets

CONSTANTS
    Browsers,
    Flows,        \* authorize requests; a flow stands for its state and for its binding
    Callbacks,    \* callback requests
    None,
    TTL,          \* BrowserBindingTTL, in ticks
    MaxClock      \* bound on the clock

Results == {"ok", "unauthorized", "forbidden", "invalid", "timeout", "internal"}
Statuses == {"active", "disabled"}

ASSUME OAuthConstants ==
    TTL \in Nat \ {0} /\ MaxClock \in Nat /\ None \notin Flows \cup Browsers \cup Results \cup Statuses

VARIABLES
    now,
    stored,     \* flows whose oauth_state key Redis holds, with the hash of their binding
    storedExp,  \* storedExp[f]: when Redis drops that key
    cookie,     \* cookie[b]: the flow whose binding browser b's cookie carries, or None
    cookieExp,  \* cookieExp[b]: when the browser drops it
    flow,       \* flow[f]: progress of an authorize request
    cb,         \* cb[c]: progress of a callback request
    user,       \* status of the account behind the external identity, or None
    exchanges,  \* exchanges[f]: code exchanges made on behalf of state f (history)
    sessions,   \* callbacks whose session was stored
    faults      \* callbacks that met a failing call or an expired state (history)

vars == <<now, stored, storedExp, cookie, cookieExp, flow, cb, user, exchanges, sessions, faults>>
redis == <<stored, storedExp>>
jar == <<cookie, cookieExp>>

CbPC == {"idle", "consume", "exchange", "upsert", "session", "respond", "done"}

TypeOK ==
    /\ now \in 0..MaxClock
    /\ stored \in SUBSET Flows
    /\ storedExp \in [Flows -> 0..(MaxClock + TTL)]
    /\ cookie \in [Browsers -> Flows \cup {None}]
    /\ cookieExp \in [Browsers -> 0..(MaxClock + TTL)]
    /\ flow \in [Flows -> [pc : {"idle", "store", "respond", "redirected", "error"},
                           browser : Browsers \cup {None}]]
    /\ cb \in [Callbacks -> [pc : CbPC, browser : Browsers \cup {None},
                             state : Flows \cup {None}, binding : Flows \cup {None},
                             result : Results \cup {None}]]
    /\ user \in Statuses \cup {None}
    /\ exchanges \in [Flows -> Nat]
    /\ sessions \in SUBSET Callbacks
    /\ faults \in SUBSET Callbacks

Init ==
    /\ now = 0
    /\ stored = {} /\ storedExp = [f \in Flows |-> 0]
    /\ cookie = [b \in Browsers |-> None] /\ cookieExp = [b \in Browsers |-> 0]
    /\ flow = [f \in Flows |-> [pc |-> "idle", browser |-> None]]
    /\ cb = [c \in Callbacks |-> [pc |-> "idle", browser |-> None, state |-> None,
                                  binding |-> None, result |-> None]]
    /\ user \in Statuses \cup {None}
    /\ exchanges = [f \in Flows |-> 0]
    /\ sessions = {} /\ faults = {}

Outcomes == {"ok", "fail", "lost", "again"}
Executed(out) == out # "fail"

----------------------------------------------------------------------------
(* Authorize.                                                              *)

\* An unsupported provider, or a failure to draw the tokens, ends the request.
Authorize(f, b) ==
    /\ flow[f].pc = "idle"
    /\ \E pc \in {"store", "error"} : flow' = [flow EXCEPT ![f] = [pc |-> pc, browser |-> b]]
    /\ UNCHANGED <<now, redis, jar, cb, user, exchanges, sessions, faults>>

\* OAuthStateStore.Store: SET with BrowserBindingTTL.
Store(f) ==
    /\ stored' = stored \cup {f}
    /\ storedExp' = [storedExp EXCEPT ![f] = now + TTL]

AuthorizeStore(f) ==
    /\ flow[f].pc = "store"
    /\ \E out \in Outcomes :
        /\ IF Executed(out) THEN Store(f) ELSE UNCHANGED redis
        /\ flow' = [flow EXCEPT ![f].pc = CASE out = "ok" -> "respond"
                                            [] out = "again" -> "store"
                                            [] OTHER -> "error"]
    /\ UNCHANGED <<now, jar, cb, user, exchanges, sessions, faults>>

\* A cookie that is set to live a tick less than the state.
AuthorizeRespondShortCookie(f) ==
    LET b == flow[f].browser IN
    /\ flow[f].pc = "respond"
    /\ cookie' = [cookie EXCEPT ![b] = f]
    /\ cookieExp' = [cookieExp EXCEPT ![b] = now + TTL - 1]
    /\ flow' = [flow EXCEPT ![f].pc = "redirected"]
    /\ UNCHANGED <<now, redis, cb, user, exchanges, sessions, faults>>

\* The redirect reaches the browser and replaces its binding cookie.
AuthorizeRespond(f) ==
    LET b == flow[f].browser IN
    /\ flow[f].pc = "respond"
    /\ cookie' = [cookie EXCEPT ![b] = f]
    /\ cookieExp' = [cookieExp EXCEPT ![b] = now + TTL]
    /\ flow' = [flow EXCEPT ![f].pc = "redirected"]
    /\ UNCHANGED <<now, redis, cb, user, exchanges, sessions, faults>>

----------------------------------------------------------------------------
(* OAuthCallback and HandleCallback.                                       *)

GotoCb(c, pc) == cb' = [cb EXCEPT ![c].pc = pc]
Answer(c, result) == cb' = [cb EXCEPT ![c].pc = "respond", ![c].result = result]
Fault(c) == faults' = faults \cup {c}

\* A callback URL is opened in some browser: its state is one the server redirected with
\* (in whichever browser that was) or an unknown one (None).  Without the cookie the
\* request is refused before the usecase runs; an unknown provider is refused first in it.
Callback(c, b, f, supported) ==
    /\ cb[c].pc = "idle"
    /\ f # None => flow[f].pc = "redirected"
    /\ LET start(pc, result) ==
            cb' = [cb EXCEPT ![c] = [pc |-> pc, browser |-> b, state |-> f,
                                     binding |-> cookie[b], result |-> result]]
       IN CASE cookie[b] = None -> start("respond", "unauthorized")
            [] cookie[b] # None /\ ~supported -> start("respond", "invalid")
            [] OTHER -> start("consume", None)
    /\ faults' = IF ~supported \/ (f # None /\ now >= storedExp[f])
                 THEN faults \cup {c} ELSE faults
    /\ UNCHANGED <<now, redis, jar, flow, user, exchanges, sessions>>

\* Reading the state and deleting it only after the exchange.
CallbackConsumeKeepsState(c) ==
    LET f == cb[c].state IN
    /\ cb[c].pc = "consume"
    /\ IF f \in stored /\ cb[c].binding = f THEN GotoCb(c, "exchange")
                                            ELSE Answer(c, "unauthorized")
    /\ UNCHANGED <<now, redis, jar, flow, user, exchanges, sessions, faults>>

\* Forgetting to compare the binding.
CallbackConsumeAnyBinding(c) ==
    LET f == cb[c].state IN
    /\ cb[c].pc = "consume"
    /\ stored' = stored \ {f}
    /\ IF f \in stored THEN GotoCb(c, "exchange") ELSE Answer(c, "unauthorized")
    /\ UNCHANGED <<now, storedExp, jar, flow, user, exchanges, sessions, faults>>

\* GET and DEL in one script.
Consume(f) == stored \ {f}

\* consumeOAuthStateScript deletes the state whatever comes next; then the hash of the
\* cookie's binding is compared with the stored one.
CallbackConsume(c) ==
    LET f == cb[c].state IN
    /\ cb[c].pc = "consume"
    /\ \E out \in Outcomes :
        /\ stored' = IF Executed(out) THEN Consume(f) ELSE stored
        /\ CASE out = "ok" /\ f \in stored /\ cb[c].binding = f -> GotoCb(c, "exchange")
             [] out = "ok" /\ ~(f \in stored /\ cb[c].binding = f) -> Answer(c, "unauthorized")
             [] out = "again" -> UNCHANGED cb
             [] OTHER -> Answer(c, "internal")
        /\ IF out # "ok" \/ (f # None /\ now >= storedExp[f]) THEN Fault(c) ELSE UNCHANGED faults
    /\ UNCHANGED <<now, storedExp, jar, flow, user, exchanges, sessions>>

\* A failed exchange that puts the state back for another attempt.
CallbackExchangeGivesBack(c) ==
    /\ cb[c].pc = "exchange"
    /\ exchanges' = [exchanges EXCEPT ![cb[c].state] = @ + 1]
    /\ \/ GotoCb(c, "upsert") /\ UNCHANGED <<redis, faults>>
       \/ Answer(c, "timeout") /\ Fault(c) /\ Store(cb[c].state)
    /\ UNCHANGED <<now, jar, flow, user, sessions>>

\* The provider's code exchange, with the binding as PKCE verifier.
CallbackExchange(c) ==
    /\ cb[c].pc = "exchange"
    /\ exchanges' = [exchanges EXCEPT ![cb[c].state] = @ + 1]
    /\ \/ GotoCb(c, "upsert") /\ UNCHANGED faults
       \/ \E result \in {"unauthorized", "timeout"} : Answer(c, result) /\ Fault(c)
    /\ UNCHANGED <<now, redis, jar, flow, user, sessions>>

\* UpsertOAuthUser finds or creates the account, then its status is checked.
CallbackUpsert(c) ==
    /\ cb[c].pc = "upsert"
    /\ \/ /\ user' = IF user = None THEN "active" ELSE user
          /\ IF user' = "active" THEN GotoCb(c, "session") ELSE Answer(c, "forbidden")
          /\ UNCHANGED faults
       \/ /\ user' \in {user, IF user = None THEN "active" ELSE user}
          /\ Answer(c, "internal") /\ Fault(c)
    /\ UNCHANGED <<now, redis, jar, flow, exchanges, sessions>>

\* SessionManager.Create.
CallbackSession(c) ==
    /\ cb[c].pc = "session"
    /\ \E out \in Outcomes :
        /\ sessions' = IF Executed(out) THEN sessions \cup {c} ELSE sessions
        /\ CASE out = "ok" -> Answer(c, "ok") /\ UNCHANGED faults
             [] out = "again" -> UNCHANGED cb /\ UNCHANGED faults
             [] OTHER -> Answer(c, "internal") /\ Fault(c)
    /\ UNCHANGED <<now, redis, jar, flow, user, exchanges>>

\* The response arrives.  Unless the request came without the cookie, it clears the
\* binding cookie, whichever flow that belongs to by then.
CallbackRespond(c) ==
    /\ cb[c].pc = "respond"
    /\ cookie' = IF cb[c].binding = None THEN cookie ELSE [cookie EXCEPT ![cb[c].browser] = None]
    /\ GotoCb(c, "done")
    /\ UNCHANGED <<now, redis, cookieExp, flow, user, exchanges, sessions, faults>>

----------------------------------------------------------------------------

\* Time passes; Redis and the browsers drop what has expired.
Tick ==
    /\ now < MaxClock
    /\ now' = now + 1
    /\ stored' = {f \in stored : storedExp[f] > now'}
    /\ cookie' = [b \in Browsers |-> IF cookieExp[b] <= now' THEN None ELSE cookie[b]]
    /\ UNCHANGED <<storedExp, cookieExp, flow, cb, user, exchanges, sessions, faults>>

AuthorizeStep(f) == AuthorizeStore(f) \/ AuthorizeRespond(f)
CallbackStep(c) ==
    \/ CallbackConsume(c) \/ CallbackExchange(c) \/ CallbackUpsert(c)
    \/ CallbackSession(c) \/ CallbackRespond(c)

Next ==
    \/ \E f \in Flows, b \in Browsers : Authorize(f, b)
    \/ \E f \in Flows : AuthorizeStep(f)
    \/ \E c \in Callbacks, b \in Browsers, f \in Flows \cup {None}, supported \in BOOLEAN :
            Callback(c, b, f, supported)
    \/ \E c \in Callbacks : CallbackStep(c)
    \/ Tick

Spec == Init /\ [][Next]_vars

----------------------------------------------------------------------------
(* Properties.                                                             *)

\* A state is good for one code exchange, however many callbacks race with it or repeat
\* it ("a state cannot be used by two concurrent callbacks", consumeOAuthStateScript).
StateExchangedOnce == \A f \in Flows : exchanges[f] <= 1

\* States are one-time credentials: a callback goes on to the exchange by taking a stored
\* state away, and once Authorize has answered nothing stores the state again.
OpenFlows == {f \in Flows : flow[f].pc \in {"idle", "store"}}
Exchanging(f) == {c \in Callbacks : cb[c].pc = "exchange" /\ cb[c].state = f}
Uses == [f \in Flows |-> exchanges[f] + Cardinality(Exchanging(f))]
Credential == INSTANCE OneTimeCredential WITH
    Credentials <- Flows, open <- OpenFlows, live <- stored, uses <- Uses
StatesAreOneTime == Credential!Spec

\* A callback that got a session ran in the browser the flow was started in.
SessionBoundToBrowser ==
    \A c \in sessions : cb[c].state # None /\ flow[cb[c].state].browser = cb[c].browser

\* The only flow of its browser, called back once, in time and with no failing call,
\* logs in, or learns that its account is disabled.
Undisturbed(c) ==
    LET f == cb[c].state b == cb[c].browser IN
    /\ c \notin faults
    /\ f # None /\ flow[f].browser = b
    /\ \A g \in Flows \ {f} : flow[g].browser # b
    /\ \A d \in Callbacks \ {c} : cb[d].browser # b /\ cb[d].state # f
UndisturbedFlowLogsIn ==
    \A c \in Callbacks :
        cb[c].result # None /\ Undisturbed(c) =>
            cb[c].result = IF user = "disabled" THEN "forbidden" ELSE "ok"
=============================================================================
