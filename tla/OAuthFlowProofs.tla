-------------------------- MODULE OAuthFlowProofs --------------------------
(***************************************************************************)
(* OAuthFlow for every number of browsers, flows and callbacks and every   *)
(* TTL: a state is exchanged once and only in its own browser, a flow that *)
(* nothing disturbs logs in, and states are one-time credentials.          *)
(***************************************************************************)
EXTENDS OAuthFlow, FiniteSetTheorems, TLAPS

\* Where a flow, its stored state and a browser's cookie agree.  Once Authorize has
\* answered, its state is never stored again.
FlowSound ==
    /\ \A f \in Flows :
        /\ flow[f].pc = "idle" <=> flow[f].browser = None
        /\ f \in stored => flow[f].pc # "idle"
    /\ \A b \in Browsers : cookie[b] # None =>
            flow[cookie[b]].pc = "redirected" /\ flow[cookie[b]].browser = b

\* What a callback knows: its state and the binding its browser sent, both of flows that
\* were redirected, the binding of one that was started in this browser.
CallbackSound ==
    \A c \in Callbacks :
        /\ cb[c].pc = "idle" <=> cb[c].browser = None
        /\ cb[c].pc = "idle" => cb[c].state = None /\ cb[c].binding = None
        /\ cb[c].state # None => flow[cb[c].state].pc = "redirected"
        /\ cb[c].binding # None =>
            flow[cb[c].binding].pc = "redirected" /\ flow[cb[c].binding].browser = cb[c].browser
        /\ cb[c].pc \in {"exchange", "upsert", "session"} \/ c \in sessions =>
            cb[c].state # None /\ cb[c].binding = cb[c].state
        /\ cb[c].pc \in {"idle", "consume", "exchange", "upsert", "session"} => cb[c].result = None
        /\ c \in sessions => cb[c].pc \in {"session", "respond", "done"}

\* Only one callback ever gets past a state, and then the state is gone for good.
OnceSound ==
    /\ \A f \in Flows :
        /\ exchanges[f] \in {0, 1}
        /\ exchanges[f] = 1 => f \notin stored /\ flow[f].pc = "redirected"
    /\ \A c \in Callbacks : cb[c].pc = "exchange" =>
        /\ cb[c].state \notin stored /\ exchanges[cb[c].state] = 0
        /\ \A d \in Callbacks : cb[d].pc = "exchange" /\ cb[d].state = cb[c].state => d = c

\* A state outlives its answer until its deadline or the first callback that presents it.
StateKept(f) ==
    flow[f].pc \in {"respond", "redirected"} /\ (\A d \in Callbacks : cb[d].state # f) =>
        f \in stored \/ now >= storedExp[f]

\* The cookie is set no earlier than the state, and outlives it until another flow or a
\* callback of its browser.
CookieKept(f) ==
    LET b == flow[f].browser IN
    /\ flow[f].pc = "respond" => storedExp[f] <= now + TTL
    /\ /\ flow[f].pc = "redirected"
       /\ \A g \in Flows \ {f} : flow[g].browser # b
       /\ \A d \in Callbacks : cb[d].browser # b
       => cookieExp[b] >= storedExp[f] /\ (cookie[b] = f \/ now >= cookieExp[b])
FlowKept == \A f \in Flows : StateKept(f) /\ CookieKept(f)

\* How far an undisturbed callback has come.
OnTrack(c) ==
    /\ cb[c].binding = cb[c].state
    /\ cb[c].pc = "consume" => cb[c].state \in stored \/ now >= storedExp[cb[c].state]
    /\ cb[c].result \in {None, "ok", "forbidden"}
    /\ cb[c].pc = "session" \/ cb[c].result = "ok" => user = "active"
    /\ cb[c].result = "forbidden" => user = "disabled"
UndisturbedSound ==
    \A c \in Callbacks : cb[c].pc # "idle" /\ Undisturbed(c) => OnTrack(c)

\* The inductive invariant.
Inv == TypeOK /\ FlowSound /\ CallbackSound /\ OnceSound /\ FlowKept /\ UndisturbedSound

----------------------------------------------------------------------------

\* At the start nothing is stored, no cookie is set and no request runs.
LEMMA InitInv == Init => Inv
  <1> SUFFICES ASSUME Init
               PROVE  Inv
    OBVIOUS
  <1> USE OAuthConstants DEF Init
  <1>1. TypeOK
    BY DEF TypeOK, CbPC
  <1>2. FlowSound
    BY DEF FlowSound
  <1>3. CallbackSound
    BY DEF CallbackSound
  <1>4. OnceSound
    BY DEF OnceSound
  <1>5. FlowKept
    BY DEF FlowKept, StateKept, CookieKept
  <1>6. UndisturbedSound
    BY DEF UndisturbedSound
  <1> QED
    BY <1>1, <1>2, <1>3, <1>4, <1>5, <1>6 DEF Inv

\* What GotoCb and Answer do to the callbacks: only c moves, and no callback changes its
\* browser, state or binding.
CbRecord == [pc : CbPC, browser : Browsers \cup {None}, state : Flows \cup {None},
             binding : Flows \cup {None}, result : Results \cup {None}]
CbTypes == [Callbacks -> CbRecord]
OnlyMoves(c) ==
    /\ cb' \in CbTypes
    /\ \A d \in Callbacks : /\ cb'[d].browser = cb[d].browser /\ cb'[d].state = cb[d].state
                            /\ cb'[d].binding = cb[d].binding
                            /\ d # c => cb'[d] = cb[d]

\* A callback that goes on keeps what it carries, and the others keep everything.
LEMMA GotoMoves ==
    ASSUME TypeOK, NEW c \in Callbacks, NEW pc \in CbPC, GotoCb(c, pc)
    PROVE  OnlyMoves(c) /\ cb'[c].pc = pc /\ cb'[c].result = cb[c].result
  <1> DEFINE q == [cb[c] EXCEPT !.pc = pc]
  <1>1. /\ q \in CbRecord
        /\ q.pc = pc /\ q.browser = cb[c].browser /\ q.state = cb[c].state
        /\ q.binding = cb[c].binding /\ q.result = cb[c].result
    BY DEF TypeOK, CbRecord
  <1>2. cb' = [cb EXCEPT ![c] = q]
    BY DEF GotoCb
  <1>3. cb \in CbTypes
    BY DEF TypeOK, CbTypes, CbRecord
  <1> HIDE DEF q
  <1> QED
    BY <1>1, <1>2, <1>3 DEF OnlyMoves, CbTypes

\* The same for a callback that has its result.
LEMMA AnswerMoves ==
    ASSUME TypeOK, NEW c \in Callbacks, NEW result \in Results, Answer(c, result)
    PROVE  OnlyMoves(c) /\ cb'[c].pc = "respond" /\ cb'[c].result = result
  <1> DEFINE q == [cb[c] EXCEPT !.pc = "respond", !.result = result]
  <1>1. /\ q \in CbRecord
        /\ q.pc = "respond" /\ q.browser = cb[c].browser /\ q.state = cb[c].state
        /\ q.binding = cb[c].binding /\ q.result = result
    <2>1. "respond" \in CbPC
      BY DEF CbPC
    <2> QED
      BY <2>1 DEF TypeOK, CbRecord
  <1>2. cb' = [cb EXCEPT ![c] = q]
    BY DEF Answer
  <1>3. cb \in CbTypes
    BY DEF TypeOK, CbTypes, CbRecord
  <1> HIDE DEF q
  <1> QED
    BY <1>1, <1>2, <1>3 DEF OnlyMoves, CbTypes

\* A callback that a step of itself or another leaves undisturbed was undisturbed before.
LEMMA UndisturbedBefore ==
    ASSUME NEW c \in Callbacks, OnlyMoves(c), UNCHANGED flow, faults \subseteq faults',
           NEW d \in Callbacks, Undisturbed(d)'
    PROVE  Undisturbed(d)
  BY DEF OnlyMoves, Undisturbed

\* Progress of a callback does not bear on what FlowKept says.
LEMMA MoveKeepsFlows ==
    ASSUME FlowKept, NEW c \in Callbacks, OnlyMoves(c),
           UNCHANGED <<now, stored, storedExp, cookie, cookieExp, flow>>
    PROVE  FlowKept'
  BY DEF FlowKept, StateKept, CookieKept, OnlyMoves

\* Every step of an authorize request, a callback and the clock keeps the invariant.
LEMMA NextInv == Inv /\ [Next]_vars => Inv'
  <1> SUFFICES ASSUME Inv, [Next]_vars
               PROVE  Inv'
    OBVIOUS
  <1> USE OAuthConstants DEF Inv
  <1>1. ASSUME NEW f \in Flows, NEW b \in Browsers, Authorize(f, b)
        PROVE  Inv'
    <2>1. TypeOK'
      BY <1>1 DEF Authorize, redis, jar, TypeOK, CbPC, Results
    <2>2. FlowSound'
      BY <1>1 DEF Authorize, redis, jar, TypeOK, FlowSound
    <2>3. CallbackSound'
      BY <1>1 DEF Authorize, redis, jar, TypeOK, CallbackSound
    <2>4. OnceSound'
      BY <1>1 DEF Authorize, redis, jar, TypeOK, CallbackSound, OnceSound
    <2>5. FlowKept'
      BY <1>1 DEF Authorize, redis, jar, TypeOK, FlowSound, CallbackSound, FlowKept, StateKept, CookieKept
    <2>6. UndisturbedSound'
      BY <1>1 DEF Authorize, redis, jar, TypeOK, FlowSound, CallbackSound, FlowKept, UndisturbedSound, OnTrack, Undisturbed
    <2> QED
      BY <2>1, <2>2, <2>3, <2>4, <2>5, <2>6
  <1>2. ASSUME NEW f \in Flows, AuthorizeStore(f)
        PROVE  Inv'
    <2>1. TypeOK'
      <3>1. /\ \/ /\ stored' = stored \cup {f}
                  /\ storedExp' = [storedExp EXCEPT ![f] = now + TTL]
               \/ stored' = stored /\ storedExp' = storedExp
            /\ UNCHANGED <<now, cookie, cookieExp, cb, user, exchanges, sessions, faults>>
        BY <1>2 DEF AuthorizeStore, Store, redis, jar
      <3>2. PICK pc \in {"respond", "store", "error"} : flow' = [flow EXCEPT ![f].pc = pc]
        BY <1>2 DEF AuthorizeStore
      <3>3. stored' \in SUBSET Flows /\ storedExp' \in [Flows -> 0..(MaxClock + TTL)]
        BY <3>1 DEF TypeOK
      <3>4. flow' \in [Flows -> [pc : {"idle", "store", "respond", "redirected", "error"},
                                 browser : Browsers \cup {None}]]
        BY <3>2 DEF TypeOK
      <3> QED
        BY <3>1, <3>3, <3>4 DEF TypeOK
    <2>2. FlowSound'
      BY <1>2 DEF AuthorizeStore, Store, redis, jar, TypeOK, FlowSound
    <2>3. CallbackSound'
      BY <1>2 DEF AuthorizeStore, Store, redis, jar, TypeOK, CallbackSound
    <2>4. OnceSound'
      BY <1>2 DEF AuthorizeStore, Store, redis, jar, TypeOK, CallbackSound, OnceSound
    <2>5. FlowKept'
      <3> SUFFICES ASSUME NEW g \in Flows
                   PROVE  StateKept(g)' /\ CookieKept(g)'
        BY DEF FlowKept
      <3>1. /\ UNCHANGED <<now, cookie, cookieExp, cb>> /\ stored \subseteq stored'
            /\ \A h \in Flows : flow'[h].browser = flow[h].browser
            /\ g # f => flow'[g] = flow[g] /\ storedExp'[g] = storedExp[g]
            /\ flow'[f].pc # "redirected"
            /\ flow'[f].pc = "respond" => f \in stored' /\ storedExp'[f] = now + TTL
        BY <1>2 DEF AuthorizeStore, Executed, Store, redis, jar, TypeOK
      <3>2. now + TTL <= now + TTL
        BY DEF TypeOK
      <3>3. CASE g = f
        BY <3>1, <3>2, <3>3 DEF StateKept, CookieKept
      <3>4. CASE g # f
        BY <3>1, <3>4 DEF FlowKept, StateKept, CookieKept
      <3> QED
        BY <3>3, <3>4
    <2>6. UndisturbedSound'
      BY <1>2 DEF AuthorizeStore, Store, redis, jar, TypeOK, FlowSound, CallbackSound, FlowKept, UndisturbedSound, OnTrack, Undisturbed
    <2> QED
      BY <2>1, <2>2, <2>3, <2>4, <2>5, <2>6
  <1>3. ASSUME NEW f \in Flows, AuthorizeRespond(f)
        PROVE  Inv'
    <2>1. TypeOK'
      <3>1. flow[f].browser \in Browsers /\ now + TTL \in 0..(MaxClock + TTL)
        BY <1>3 DEF AuthorizeRespond, TypeOK, FlowSound
      <3>2. /\ cookie' \in [Browsers -> Flows \cup {None}]
            /\ cookieExp' \in [Browsers -> 0..(MaxClock + TTL)]
        BY <1>3, <3>1 DEF AuthorizeRespond, TypeOK
      <3> QED
        BY <1>3, <3>2 DEF AuthorizeRespond, redis, TypeOK
    <2>2. FlowSound'
      BY <1>3 DEF AuthorizeRespond, redis, TypeOK, FlowSound
    <2>3. CallbackSound'
      BY <1>3 DEF AuthorizeRespond, redis, TypeOK, CallbackSound
    <2>4. OnceSound'
      BY <1>3 DEF AuthorizeRespond, redis, TypeOK, CallbackSound, OnceSound
    <2>5. FlowKept'
      BY <1>3 DEF AuthorizeRespond, redis, TypeOK, FlowSound, CallbackSound, FlowKept, StateKept, CookieKept
    <2>6. UndisturbedSound'
      BY <1>3 DEF AuthorizeRespond, redis, TypeOK, FlowSound, CallbackSound, FlowKept, UndisturbedSound, OnTrack, Undisturbed
    <2> QED
      BY <2>1, <2>2, <2>3, <2>4, <2>5, <2>6
  <1>4. ASSUME NEW c \in Callbacks, NEW b \in Browsers, NEW f \in Flows \cup {None},
               NEW supported \in BOOLEAN, Callback(c, b, f, supported)
        PROVE  Inv'
    <2>1. /\ cb' = [cb EXCEPT ![c] = cb'[c]]
          /\ cb'[c].browser = b /\ cb'[c].state = f /\ cb'[c].binding = cookie[b]
          /\ \/ cb'[c].pc = "respond" /\ cookie[b] = None /\ cb'[c].result = "unauthorized"
             \/ cb'[c].pc = "respond" /\ ~supported /\ cb'[c].result = "invalid"
             \/ cb'[c].pc = "consume" /\ cb'[c].result = None
      BY <1>4 DEF Callback, TypeOK
    <2>2. /\ cb[c].pc = "idle"
          /\ f # None => flow[f].pc = "redirected"
          /\ faults \subseteq faults' /\ faults' \subseteq faults \cup {c}
          /\ ~supported \/ (f # None /\ now >= storedExp[f]) => c \in faults'
          /\ UNCHANGED <<now, stored, storedExp, cookie, cookieExp, flow, user, exchanges, sessions>>
      BY <1>4 DEF Callback, redis, jar
    <2>3. TypeOK'
      BY <1>4 DEF Callback, redis, jar, TypeOK, CbPC, Results
    <2>4. FlowSound'
      BY <2>2 DEF FlowSound
    <2>5. CallbackSound'
      BY <2>1, <2>2 DEF TypeOK, FlowSound, CallbackSound
    <2>6. OnceSound'
      <3>1. \A d \in Callbacks : cb'[d].pc = "exchange" => cb'[d] = cb[d]
        BY <2>1 DEF TypeOK
      <3> QED
        BY <2>2, <3>1 DEF OnceSound
    <2>7. cb[c].browser = None /\ cb[c].state = None
      BY <2>2 DEF CallbackSound
    <2>8. FlowKept'
      <3> SUFFICES ASSUME NEW g \in Flows
                   PROVE  StateKept(g)' /\ CookieKept(g)'
        BY DEF FlowKept
      <3>1. StateKept(g)'
        BY <2>1, <2>2, <2>7 DEF TypeOK, FlowKept, StateKept
      <3>2. CookieKept(g)'
        BY <2>1, <2>2, <2>7 DEF TypeOK, FlowSound, FlowKept, CookieKept
      <3> QED
        BY <3>1, <3>2
    <2>9. UndisturbedSound'
      <3> SUFFICES ASSUME NEW d \in Callbacks, cb'[d].pc # "idle", Undisturbed(d)'
                   PROVE  OnTrack(d)'
        BY DEF UndisturbedSound
      <3>1. CASE d = c
        <4>1. /\ f \in Flows /\ flow[f].pc = "redirected" /\ flow[f].browser = b
              /\ c \notin faults' /\ \A g \in Flows \ {f} : flow[g].browser # b
          BY <2>1, <2>2, <3>1 DEF Undisturbed
        <4>2. \A e \in Callbacks : cb[e].browser # b /\ cb[e].state # f
          BY <2>1, <2>2, <2>7, <3>1, <4>1 DEF TypeOK, Undisturbed
        <4>3. f \in stored \/ now >= storedExp[f]
          BY <4>1, <4>2 DEF FlowKept, StateKept
        <4>4. cookieExp[b] >= storedExp[f] /\ (cookie[b] = f \/ now >= cookieExp[b])
          BY <4>1, <4>2 DEF FlowKept, CookieKept
        <4>5. f \in stored /\ cookie[b] = f
          <5>1. cookieExp[b] \in Nat /\ storedExp[f] \in Nat /\ now \in Nat
            BY <4>1 DEF TypeOK
          <5>2. ~(now >= storedExp[f])
            BY <2>2, <4>1
          <5> QED
            BY <4>3, <4>4, <5>1, <5>2
        <4> QED
          BY <2>1, <2>2, <3>1, <4>1, <4>5 DEF OnTrack, Results
      <3>2. CASE d # c
        <4>1. cb'[d] = cb[d]
          BY <2>1, <3>2 DEF TypeOK
        <4>2. Undisturbed(d)
          BY <2>1, <2>2, <2>7, <3>2, <4>1 DEF TypeOK, CallbackSound, Undisturbed
        <4> QED
          BY <2>2, <4>1, <4>2 DEF UndisturbedSound, OnTrack
      <3> QED
        BY <3>1, <3>2
    <2> QED
      BY <2>3, <2>4, <2>5, <2>6, <2>8, <2>9
  <1>5. ASSUME NEW c \in Callbacks, CallbackConsume(c)
        PROVE  Inv'
    <2> DEFINE f == cb[c].state
    <2>1. OnlyMoves(c)
      <3>1. \/ GotoCb(c, "exchange") \/ UNCHANGED cb
            \/ \E result \in {"unauthorized", "internal"} : Answer(c, result)
        BY <1>5 DEF CallbackConsume
      <3>2. UNCHANGED cb => OnlyMoves(c)
        BY DEF OnlyMoves, TypeOK, CbTypes, CbRecord
      <3> QED
        BY <3>1, <3>2, GotoMoves, AnswerMoves DEF CbPC, Results
    <2>2. /\ stored' \in {stored, stored \ {f}} /\ faults \subseteq faults' /\ faults' \subseteq faults \cup {c}
          /\ f # None /\ now >= storedExp[f] => c \in faults'
          /\ UNCHANGED <<now, storedExp, cookie, cookieExp, flow, user, exchanges, sessions>>
      BY <1>5 DEF CallbackConsume, Consume, Fault, jar
    <2>3. \/ /\ cb'[c].pc = "exchange" /\ cb'[c].result = cb[c].result
             /\ f \in stored /\ stored' = stored \ {f} /\ cb[c].binding = f
          \/ /\ cb'[c].pc = "respond" /\ cb'[c].result \in {"unauthorized", "internal"}
             /\ c \in faults' \/ ~(f \in stored /\ cb[c].binding = f)
          \/ UNCHANGED cb /\ c \in faults'
      <3>1. \/ GotoCb(c, "exchange") /\ f \in stored /\ stored' = stored \ {f} /\ cb[c].binding = f
            \/ /\ \E result \in {"unauthorized", "internal"} : Answer(c, result)
               /\ c \in faults' \/ ~(f \in stored /\ cb[c].binding = f)
            \/ UNCHANGED cb /\ c \in faults'
        BY <1>5 DEF CallbackConsume, Outcomes, Executed, Consume, Fault
      <3> QED
        BY <3>1, GotoMoves, AnswerMoves DEF CbPC, Results
    <2>4. TypeOK'
      BY <2>1, <2>2 DEF TypeOK, OnlyMoves, CbTypes, CbRecord
    <2>5. FlowSound'
      BY <2>2 DEF FlowSound
    <2>6. CallbackSound'
      BY <1>5, <2>1, <2>2, <2>3 DEF CallbackConsume, TypeOK, CallbackSound, OnlyMoves
    <2>7. OnceSound'
      BY <1>5, <2>1, <2>2, <2>3 DEF CallbackConsume, TypeOK, CallbackSound, OnceSound, OnlyMoves
    <2>8. FlowKept'
      BY <2>1, <2>2 DEF FlowKept, StateKept, CookieKept, OnlyMoves
    <2>9. UndisturbedSound'
      <3> SUFFICES ASSUME NEW d \in Callbacks, cb'[d].pc # "idle", Undisturbed(d)'
                   PROVE  OnTrack(d)'
        BY DEF UndisturbedSound
      <3>1. Undisturbed(d) /\ cb[d].pc # "idle" /\ d \notin faults'
        BY <1>5, <2>1, <2>2, UndisturbedBefore DEF CallbackConsume, OnlyMoves, Undisturbed
      <3>2. OnTrack(d)
        BY <3>1 DEF UndisturbedSound
      <3>3. CASE d = c
        BY <1>5, <2>1, <2>2, <2>3, <3>1, <3>2, <3>3 DEF CallbackConsume, CallbackSound, OnlyMoves, OnTrack, Undisturbed
      <3>4. CASE d # c
        BY <2>1, <2>2, <2>3, <3>1, <3>2, <3>4 DEF OnlyMoves, OnTrack, Undisturbed
      <3> QED
        BY <3>3, <3>4
    <2> QED
      BY <2>4, <2>5, <2>6, <2>7, <2>8, <2>9
  <1>6. ASSUME NEW c \in Callbacks, CallbackExchange(c)
        PROVE  Inv'
    <2>1. /\ OnlyMoves(c)
          /\ \/ cb'[c].pc = "upsert" /\ cb'[c].result = cb[c].result /\ faults' = faults
             \/ /\ cb'[c].pc = "respond" /\ cb'[c].result \in Results
                /\ faults' = faults \cup {c}
      BY <1>6, GotoMoves, AnswerMoves DEF CallbackExchange, Fault, CbPC, Results
    <2>2. /\ exchanges' = [exchanges EXCEPT ![cb[c].state] = @ + 1]
          /\ UNCHANGED <<now, stored, storedExp, cookie, cookieExp, flow, user, sessions>>
      BY <1>6 DEF CallbackExchange, redis, jar
    <2>3. cb[c].state \in Flows /\ exchanges[cb[c].state] = 0
      BY <1>6 DEF CallbackExchange, TypeOK, CallbackSound, OnceSound
    <2>4. TypeOK'
      BY <2>1, <2>2, <2>3 DEF TypeOK, OnlyMoves, CbTypes, CbRecord
    <2>5. FlowSound'
      BY <2>2 DEF FlowSound
    <2>6. CallbackSound'
      BY <1>6, <2>1, <2>2 DEF CallbackExchange, TypeOK, CallbackSound, OnlyMoves
    <2>7. OnceSound'
      <3>1. /\ cb[c].pc = "exchange" /\ cb'[c].pc # "exchange"
            /\ cb[c].state \notin stored /\ flow[cb[c].state].pc = "redirected"
            /\ \A d \in Callbacks : cb[d].pc = "exchange" /\ cb[d].state = cb[c].state => d = c
        BY <1>6, <2>1, <2>3 DEF CallbackExchange, CallbackSound, OnceSound
      <3>2. /\ exchanges'[cb[c].state] = 1
            /\ \A f \in Flows : f # cb[c].state => exchanges'[f] = exchanges[f]
        BY <2>2, <2>3 DEF TypeOK
      <3>3. \A f \in Flows : /\ exchanges'[f] \in {0, 1}
                             /\ exchanges'[f] = 1 => f \notin stored /\ flow[f].pc = "redirected"
        BY <3>1, <3>2 DEF OnceSound
      <3>4. ASSUME NEW d \in Callbacks, cb'[d].pc = "exchange"
            PROVE  /\ cb[d].pc = "exchange" /\ cb'[d] = cb[d]
                   /\ cb[d].state \in Flows /\ cb[d].state # cb[c].state
        BY <2>1, <3>1, <3>4 DEF OnlyMoves, TypeOK, CallbackSound
      <3> QED
        BY <2>2, <3>2, <3>3, <3>4 DEF OnceSound
    <2>8. FlowKept'
      BY <2>1, <2>2, MoveKeepsFlows
    <2>9. UndisturbedSound'
      <3> SUFFICES ASSUME NEW d \in Callbacks, cb'[d].pc # "idle", Undisturbed(d)'
                   PROVE  OnTrack(d)'
        BY DEF UndisturbedSound
      <3>1. Undisturbed(d) /\ cb[d].pc # "idle" /\ d \notin faults'
        BY <1>6, <2>1, <2>2, UndisturbedBefore DEF CallbackExchange, OnlyMoves, Undisturbed
      <3>2. OnTrack(d)
        BY <3>1 DEF UndisturbedSound
      <3>3. CASE d = c
        BY <1>6, <2>1, <2>2, <3>1, <3>2, <3>3 DEF CallbackExchange, CallbackSound, OnlyMoves, OnTrack
      <3>4. CASE d # c
        BY <2>1, <2>2, <3>1, <3>2, <3>4 DEF OnlyMoves, OnTrack, Undisturbed
      <3> QED
        BY <3>3, <3>4
    <2> QED
      BY <2>4, <2>5, <2>6, <2>7, <2>8, <2>9
  <1>7. ASSUME NEW c \in Callbacks, CallbackUpsert(c)
        PROVE  Inv'
    <2>1. /\ OnlyMoves(c)
          /\ \/ /\ cb'[c].pc = "session" /\ cb'[c].result = cb[c].result
                /\ user' = "active" /\ faults' = faults
             \/ /\ cb'[c].pc = "respond" /\ cb'[c].result = "forbidden"
                /\ user' = user /\ user = "disabled" /\ faults' = faults
             \/ /\ cb'[c].pc = "respond" /\ cb'[c].result \in Results
                /\ faults' = faults \cup {c}
      BY <1>7, GotoMoves, AnswerMoves DEF CallbackUpsert, Fault, CbPC, Results, TypeOK, Statuses
    <2>2. /\ user' = user \/ (user = None /\ user' = "active")
          /\ UNCHANGED <<now, stored, storedExp, cookie, cookieExp, flow, exchanges, sessions>>
      BY <1>7 DEF CallbackUpsert, redis, jar
    <2>4. TypeOK'
      BY <2>1, <2>2 DEF TypeOK, OnlyMoves, CbTypes, CbRecord, Statuses
    <2>5. FlowSound'
      BY <2>2 DEF FlowSound
    <2>6. CallbackSound'
      BY <1>7, <2>1, <2>2 DEF CallbackUpsert, TypeOK, CallbackSound, OnlyMoves
    <2>7. OnceSound'
      <3>1. \A d \in Callbacks : cb'[d].pc = "exchange" => d # c /\ cb'[d] = cb[d]
        BY <2>1 DEF OnlyMoves
      <3> QED
        BY <2>2, <3>1 DEF OnceSound
    <2>8. FlowKept'
      BY <2>1, <2>2, MoveKeepsFlows
    <2>9. UndisturbedSound'
      <3> SUFFICES ASSUME NEW d \in Callbacks, cb'[d].pc # "idle", Undisturbed(d)'
                   PROVE  OnTrack(d)'
        BY DEF UndisturbedSound
      <3>1. Undisturbed(d) /\ cb[d].pc # "idle" /\ d \notin faults'
        BY <1>7, <2>1, <2>2, UndisturbedBefore DEF CallbackUpsert, OnlyMoves, Undisturbed
      <3>2. OnTrack(d)
        BY <3>1 DEF UndisturbedSound
      <3>3. CASE d = c
        BY <1>7, <2>1, <2>2, <3>1, <3>2, <3>3 DEF CallbackUpsert, CallbackSound, OnlyMoves, OnTrack
      <3>4. CASE d # c
        BY <2>1, <2>2, <3>1, <3>2, <3>4 DEF OnlyMoves, OnTrack, Undisturbed, Statuses, Results
      <3> QED
        BY <3>3, <3>4
    <2> QED
      BY <2>4, <2>5, <2>6, <2>7, <2>8, <2>9
  <1>8. ASSUME NEW c \in Callbacks, CallbackSession(c)
        PROVE  Inv'
    <2>1. /\ OnlyMoves(c)
          /\ \/ cb'[c].pc = "respond" /\ cb'[c].result = "ok" /\ faults' = faults
             \/ UNCHANGED cb /\ faults' = faults
             \/ /\ cb'[c].pc = "respond" /\ cb'[c].result \in Results
                /\ faults' = faults \cup {c}
      <3>1. UNCHANGED cb => OnlyMoves(c)
        BY DEF OnlyMoves, TypeOK, CbTypes, CbRecord
      <3> QED
        BY <1>8, <3>1, AnswerMoves DEF CallbackSession, Fault, Results
    <2>2. /\ sessions' \in {sessions, sessions \cup {c}}
          /\ UNCHANGED <<now, stored, storedExp, cookie, cookieExp, flow, user, exchanges>>
      BY <1>8 DEF CallbackSession, redis, jar
    <2>4. TypeOK'
      BY <2>1, <2>2 DEF TypeOK, OnlyMoves, CbTypes, CbRecord
    <2>5. FlowSound'
      BY <2>2 DEF FlowSound
    <2>6. CallbackSound'
      BY <1>8, <2>1, <2>2 DEF CallbackSession, TypeOK, CallbackSound, OnlyMoves
    <2>7. OnceSound'
      BY <1>8, <2>1, <2>2 DEF CallbackSession, TypeOK, CallbackSound, OnceSound, OnlyMoves
    <2>8. FlowKept'
      BY <2>1, <2>2, MoveKeepsFlows
    <2>9. UndisturbedSound'
      <3> SUFFICES ASSUME NEW d \in Callbacks, cb'[d].pc # "idle", Undisturbed(d)'
                   PROVE  OnTrack(d)'
        BY DEF UndisturbedSound
      <3>1. Undisturbed(d) /\ cb[d].pc # "idle" /\ d \notin faults'
        BY <1>8, <2>1, <2>2, UndisturbedBefore DEF CallbackSession, OnlyMoves, Undisturbed
      <3>2. OnTrack(d)
        BY <3>1 DEF UndisturbedSound
      <3>3. CASE d = c
        BY <1>8, <2>1, <2>2, <3>1, <3>2, <3>3 DEF CallbackSession, CallbackSound, OnlyMoves, OnTrack
      <3>4. CASE d # c
        BY <2>1, <2>2, <3>1, <3>2, <3>4 DEF OnlyMoves, OnTrack, Undisturbed
      <3> QED
        BY <3>3, <3>4
    <2> QED
      BY <2>4, <2>5, <2>6, <2>7, <2>8, <2>9
  <1>9. ASSUME NEW c \in Callbacks, CallbackRespond(c)
        PROVE  Inv'
    <2>1. OnlyMoves(c) /\ cb'[c].pc = "done" /\ cb'[c].result = cb[c].result
      BY <1>9, GotoMoves DEF CallbackRespond, CbPC
    <2>2. /\ cookie' \in {cookie, [cookie EXCEPT ![cb[c].browser] = None]}
          /\ UNCHANGED <<now, stored, storedExp, cookieExp, flow, user, exchanges, sessions, faults>>
      BY <1>9 DEF CallbackRespond, redis
    <2>3. cb[c].browser \in Browsers
      BY <1>9 DEF CallbackRespond, TypeOK, CallbackSound
    <2>4. TypeOK'
      BY <2>1, <2>2, <2>3 DEF TypeOK, OnlyMoves, CbTypes, CbRecord
    <2>5. FlowSound'
      BY <2>2, <2>3 DEF TypeOK, FlowSound
    <2>6. CallbackSound'
      BY <1>9, <2>1, <2>2 DEF CallbackRespond, TypeOK, CallbackSound, OnlyMoves
    <2>7. OnceSound'
      <3>1. \A d \in Callbacks : cb'[d].pc = "exchange" => cb'[d] = cb[d]
        BY <2>1 DEF OnlyMoves
      <3> QED
        BY <2>2, <3>1 DEF OnceSound
    <2>8. FlowKept'
      <3> SUFFICES ASSUME NEW f \in Flows
                   PROVE  StateKept(f)' /\ CookieKept(f)'
        BY DEF FlowKept
      <3>1. StateKept(f)'
        BY <2>1, <2>2 DEF FlowKept, StateKept, OnlyMoves
      <3>2. CASE flow[f].browser = cb[c].browser
        BY <2>1, <2>2, <3>1, <3>2 DEF FlowKept, CookieKept, OnlyMoves
      <3>3. CASE flow[f].browser # cb[c].browser
        <4>1. flow[f].pc # "idle" => cookie'[flow[f].browser] = cookie[flow[f].browser]
          BY <2>2, <2>3, <3>3 DEF TypeOK, FlowSound
        <4> QED
          BY <2>1, <2>2, <3>1, <4>1 DEF FlowKept, CookieKept, OnlyMoves
      <3> QED
        BY <3>2, <3>3
    <2>9. UndisturbedSound'
      <3> SUFFICES ASSUME NEW d \in Callbacks, cb'[d].pc # "idle", Undisturbed(d)'
                   PROVE  OnTrack(d)'
        BY DEF UndisturbedSound
      <3>1. Undisturbed(d) /\ cb[d].pc # "idle" /\ d \notin faults'
        BY <1>9, <2>1, <2>2, UndisturbedBefore DEF CallbackRespond, OnlyMoves, Undisturbed
      <3>2. OnTrack(d)
        BY <3>1 DEF UndisturbedSound
      <3>3. CASE d = c
        BY <1>9, <2>1, <2>2, <3>1, <3>2, <3>3 DEF CallbackRespond, CallbackSound, OnlyMoves, OnTrack
      <3>4. CASE d # c
        BY <2>1, <2>2, <3>1, <3>2, <3>4 DEF OnlyMoves, OnTrack, Undisturbed
      <3> QED
        BY <3>3, <3>4
    <2> QED
      BY <2>4, <2>5, <2>6, <2>7, <2>8, <2>9
  <1>10. CASE Tick
    <2>1. TypeOK'
      BY <1>10 DEF Tick, TypeOK, CbPC, Results
    <2>2. FlowSound'
      BY <1>10 DEF Tick, TypeOK, FlowSound
    <2>3. CallbackSound'
      BY <1>10 DEF Tick, TypeOK, CallbackSound
    <2>4. OnceSound'
      BY <1>10 DEF Tick, TypeOK, CallbackSound, OnceSound
    <2>5. FlowKept'
      BY <1>10 DEF Tick, TypeOK, FlowSound, CallbackSound, FlowKept, StateKept, CookieKept
    <2>6. UndisturbedSound'
      BY <1>10 DEF Tick, TypeOK, FlowSound, CallbackSound, FlowKept, UndisturbedSound, OnTrack, Undisturbed
    <2> QED
      BY <2>1, <2>2, <2>3, <2>4, <2>5, <2>6
  <1>11. CASE UNCHANGED vars
    <2>1. TypeOK'
      BY <1>11 DEF vars, TypeOK, CbPC, Results
    <2>2. FlowSound'
      BY <1>11 DEF vars, TypeOK, FlowSound
    <2>3. CallbackSound'
      BY <1>11 DEF vars, TypeOK, CallbackSound
    <2>4. OnceSound'
      BY <1>11 DEF vars, TypeOK, CallbackSound, OnceSound
    <2>5. FlowKept'
      BY <1>11 DEF vars, TypeOK, FlowSound, CallbackSound, FlowKept, StateKept, CookieKept
    <2>6. UndisturbedSound'
      BY <1>11 DEF vars, TypeOK, FlowSound, CallbackSound, FlowKept, UndisturbedSound, OnTrack, Undisturbed
    <2> QED
      BY <2>1, <2>2, <2>3, <2>4, <2>5, <2>6
  <1> QED
    BY <1>1, <1>2, <1>3, <1>4, <1>5, <1>6, <1>7, <1>8, <1>9, <1>10, <1>11 DEF Next, AuthorizeStep, CallbackStep

\* The inductive invariant holds in every behaviour.
THEOREM Invariance == Spec => []Inv
  BY InitInv, NextInv, PTL DEF Spec

\* Authorize, OAuthCallback and HandleCallback keep their types.
THEOREM FlowTypes == Spec => []TypeOK
  <1>1. Inv => TypeOK
    BY DEF Inv
  <1> QED
    BY <1>1, Invariance, PTL

\* consumeOAuthStateScript lets one callback exchange a code for a state, however many
\* callbacks race with it or repeat it.
THEOREM OneExchangePerState == Spec => []StateExchangedOnce
  <1>1. Inv => StateExchangedOnce
    BY DEF Inv, OnceSound, StateExchangedOnce
  <1> QED
    BY <1>1, Invariance, PTL

\* A session goes only to the browser that asked for the redirect.
THEOREM SessionsStayInBrowser == Spec => []SessionBoundToBrowser
  <1>1. Inv => SessionBoundToBrowser
    BY DEF Inv, TypeOK, CallbackSound, SessionBoundToBrowser
  <1> QED
    BY <1>1, Invariance, PTL

\* The only flow of its browser, called back once and in time, logs in or learns that the
\* account is disabled: neither the state nor the cookie is lost on the way.
THEOREM UndisturbedLogin == Spec => []UndisturbedFlowLogsIn
  <1>1. Inv => UndisturbedFlowLogsIn
    BY OAuthConstants DEF Inv, CallbackSound, UndisturbedSound, OnTrack, UndisturbedFlowLogsIn
  <1> QED
    BY <1>1, Invariance, PTL

----------------------------------------------------------------------------
(* States are one-time credentials.                                        *)

\* A step that neither starts nor makes an exchange leaves the uses alone.
LEMMA UsesUnchanged ==
    /\ UNCHANGED exchanges
    /\ \A c \in Callbacks : cb'[c] = cb[c] \/ (cb'[c].pc # "exchange" /\ cb[c].pc # "exchange")
    => UNCHANGED Uses
  <1>1. (\A c \in Callbacks : cb'[c] = cb[c] \/ (cb'[c].pc # "exchange" /\ cb[c].pc # "exchange"))
        => \A f \in Flows : Exchanging(f)' = Exchanging(f)
    BY DEF Exchanging
  <1> QED
    BY <1>1 DEF Uses

\* At most one callback at a time counts as a use of f.
LEMMA ExchangingCount ==
    ASSUME Inv, NEW f \in Flows
    PROVE  /\ Exchanging(f) = {} => Cardinality(Exchanging(f)) = 0
           /\ \A c \in Exchanging(f) : Exchanging(f) = {c} /\ Cardinality(Exchanging(f)) = 1
           /\ Cardinality(Exchanging(f)) \in Nat
  <1>1. \A c \in Exchanging(f) : Exchanging(f) = {c}
    BY DEF Inv, OnceSound, Exchanging
  <1>2. \A c : Cardinality({c}) = 1
    BY FS_Singleton
  <1>3. Cardinality({}) = 0
    BY FS_EmptySet
  <1>4. CASE Exchanging(f) = {}
    BY <1>3, <1>4
  <1>5. CASE Exchanging(f) # {}
    <2>1. PICK c : c \in Exchanging(f)
      BY <1>5
    <2>2. Exchanging(f) = {c} /\ Cardinality(Exchanging(f)) = 1
      BY <1>1, <1>2, <2>1
    <2> QED
      BY <1>1, <1>5, <2>2
  <1> QED
    BY <1>4, <1>5

\* At the start nobody has been told of a state.
LEMMA CredentialInit == Init => Credential!Init
  <1> SUFFICES ASSUME Init
               PROVE  Credential!Init
    OBVIOUS
  <1>1. OpenFlows = Flows /\ stored = {}
    BY DEF Init, OpenFlows
  <1>2. \A f \in Flows : Exchanging(f) = {} /\ exchanges[f] = 0
    BY DEF Init, Exchanging
  <1>3. Uses = [f \in Flows |-> 0]
    BY <1>2, FS_EmptySet DEF Uses
  <1> QED
    BY <1>1, <1>3 DEF Credential!Init

\* Every step of the flow is a step of OneTimeCredential or leaves it alone.
LEMMA CredentialStep == Inv /\ [Next]_vars => [Credential!Next]_(Credential!vars)
  <1> SUFFICES ASSUME Inv, [Next]_vars
               PROVE  [Credential!Next]_(Credential!vars)
    OBVIOUS
  <1>1. ASSUME NEW f \in Flows, NEW b \in Browsers, Authorize(f, b)
        PROVE  Credential!Close(f) \/ UNCHANGED Credential!vars
    <2>1. UNCHANGED <<stored, Uses>>
      BY <1>1, UsesUnchanged DEF Authorize, redis
    <2>2. OpenFlows' \in {OpenFlows, OpenFlows \ {f}}
      BY <1>1 DEF Authorize, Inv, TypeOK, OpenFlows
    <2> QED
      BY <2>1, <2>2 DEF Credential!Close, Credential!vars
  <1>2. ASSUME NEW f \in Flows, AuthorizeStore(f)
        PROVE  Credential!Issue(f) \/ Credential!Close(f)
    <2>1. UNCHANGED Uses
      BY <1>2, UsesUnchanged DEF AuthorizeStore
    <2>2. f \in OpenFlows
      BY <1>2 DEF AuthorizeStore, OpenFlows
    <2>3. \/ stored' = stored \cup {f} /\ OpenFlows' \in {OpenFlows, OpenFlows \ {f}}
          \/ stored' = stored /\ OpenFlows' = OpenFlows \ {f}
      <3>1. \/ stored' = stored \cup {f} /\ \E pc \in {"respond", "store", "error"} :
                                                flow' = [flow EXCEPT ![f].pc = pc]
            \/ stored' = stored /\ flow' = [flow EXCEPT ![f].pc = "error"]
        BY <1>2 DEF AuthorizeStore, Outcomes, Executed, Store, redis
      <3> QED
        BY <3>1, <2>2 DEF Inv, TypeOK, OpenFlows
    <2> QED
      BY <2>1, <2>2, <2>3 DEF Credential!Issue, Credential!Close
  <1>3. ASSUME NEW f \in Flows, AuthorizeRespond(f)
        PROVE  UNCHANGED Credential!vars
    <2>1. UNCHANGED <<stored, Uses>>
      BY <1>3, UsesUnchanged DEF AuthorizeRespond, redis
    <2>2. UNCHANGED OpenFlows
      BY <1>3 DEF AuthorizeRespond, Inv, TypeOK, OpenFlows
    <2> QED
      BY <2>1, <2>2 DEF Credential!vars
  <1>4. ASSUME NEW c \in Callbacks, NEW b \in Browsers, NEW f \in Flows \cup {None},
               NEW supported \in BOOLEAN, Callback(c, b, f, supported)
        PROVE  UNCHANGED Credential!vars
    <2>1. /\ UNCHANGED <<stored, flow, exchanges>>
          /\ cb[c].pc = "idle" /\ cb'[c].pc # "exchange"
          /\ \A d \in Callbacks : d # c => cb'[d] = cb[d]
      BY <1>4 DEF Callback, redis, Inv, TypeOK
    <2>2. UNCHANGED Uses
      BY <2>1, UsesUnchanged
    <2> QED
      BY <2>1, <2>2 DEF Credential!vars, OpenFlows
  <1>5. ASSUME NEW c \in Callbacks, CallbackConsume(c)
        PROVE  (\E f \in Flows : Credential!Use(f)) \/ Credential!Lose
    <2>1. stored' \in {stored, stored \ {cb[c].state}} /\ UNCHANGED <<flow, exchanges>>
      BY <1>5 DEF CallbackConsume, Consume
    <2>2. \/ /\ GotoCb(c, "exchange")
             /\ cb[c].state \in stored /\ stored' = stored \ {cb[c].state}
          \/ \E result \in {"unauthorized", "internal"} : Answer(c, result)
          \/ UNCHANGED cb
      BY <1>5 DEF CallbackConsume, Outcomes, Executed, Consume
    <2>3. cb[c].pc = "consume"
      BY <1>5 DEF CallbackConsume
    <2>4. CASE /\ GotoCb(c, "exchange")
               /\ cb[c].state \in stored /\ stored' = stored \ {cb[c].state}
      <3>1. PICK f \in Flows : f = cb[c].state /\ f \in stored /\ stored' = stored \ {f}
        BY <2>4 DEF Inv, TypeOK
      <3>2. Exchanging(f) = {} /\ exchanges[f] \in Nat
        BY <3>1 DEF Inv, TypeOK, OnceSound, Exchanging
      <3>3. OnlyMoves(c) /\ cb'[c].pc = "exchange"
        BY <2>4, GotoMoves DEF Inv, CbPC
      <3>4. Exchanging(f)' = {c}
        BY <3>1, <3>2, <3>3 DEF Exchanging, OnlyMoves
      <3>5. Cardinality(Exchanging(f)) = 0 /\ Cardinality(Exchanging(f)') = 1
        BY <3>2, <3>4, FS_EmptySet, FS_Singleton
      <3>6. \A g \in Flows \ {f} : Exchanging(g)' = Exchanging(g)
        BY <2>3, <3>1, <3>3 DEF Exchanging, OnlyMoves
      <3>7. Uses' = [Uses EXCEPT ![f] = @ + 1]
        <4>1. Uses[f] = exchanges[f] /\ Uses'[f] = exchanges[f] + 1
          BY <2>1, <3>2, <3>5 DEF Uses
        <4>2. \A g \in Flows \ {f} : Uses'[g] = Uses[g]
          BY <2>1, <3>6 DEF Uses
        <4> QED
          BY <4>1, <4>2 DEF Uses
      <3> QED
        BY <2>1, <3>1, <3>7 DEF Credential!Use, OpenFlows
    <2>5. CASE \/ \E result \in {"unauthorized", "internal"} : Answer(c, result)
               \/ UNCHANGED cb
      <3>1. \A d \in Callbacks : cb'[d] = cb[d] \/ (d = c /\ cb'[d].pc # "exchange")
        BY <2>5, AnswerMoves DEF Inv, OnlyMoves, Results
      <3>2. UNCHANGED Uses
        BY <2>1, <2>3, <3>1, UsesUnchanged
      <3> QED
        BY <2>1, <3>2 DEF Credential!Lose, OpenFlows
    <2> QED
      BY <2>2, <2>4, <2>5
  <1>6. ASSUME NEW c \in Callbacks, CallbackExchange(c)
        PROVE  UNCHANGED Credential!vars
    <2>1. PICK f \in Flows :
          /\ cb[c].pc = "exchange" /\ f = cb[c].state /\ exchanges[f] \in Nat
          /\ exchanges' = [exchanges EXCEPT ![f] = @ + 1] /\ UNCHANGED <<stored, flow>>
      <3>1. cb[c].state \in Flows
        BY <1>6 DEF CallbackExchange, Inv, TypeOK, CallbackSound
      <3> QED
        BY <1>6, <3>1 DEF CallbackExchange, redis, Inv, TypeOK
    <2>2. OnlyMoves(c) /\ cb'[c].pc # "exchange"
      BY <1>6, GotoMoves, AnswerMoves DEF CallbackExchange, Inv, CbPC, Results
    <2>3. c \in Exchanging(f)
      BY <2>1 DEF Exchanging
    <2>4. Exchanging(f)' = {}
      <3>1. Exchanging(f) = {c}
        BY <2>1, <2>3, ExchangingCount
      <3> QED
        BY <2>2, <3>1 DEF Exchanging, OnlyMoves
    <2>5. Cardinality(Exchanging(f)) = 1 /\ Cardinality(Exchanging(f)') = 0
      BY <2>3, <2>4, <2>1, ExchangingCount, FS_EmptySet
    <2>6. \A g \in Flows \ {f} : Exchanging(g)' = Exchanging(g)
      BY <2>1, <2>2 DEF Exchanging, OnlyMoves
    <2>7. UNCHANGED Uses
      <3>1. exchanges'[f] + 0 = exchanges[f] + 1
        BY <2>1 DEF Inv, TypeOK
      <3>2. \A g \in Flows \ {f} : exchanges'[g] = exchanges[g]
        BY <2>1 DEF Inv, TypeOK
      <3>3. \A g \in Flows : Uses'[g] = Uses[g]
        BY <2>5, <2>6, <3>1, <3>2 DEF Uses
      <3> QED
        BY <3>3 DEF Uses
    <2> QED
      BY <2>1, <2>7 DEF Credential!vars, OpenFlows
  <1>7. ASSUME NEW c \in Callbacks, CallbackUpsert(c) \/ CallbackSession(c) \/ CallbackRespond(c)
        PROVE  UNCHANGED Credential!vars
    <2>1. /\ cb[c].pc # "exchange" /\ UNCHANGED <<stored, flow, exchanges>>
      BY <1>7 DEF CallbackUpsert, CallbackSession, CallbackRespond, redis
    <2>2. \/ \E pc \in {"session", "done"} : GotoCb(c, pc)
          \/ \E result \in {"ok", "forbidden", "internal"} : Answer(c, result)
          \/ UNCHANGED cb
      BY <1>7 DEF CallbackUpsert, CallbackSession, CallbackRespond
    <2>3. \A d \in Callbacks : cb'[d] = cb[d] \/ (d = c /\ cb'[d].pc # "exchange")
      BY <2>2, GotoMoves, AnswerMoves DEF Inv, OnlyMoves, CbPC, Results
    <2>4. UNCHANGED Uses
      BY <2>1, <2>3, UsesUnchanged
    <2> QED
      BY <2>1, <2>4 DEF Credential!vars, OpenFlows
  <1>8. CASE Tick
    <2>1. stored' \in SUBSET stored /\ UNCHANGED <<flow, cb, exchanges>>
      BY <1>8 DEF Tick
    <2>2. UNCHANGED Uses
      BY <2>1, UsesUnchanged
    <2>3. Credential!Lose
      BY <2>1, <2>2 DEF Credential!Lose, OpenFlows
    <2> QED
      BY <2>3 DEF Credential!Next
  <1>9. CASE UNCHANGED vars
    <2>1. UNCHANGED <<stored, flow, cb, exchanges>>
      BY <1>9 DEF vars
    <2>2. UNCHANGED Uses
      BY <2>1, UsesUnchanged
    <2> QED
      BY <2>1, <2>2 DEF Credential!vars, OpenFlows
  <1> QED
    BY <1>1, <1>2, <1>3, <1>4, <1>5, <1>6, <1>7, <1>8, <1>9
    DEF Next, AuthorizeStep, CallbackStep, Credential!Next

\* The flow implements OneTimeCredential: a state is used only while Redis holds it, its
\* use takes it away, and once Authorize has answered nothing brings it back.
THEOREM StatesAreOneTimeCredentials == Spec => StatesAreOneTime
  BY Invariance, CredentialInit, CredentialStep, PTL DEF Spec, StatesAreOneTime, Credential!Spec
=============================================================================
