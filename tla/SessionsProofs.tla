--------------------------- MODULE SessionsProofs ---------------------------
(***************************************************************************)
(* Sessions for every set of tokens, requests and logouts, every TTL and   *)
(* every length of a second: none is accepted past its TTL or after a      *)
(* confirmed revocation, and none is lost before.                          *)
(***************************************************************************)
EXTENDS Sessions, TLAPS

\* What Redis holds under a token is what its one login stored, and the key's own
\* deadline, which starts at the SET, is never before ExpiresAt.
StoreSound ==
    \A t \in Tokens :
        /\ create[t].at <= now
        /\ store[t] # None => store[t] = Unix(ExpiresAt(t)) /\ create[t].pc # "idle"
        /\ create[t].pc = "created" => storeExp[t] >= ExpiresAt(t)

\* A token is presented only once its login returned, and its login never stores again,
\* so a key whose DEL was confirmed stays away.
RevokedGone ==
    /\ \A t \in revoked : create[t].pc = "created" /\ store[t] = None
    /\ \A l \in Logouts :
        /\ logout[l].pc = "del" => logout[l].token \in Issued
        /\ logout[l].pc = "idle" => logout[l].token = None

\* What a request in the middleware has read and concluded so far.
ReadSound ==
    \A r \in Reqs :
        /\ req[r].stale \subseteq revoked
        /\ req[r].pc \in {"get", "check", "drop", "accepted"} => req[r].token \in Issued
        /\ req[r].pc \in {"check", "drop"} => req[r].exp = Unix(ExpiresAt(req[r].token))
        /\ req[r].pc = "drop" => now > req[r].exp
        /\ req[r].pc \in {"check", "accepted"} => req[r].token \notin req[r].stale
        /\ req[r].pc = "accepted" => req[r].done <= ExpiresAt(req[r].token)

\* Until its rounded end a session is in Redis unless somebody logs it out.
KeptUntilRounded ==
    \A t \in Issued :
        \/ store[t] # None
        \/ now >= Unix(ExpiresAt(t))
        \/ \E l \in Logouts : logout[l].token = t

\* The inductive invariant.
Inv == TypeOK /\ StoreSound /\ RevokedGone /\ ReadSound /\ KeptUntilRounded

----------------------------------------------------------------------------

\* Truncation gives a time that is not later, by less than a second.
LEMMA UnixBound ==
    ASSUME NEW t \in Nat
    PROVE  Unix(t) \in Nat /\ Unix(t) <= t /\ t < Unix(t) + Second
  <1>1. Second \in Nat \ {0}
    BY SessionConstants
  <1>2. t % Second \in 0..(Second - 1)
    BY <1>1
  <1>3. t % Second <= t
    BY <1>1, Z3
  <1> QED
    BY <1>1, <1>2, <1>3 DEF Unix

\* The ends of sessions lie within the bounds of the types.
LEMMA ExpiryBound ==
    ASSUME TypeOK, NEW t \in Tokens
    PROVE  /\ ExpiresAt(t) \in Deadlines /\ ExpiresAt(t) \in Nat
           /\ Unix(ExpiresAt(t)) \in Deadlines /\ Unix(ExpiresAt(t)) <= ExpiresAt(t)
  <1>1. create[t].at \in 0..MaxClock /\ TTL \in Nat /\ MaxClock \in Nat
    BY SessionConstants DEF TypeOK
  <1>2. ExpiresAt(t) \in Deadlines /\ ExpiresAt(t) \in Nat
    BY <1>1 DEF ExpiresAt, Deadlines
  <1> QED
    BY <1>1, <1>2, UnixBound DEF Deadlines

\* A request that goes on keeps its type.
ReqTypes == [Reqs -> [pc : ReqPC, token : Tokens \cup {None}, exp : Deadlines,
                      stale : SUBSET Tokens, done : 0..MaxClock]]

\* Setting the place and the time of a request keeps the types of all.
LEMMA GotoReqType ==
    ASSUME TypeOK, NEW r \in Reqs, NEW pc \in ReqPC, GotoReq(r, pc)
    PROVE  req' \in ReqTypes
  <1> DEFINE q == [req[r] EXCEPT !.pc = pc, !.done = now]
  <1>1. q \in [pc : ReqPC, token : Tokens \cup {None}, exp : Deadlines,
               stale : SUBSET Tokens, done : 0..MaxClock]
    <2>1. /\ req[r] \in [pc : ReqPC, token : Tokens \cup {None}, exp : Deadlines,
                         stale : SUBSET Tokens, done : 0..MaxClock]
          /\ now \in 0..MaxClock
      BY DEF TypeOK
    <2> QED
      BY <2>1
  <1>2. req' = [req EXCEPT ![r] = q]
    BY DEF GotoReq
  <1>3. req \in ReqTypes
    BY DEF TypeOK, ReqTypes
  <1> HIDE DEF q
  <1> QED
    BY <1>1, <1>2, <1>3 DEF ReqTypes

\* At the start nothing is stored and nobody is served.
LEMMA InitInv == Init => Inv
  <1> SUFFICES ASSUME Init
               PROVE  Inv
    OBVIOUS
  <1> USE SessionConstants DEF Init
  <1>1. TypeOK
    BY DEF TypeOK, Deadlines, ReqPC
  <1>2. StoreSound
    <2>1. \A t \in Tokens :
            create[t].pc = "idle" /\ create[t].at = 0 /\ store[t] = None /\ now = 0
      OBVIOUS
    <2>2. 0 <= 0
      OBVIOUS
    <2> QED
      BY <2>2, Zenon DEF StoreSound
  <1>3. RevokedGone
    BY DEF RevokedGone
  <1>4. ReadSound
    BY DEF ReadSound
  <1>5. KeptUntilRounded
    BY DEF KeptUntilRounded, Issued
  <1> QED
    BY <1>1, <1>2, <1>3, <1>4, <1>5 DEF Inv

\* Every step of a login, a request, a logout and the clock keeps the invariant.
LEMMA NextInv == Inv /\ [Next]_vars => Inv'
  <1> SUFFICES ASSUME Inv, [Next]_vars
               PROVE  Inv'
    OBVIOUS
  <1> USE DEF Inv
  <1>1. ASSUME NEW t \in Tokens, Create(t)
        PROVE  Inv'
    <2>1. TypeOK'
      BY <1>1 DEF Create, TypeOK
    <2>2. StoreSound'
      BY <1>1 DEF Create, TypeOK, StoreSound, ExpiresAt
    <2>3. RevokedGone'
      BY <1>1 DEF Create, RevokedGone, Issued
    <2>4. ReadSound'
      BY <1>1 DEF Create, ReadSound, Issued, ExpiresAt
    <2>5. KeptUntilRounded'
      BY <1>1 DEF Create, KeptUntilRounded, Issued, ExpiresAt
    <2> QED
      BY <2>1, <2>2, <2>3, <2>4, <2>5
  <1>2. ASSUME NEW t \in Tokens, CreateSet(t)
        PROVE  Inv'
    <2>1. TypeOK'
      <3>1. Unix(ExpiresAt(t)) \in Deadlines /\ now + TTL \in Deadlines
        BY ExpiryBound, SessionConstants DEF TypeOK, Deadlines
      <3>2. store' \in [Tokens -> Deadlines \cup {None}] /\ storeExp' \in [Tokens -> Deadlines]
        BY <1>2, <3>1 DEF CreateSet, TypeOK
      <3>3. \E pc \in {"created", "set", "error"} : create' = [create EXCEPT ![t].pc = pc]
        BY <1>2 DEF CreateSet
      <3>4. create' \in [Tokens -> [pc : {"idle", "set", "created", "error"}, at : 0..MaxClock]]
        BY <3>3 DEF TypeOK
      <3> QED
        BY <1>2, <3>2, <3>4 DEF CreateSet, TypeOK
    <2>2. StoreSound'
      BY <1>2, SessionConstants DEF CreateSet, Executed, TypeOK, StoreSound, ExpiresAt
    <2>3. RevokedGone'
      BY <1>2 DEF CreateSet, RevokedGone, Issued
    <2>4. ReadSound'
      BY <1>2 DEF CreateSet, ReadSound, Issued, ExpiresAt
    <2>5. KeptUntilRounded'
      <3>1. Unix(ExpiresAt(t)) # None
        BY ExpiryBound, SessionConstants DEF Deadlines
      <3> QED
        BY <1>2, <3>1 DEF CreateSet, Executed, TypeOK, KeptUntilRounded, Issued, ExpiresAt
    <2> QED
      BY <2>1, <2>2, <2>3, <2>4, <2>5
  <1>3. ASSUME NEW r \in Reqs, NEW t \in Tokens \cup {None}, Request(r, t)
        PROVE  Inv'
    <2>1. TypeOK'
      BY <1>3, SessionConstants DEF Request, TypeOK, Deadlines, ReqPC
    <2>2. StoreSound'
      BY <1>3 DEF Request, StoreSound, ExpiresAt
    <2>3. RevokedGone'
      BY <1>3 DEF Request, RevokedGone, Issued
    <2>4. ReadSound'
      BY <1>3 DEF Request, ReadSound, Issued, ExpiresAt
    <2>5. KeptUntilRounded'
      BY <1>3 DEF Request, KeptUntilRounded, Issued, ExpiresAt
    <2> QED
      BY <2>1, <2>2, <2>3, <2>4, <2>5
  <1>4. ASSUME NEW r \in Reqs, ValidateGet(r)
        PROVE  Inv'
    <2>1. TypeOK'
      <3>1. req[r].token \in Tokens
        BY <1>4 DEF ValidateGet, ReadSound, Issued
      <3>2. CASE \E pc \in {"unavailable", "unauthorized"} : GotoReq(r, pc)
        <4>1. req' \in ReqTypes
          BY <3>2, GotoReqType DEF ReqPC
        <4> QED
          BY <1>4, <4>1 DEF ValidateGet, TypeOK, ReqTypes
      <3>3. CASE /\ GetByToken(req[r].token) # None
                 /\ req' = [req EXCEPT ![r].pc = "check", ![r].exp = GetByToken(req[r].token),
                                      ![r].stale = revoked]
        <4>1. GetByToken(req[r].token) \in Deadlines /\ revoked \in SUBSET Tokens
          BY <3>1, <3>3 DEF GetByToken, TypeOK
        <4> DEFINE q == [req[r] EXCEPT !.pc = "check", !.exp = GetByToken(req[r].token),
                                       !.stale = revoked]
        <4>2. q \in [pc : ReqPC, token : Tokens \cup {None}, exp : Deadlines,
                     stale : SUBSET Tokens, done : 0..MaxClock]
          <5>1. /\ req[r] \in [pc : ReqPC, token : Tokens \cup {None}, exp : Deadlines,
                               stale : SUBSET Tokens, done : 0..MaxClock]
                /\ "check" \in ReqPC
            BY DEF TypeOK, ReqPC
          <5> QED
            BY <4>1, <5>1
        <4>3. req' = [req EXCEPT ![r] = q] /\ req \in ReqTypes
          BY <3>3 DEF TypeOK, ReqTypes
        <4> HIDE DEF q
        <4>4. req' \in ReqTypes
          BY <4>2, <4>3 DEF ReqTypes
        <4> QED
          BY <1>4, <4>4 DEF ValidateGet, TypeOK, ReqTypes
      <3> QED
        BY <1>4, <3>2, <3>3 DEF ValidateGet
    <2>2. StoreSound'
      BY <1>4 DEF ValidateGet, StoreSound, ExpiresAt
    <2>3. RevokedGone'
      BY <1>4 DEF ValidateGet, RevokedGone, Issued
    <2>4. ReadSound'
      BY <1>4 DEF ValidateGet, GetByToken, GotoReq, TypeOK, ReadSound, RevokedGone,
         StoreSound, Issued, ExpiresAt
    <2>5. KeptUntilRounded'
      BY <1>4 DEF ValidateGet, KeptUntilRounded, Issued, ExpiresAt
    <2> QED
      BY <2>1, <2>2, <2>3, <2>4, <2>5
  <1>5. ASSUME NEW r \in Reqs, ValidateCheck(r)
        PROVE  Inv'
    <2>1. TypeOK'
      <3>1. req' \in ReqTypes
        BY <1>5, GotoReqType DEF ValidateCheck, ReqPC
      <3> QED
        BY <1>5, <3>1 DEF ValidateCheck, TypeOK, ReqTypes
    <2>2. StoreSound'
      BY <1>5 DEF ValidateCheck, StoreSound, ExpiresAt
    <2>3. RevokedGone'
      BY <1>5 DEF ValidateCheck, RevokedGone, Issued
    <2>4. ReadSound'
      <3>1. req[r].token \in Tokens /\ now \in Nat /\ req[r].exp \in Nat
        BY <1>5 DEF ValidateCheck, TypeOK, ReadSound, Issued, Deadlines
      <3>2. ~(now > req[r].exp) => now <= ExpiresAt(req[r].token)
        BY <1>5, <3>1, ExpiryBound DEF ValidateCheck, ReadSound
      <3>3. CASE now > req[r].exp
        BY <1>5, <3>3 DEF ValidateCheck, GotoReq, TypeOK, ReadSound, Issued, ExpiresAt
      <3>4. CASE ~(now > req[r].exp)
        BY <1>5, <3>2 DEF ValidateCheck, GotoReq, TypeOK, ReadSound, Issued, ExpiresAt
      <3> QED
        BY <3>3, <3>4
    <2>5. KeptUntilRounded'
      BY <1>5 DEF ValidateCheck, KeptUntilRounded, Issued, ExpiresAt
    <2> QED
      BY <2>1, <2>2, <2>3, <2>4, <2>5
  <1>6. ASSUME NEW r \in Reqs, ValidateDrop(r)
        PROVE  Inv'
    <2>1. TypeOK'
      <3>1. store' \in [Tokens -> Deadlines \cup {None}]
        BY <1>6 DEF ValidateDrop, Delete, TypeOK
      <3>2. req' \in ReqTypes
        <4>1. UNCHANGED req \/ GotoReq(r, "unauthorized")
          BY <1>6 DEF ValidateDrop
        <4> QED
          BY <4>1, GotoReqType DEF TypeOK, ReqTypes, ReqPC
      <3> QED
        BY <1>6, <3>1, <3>2 DEF ValidateDrop, TypeOK, ReqTypes
    <2>2. StoreSound'
      BY <1>6 DEF ValidateDrop, Delete, StoreSound, ExpiresAt
    <2>3. RevokedGone'
      BY <1>6 DEF ValidateDrop, Delete, RevokedGone, Issued
    <2>4. ReadSound'
      BY <1>6 DEF ValidateDrop, GotoReq, TypeOK, ReadSound, Issued, ExpiresAt
    <2>5. KeptUntilRounded'
      <3>1. /\ req[r].token \in Tokens /\ now \in Nat
            /\ Unix(ExpiresAt(req[r].token)) \in Nat /\ now > Unix(ExpiresAt(req[r].token))
        BY <1>6, ExpiryBound, UnixBound DEF ValidateDrop, TypeOK, ReadSound, Issued
      <3>2. UNCHANGED <<now, create, logout>>
        BY <1>6 DEF ValidateDrop
      <3>3. store' \in {store, [store EXCEPT ![req[r].token] = None]}
        BY <1>6 DEF ValidateDrop, Delete
      <3> QED
        BY <3>1, <3>2, <3>3 DEF TypeOK, KeptUntilRounded, Issued, ExpiresAt
    <2> QED
      BY <2>1, <2>2, <2>3, <2>4, <2>5
  <1>7. ASSUME NEW l \in Logouts, NEW t \in Tokens \cup {None}, Logout(l, t)
        PROVE  Inv'
    <2>1. TypeOK'
      BY <1>7 DEF Logout, TypeOK
    <2>2. StoreSound'
      BY <1>7 DEF Logout, StoreSound, ExpiresAt
    <2>3. RevokedGone'
      BY <1>7 DEF Logout, RevokedGone, Issued
    <2>4. ReadSound'
      BY <1>7 DEF Logout, ReadSound, Issued, ExpiresAt
    <2>5. KeptUntilRounded'
      BY <1>7, SessionConstants DEF Logout, KeptUntilRounded, RevokedGone, Issued, ExpiresAt
    <2> QED
      BY <2>1, <2>2, <2>3, <2>4, <2>5
  <1>8. ASSUME NEW l \in Logouts, LogoutRevoke(l)
        PROVE  Inv'
    <2>1. TypeOK'
      <3>1. store' \in [Tokens -> Deadlines \cup {None}]
        BY <1>8 DEF LogoutRevoke, Delete, TypeOK
      <3>2. logout[l].token \in Tokens
        BY <1>8 DEF LogoutRevoke, RevokedGone, Issued
      <3>3. revoked' \in SUBSET Tokens
        BY <1>8, <3>2 DEF LogoutRevoke, TypeOK
      <3>4. \E pc \in {"del", "loggedout"} : logout' = [logout EXCEPT ![l].pc = pc]
        BY <1>8 DEF LogoutRevoke
      <3>5. logout' \in [Logouts -> [pc : {"idle", "del", "loggedout"}, token : Tokens \cup {None}]]
        BY <3>4 DEF TypeOK
      <3> QED
        BY <1>8, <3>1, <3>3, <3>5 DEF LogoutRevoke, TypeOK
    <2>2. StoreSound'
      BY <1>8 DEF LogoutRevoke, Delete, StoreSound, ExpiresAt
    <2>3. RevokedGone'
      BY <1>8 DEF LogoutRevoke, Delete, Executed, TypeOK, RevokedGone, Issued
    <2>4. ReadSound'
      BY <1>8 DEF LogoutRevoke, ReadSound, Issued, ExpiresAt
    <2>5. KeptUntilRounded'
      BY <1>8 DEF LogoutRevoke, Delete, KeptUntilRounded, Issued, ExpiresAt
    <2> QED
      BY <2>1, <2>2, <2>3, <2>4, <2>5
  <1>9. CASE Tick
    <2>1. TypeOK'
      BY <1>9, SessionConstants DEF Tick, TypeOK
    <2>2. StoreSound'
      BY <1>9 DEF Tick, TypeOK, StoreSound, ExpiresAt
    <2>3. RevokedGone'
      BY <1>9 DEF Tick, TypeOK, RevokedGone, Issued
    <2>4. ReadSound'
      <3>1. now' > now /\ UNCHANGED <<create, req, revoked>>
        BY <1>9 DEF Tick, TypeOK
      <3>2. \A r \in Reqs : req[r].exp \in Nat
        BY DEF TypeOK, Deadlines
      <3>3. now \in Nat /\ now' \in Nat
        BY <1>9 DEF Tick, TypeOK
      <3>4. Issued' = Issued /\ \A t \in Tokens : ExpiresAt(t)' = ExpiresAt(t)
        BY <3>1 DEF Issued, ExpiresAt
      <3> QED
        BY <3>1, <3>2, <3>3, <3>4 DEF ReadSound, Issued
    <2>5. KeptUntilRounded'
      <3> SUFFICES ASSUME NEW t \in Issued',
                          ~\E l \in Logouts : logout'[l].token = t
                   PROVE  store'[t] # None \/ now' >= Unix(ExpiresAt(t))
        BY <1>9 DEF Tick, KeptUntilRounded, ExpiresAt
      <3>1. t \in Issued /\ t \in Tokens
        BY <1>9 DEF Tick, Issued
      <3>2. store[t] # None \/ now >= Unix(ExpiresAt(t))
        BY <1>9, <3>1 DEF Tick, KeptUntilRounded
      <3>3. /\ now \in Nat /\ now' = now + 1 /\ storeExp[t] \in Nat
            /\ ExpiresAt(t) \in Nat /\ Unix(ExpiresAt(t)) \in Nat
            /\ Unix(ExpiresAt(t)) <= ExpiresAt(t) /\ ExpiresAt(t) <= storeExp[t]
        BY <1>9, ExpiryBound DEF Tick, TypeOK, Deadlines, StoreSound, Issued
      <3>4. CASE storeExp[t] <= now'
        BY <3>3, <3>4
      <3>5. CASE ~(storeExp[t] <= now')
        BY <1>9, <3>1, <3>2, <3>3 DEF Tick
      <3> QED
        BY <3>4, <3>5
    <2> QED
      BY <2>1, <2>2, <2>3, <2>4, <2>5
  <1>10. CASE UNCHANGED vars
    <2>1. TypeOK'
      BY <1>10 DEF vars, TypeOK
    <2>2. StoreSound'
      BY <1>10 DEF vars, StoreSound, ExpiresAt
    <2>3. RevokedGone'
      BY <1>10 DEF vars, RevokedGone, Issued
    <2>4. ReadSound'
      BY <1>10 DEF vars, ReadSound, Issued, ExpiresAt
    <2>5. KeptUntilRounded'
      BY <1>10 DEF vars, KeptUntilRounded, Issued, ExpiresAt
    <2> QED
      BY <2>1, <2>2, <2>3, <2>4, <2>5
  <1> QED
    BY <1>1, <1>2, <1>3, <1>4, <1>5, <1>6, <1>7, <1>8, <1>9, <1>10 DEF Next

\* The inductive invariant holds in every behaviour.
THEOREM Invariance == Spec => []Inv
  BY InitInv, NextInv, PTL DEF Spec

\* Sessions keep their types, for every TTL and length of a second.
THEOREM SessionTypes == Spec => []TypeOK
  <1>1. Inv => TypeOK
    BY DEF Inv
  <1> QED
    BY <1>1, Invariance, PTL

\* Validate lets no request in later than TTL after the login computed ExpiresAt, however
\* long the SET was delayed and however far its rounding is off.
THEOREM AcceptedWithinTTL == Spec => []NotAcceptedAfterTTL
  <1>1. Inv => NotAcceptedAfterTTL
    BY DEF Inv, ReadSound, NotAcceptedAfterTTL
  <1> QED
    BY <1>1, Invariance, PTL

\* A request that reads its session after a confirmed DEL of it is refused, however many
\* requests, logouts and repeated commands race.
THEOREM RevokedStaysOut == Spec => []RevokedSessionRejected
  <1>1. Inv => RevokedSessionRejected
    BY DEF Inv, ReadSound, RevokedSessionRejected
  <1> QED
    BY <1>1, Invariance, PTL

\* Until a second before its ExpiresAt a session is one that Validate accepts, unless
\* somebody logs it out, for every TTL and every length of a second.
THEOREM LiveSessionsSurvive == Spec => []LiveSessionKept
  <1>1. Inv => LiveSessionKept
    <2> SUFFICES ASSUME Inv, NEW t \in Issued,
                        ~(now + Second > ExpiresAt(t)),
                        ~\E l \in Logouts : logout[l].token = t
                 PROVE  store[t] # None /\ now <= store[t]
      BY DEF LiveSessionKept
    <2>1. /\ t \in Tokens /\ now \in Nat /\ Second \in Nat \ {0}
          /\ ExpiresAt(t) \in Nat /\ Unix(ExpiresAt(t)) \in Nat
      BY SessionConstants, ExpiryBound, UnixBound DEF Inv, TypeOK, Issued
    <2>2. now < Unix(ExpiresAt(t))
      BY <2>1, UnixBound
    <2>3. store[t] # None
      BY <2>1, <2>2 DEF Inv, KeptUntilRounded
    <2>4. store[t] = Unix(ExpiresAt(t))
      BY <2>1, <2>3 DEF Inv, StoreSound
    <2> QED
      BY <2>1, <2>2, <2>3, <2>4
  <1> QED
    BY <1>1, Invariance, PTL
=============================================================================
