--------------------------- MODULE OTPAuthProofs ---------------------------
(***************************************************************************)
(* OTPAuth for every set of addresses, codes and requests and every TTL: a *)
(* stored code logs in one request, for its own address and an account     *)
(* that may log in, it is lost only as explained, and codes are one-time   *)
(* credentials.                                                            *)
(***************************************************************************)
EXTENDS OTPAuth, FiniteSetTheorems, TLAPS

\* A request that has started has an address and a code, and the key of an address holds
\* a code that was drawn for it.
SendSound ==
    /\ \A s \in Sends : send[s].pc # "idle" => send[s].email \in Emails /\ send[s].code \in Codes
    /\ \A e \in Emails : otp[e] # None => send[otp[e]].pc # "idle" /\ send[otp[e]].email = e

\* What a verify request has got hold of so far: no account is ever removed.
VerifySound ==
    \A v \in Verifies :
        /\ verify[v].pc # "idle" => verify[v].email \in Emails
        /\ verify[v].pc \in {"idle", "consume"} => verify[v].cred = None
        /\ verify[v].cred # None =>
            /\ send[verify[v].cred].pc # "idle"
            /\ send[verify[v].cred].email = verify[v].email
            /\ send[verify[v].cred].code = verify[v].code
        /\ verify[v].pc \in {"lookup", "create", "session"} \/ v \in sessions => verify[v].cred # None
        /\ verify[v].pc = "session" \/ v \in sessions => users[verify[v].email] # None
        /\ v \in sessions => verify[v].pc \in {"session", "ok", "internal"}

\* A barred request meets its disabled account at the lookup at the latest.
BarredSound ==
    \A v \in barred :
        /\ users[verify[v].email] = "disabled"
        /\ verify[v].pc \notin {"idle", "create", "session"}
        /\ v \notin sessions

\* Every consumption and the key that is still there are paid for by a SET.
Live(s) == IF \E e \in Emails : otp[e] = s THEN 1 ELSE 0
PaidFor ==
    \A s \in Sends :
        /\ IsFiniteSet(Consumers(s))
        /\ Cardinality(Consumers(s)) + Live(s) <= writes[s]

\* Two sends to an address that are in flight together know of each other, and so do a
\* send after its SET and the one whose code replaced its own.
OverlapSound ==
    \A s, t \in Sends :
        s # t /\ send[t].email = send[s].email =>
            /\ send[s].pc \in SendRunning /\ send[t].pc \in SendRunning => t \in overlap[s]
            /\ send[t].pc \in {"mail", "cleanup"} /\ otp[send[s].email] = s => t \in overlap[s]

\* The inductive invariant.
Inv == TypeOK /\ SendSound /\ VerifySound /\ BarredSound /\ PaidFor /\ OverlapSound

----------------------------------------------------------------------------
(* What a step does to the requests and to what has been paid for.         *)

SendRecord == [pc : SendPC, email : Emails \cup {None}, code : Codes \cup {None}]
VerifyRecord == [pc : VerifyPC, email : Emails \cup {None},
                 code : Codes \cup {None}, cred : Sends \cup {None}]

\* Only s moves, to pc, and no send request changes its address or code.
SendMovesTo(s, pc) ==
    /\ send' \in [Sends -> SendRecord] /\ send'[s].pc = pc
    /\ \A t \in Sends : /\ send'[t].email = send[t].email /\ send'[t].code = send[t].code
                        /\ t # s => send'[t] = send[t]

\* Only v moves, to pc, and no verify request changes what it has.
VerifyMovesTo(v, pc) ==
    /\ verify' \in [Verifies -> VerifyRecord] /\ verify'[v].pc = pc
    /\ \A u \in Verifies : /\ verify'[u].email = verify[u].email
                           /\ verify'[u].code = verify[u].code /\ verify'[u].cred = verify[u].cred
                           /\ u # v => verify'[u] = verify[u]

\* A send that goes on keeps its address and its code.
LEMMA SendMoves ==
    ASSUME TypeOK, NEW s \in Sends, NEW pc \in SendPC, GotoSend(s, pc)
    PROVE  SendMovesTo(s, pc)
  <1> DEFINE q == [send[s] EXCEPT !.pc = pc]
  <1>1. q \in SendRecord /\ q.pc = pc /\ q.email = send[s].email /\ q.code = send[s].code
    BY DEF TypeOK, SendRecord
  <1>2. send' = [send EXCEPT ![s] = q]
    BY DEF GotoSend
  <1>3. send \in [Sends -> SendRecord]
    BY DEF TypeOK, SendRecord
  <1> HIDE DEF q
  <1> QED
    BY <1>1, <1>2, <1>3 DEF SendMovesTo

\* A verification that goes on keeps its address, its code and the code it consumed.
LEMMA VerifyMoves ==
    ASSUME TypeOK, NEW v \in Verifies, NEW pc \in VerifyPC, GotoVerify(v, pc)
    PROVE  VerifyMovesTo(v, pc)
  <1> DEFINE q == [verify[v] EXCEPT !.pc = pc]
  <1>1. /\ q \in VerifyRecord /\ q.pc = pc
        /\ q.email = verify[v].email /\ q.code = verify[v].code /\ q.cred = verify[v].cred
    BY DEF TypeOK, VerifyRecord
  <1>2. verify' = [verify EXCEPT ![v] = q]
    BY DEF GotoVerify
  <1>3. verify \in [Verifies -> VerifyRecord]
    BY DEF TypeOK, VerifyRecord
  <1> HIDE DEF q
  <1> QED
    BY <1>1, <1>2, <1>3 DEF VerifyMovesTo

\* Keys that disappear, and requests that consume nothing, leave everything paid for.
LEMMA StillPaidFor ==
    ASSUME TypeOK, PaidFor, UNCHANGED writes,
           \A e \in Emails : otp'[e] \in {otp[e], None},
           \A v \in Verifies : verify'[v].cred = verify[v].cred
    PROVE  PaidFor'
  <1> SUFFICES ASSUME NEW s \in Sends
               PROVE  IsFiniteSet(Consumers(s)') /\ Cardinality(Consumers(s)') + Live(s)' <= writes[s]
    BY DEF PaidFor
  <1>1. Consumers(s)' = Consumers(s)
    BY DEF Consumers
  <1>2. Live(s) \in {0, 1} /\ Live(s)' \in {0, 1} /\ (Live(s)' = 1 => Live(s) = 1)
    BY OTPConstants DEF Live
  <1>3. IsFiniteSet(Consumers(s)) /\ Cardinality(Consumers(s)) + Live(s) <= writes[s]
    BY DEF PaidFor
  <1>4. Cardinality(Consumers(s)) \in Nat /\ writes[s] \in Nat
    BY <1>3, FS_CardinalityType DEF TypeOK
  <1> QED
    BY <1>1, <1>2, <1>3, <1>4

----------------------------------------------------------------------------

\* At the start no code is stored and no request runs.
LEMMA InitInv == Init => Inv
  <1> SUFFICES ASSUME Init
               PROVE  Inv
    OBVIOUS
  <1> USE OTPConstants DEF Init
  <1>1. TypeOK
    BY DEF TypeOK, SendPC, VerifyPC
  <1>2. SendSound
    BY DEF SendSound
  <1>3. VerifySound
    BY DEF VerifySound
  <1>4. BarredSound
    BY DEF BarredSound
  <1>5. PaidFor
    <2> SUFFICES ASSUME NEW s \in Sends
                 PROVE  IsFiniteSet(Consumers(s)) /\ Cardinality(Consumers(s)) + Live(s) <= writes[s]
      BY DEF PaidFor
    <2>1. Consumers(s) = {} /\ Live(s) = 0 /\ writes[s] = 0
      BY DEF Consumers, Live
    <2> QED
      BY <2>1, FS_EmptySet
  <1>6. OverlapSound
    BY DEF OverlapSound, SendRunning
  <1> QED
    BY <1>1, <1>2, <1>3, <1>4, <1>5, <1>6 DEF Inv

\* Every step of a send request, a verify request, the accounts and the clock keeps the
\* invariant.
LEMMA NextInv == Inv /\ [Next]_vars => Inv'
  <1> SUFFICES ASSUME Inv, [Next]_vars
               PROVE  Inv'
    OBVIOUS
  <1> USE OTPConstants DEF Inv
  <1>1. ASSUME NEW s \in Sends, NEW e \in Emails, NEW c \in Codes, SendCode(s, e, c)
        PROVE  Inv'
    <2>1. /\ send[s].pc = "idle" /\ \A t \in Sends \ {s} : send'[t] = send[t]
          /\ send'[s].pc \in {"store", "error"} /\ send'[s].email = e /\ send'[s].code = c
          /\ UNCHANGED <<now, otp, otpExp, users, sessions, verify, barred, writes>>
      BY <1>1 DEF SendCode, TypeOK, redis
    <2>2. TypeOK'
      BY <1>1 DEF SendCode, TypeOK, redis, SendPC, SendRunning, InFlight
    <2>3. SendSound'
      <3>1. \A t \in Sends : send'[t].pc # "idle" => send'[t].email \in Emails /\ send'[t].code \in Codes
        BY <2>1 DEF SendSound
      <3>2. ASSUME NEW x \in Emails, otp[x] # None
            PROVE  send'[otp[x]].pc # "idle" /\ send'[otp[x]].email = x
        <4>1. otp[x] \in Sends \ {s}
          BY <2>1, <3>2 DEF TypeOK, SendSound
        <4> QED
          BY <2>1, <3>2, <4>1 DEF SendSound
      <3> QED
        BY <2>1, <3>1, <3>2 DEF SendSound
    <2>4. VerifySound'
      BY <2>1 DEF TypeOK, VerifySound
    <2>5. BarredSound'
      BY <2>1 DEF BarredSound
    <2>6. PaidFor'
      BY <2>1, StillPaidFor
    <2>7. OverlapSound'
      <3>1. /\ overlap'[s] = InFlight(e)
            /\ \A t \in Sends \ {s} : /\ overlap[t] \subseteq overlap'[t]
                                      /\ t \in InFlight(e) => s \in overlap'[t]
        BY <1>1 DEF SendCode, TypeOK
      <3>2. \A x \in Emails : otp[x] # s
        BY <2>1 DEF SendSound
      <3> QED
        BY <2>1, <3>1, <3>2 DEF TypeOK, SendSound, OverlapSound, InFlight, SendRunning
    <2> QED
      BY <2>2, <2>3, <2>4, <2>5, <2>6, <2>7
  <1>2. ASSUME NEW s \in Sends, SendStore(s)
        PROVE  Inv'
    <2>1. PICK e \in Emails : send[s].email = e
      BY <1>2 DEF SendStore, SendSound
    <2>2. /\ send[s].pc = "store"
          /\ UNCHANGED <<now, users, sessions, verify, barred, overlap>>
          /\ \/ /\ otp' = [otp EXCEPT ![e] = s] /\ otpExp' = [otpExp EXCEPT ![e] = now + TTL]
                /\ writes' = [writes EXCEPT ![s] = @ + 1] /\ writes[s] < MaxWrites
                /\ \E pc \in {"mail", "store", "error"} : SendMovesTo(s, pc)
             \/ UNCHANGED <<otp, otpExp, writes>> /\ SendMovesTo(s, "error")
      <3>1. UNCHANGED send /\ send[s].pc = "store" => SendMovesTo(s, "store")
        BY DEF TypeOK, SendMovesTo, SendRecord
      <3>2. \A pc \in {"mail", "error"} : GotoSend(s, pc) => SendMovesTo(s, pc)
        BY SendMoves DEF SendPC, SendRunning
      <3> QED
        BY <1>2, <2>1, <3>1, <3>2 DEF SendStore, Outcomes, Executed, Expiry, redis
    <2>3. /\ send' \in [Sends -> SendRecord] /\ send'[s].pc \in {"mail", "store", "error"}
          /\ \A t \in Sends : /\ send'[t].email = send[t].email /\ send'[t].code = send[t].code
                              /\ t # s => send'[t] = send[t]
      BY <2>2 DEF SendMovesTo
    <2>4. TypeOK'
      <3>1. /\ now + TTL \in 0..(MaxClock + TTL)
            /\ writes[s] < MaxWrites => writes[s] + 1 \in 0..MaxWrites
        BY DEF TypeOK
      <3>2. otp' \in [Emails -> Sends \cup {None}] /\ otpExp' \in [Emails -> 0..(MaxClock + TTL)]
        <4>1. otp \in [Emails -> Sends \cup {None}] /\ otpExp \in [Emails -> 0..(MaxClock + TTL)]
          BY DEF TypeOK
        <4>2. \/ otp' = [otp EXCEPT ![e] = s] /\ otpExp' = [otpExp EXCEPT ![e] = now + TTL]
              \/ otp' = otp /\ otpExp' = otpExp
          BY <2>2
        <4> QED
          BY <3>1, <4>1, <4>2
      <3>3. writes' \in [Sends -> 0..MaxWrites]
        BY <2>2, <3>1 DEF TypeOK
      <3> QED
        BY <2>2, <2>3, <3>2, <3>3 DEF TypeOK, SendRecord
    <2>5. SendSound'
      <3>1. \A t \in Sends : send'[t].pc # "idle" <=> send[t].pc # "idle"
        BY <2>2, <2>3
      <3>2. \A x \in Emails : otp'[x] = otp[x] \/ (x = e /\ otp'[x] = s)
        BY <2>2 DEF TypeOK
      <3>3. \A x \in Emails : otp[x] # None => otp[x] \in Sends
        BY DEF TypeOK
      <3> QED
        BY <2>1, <2>2, <2>3, <3>1, <3>2, <3>3 DEF SendSound
    <2>6. VerifySound'
      BY <2>2, <2>3 DEF TypeOK, VerifySound
    <2>7. BarredSound'
      BY <2>2 DEF BarredSound
    <2>8. PaidFor'
      <3>1. CASE UNCHANGED <<otp, writes>>
        BY <2>2, <3>1, StillPaidFor
      <3>2. CASE otp' = [otp EXCEPT ![e] = s] /\ writes' = [writes EXCEPT ![s] = @ + 1]
        <4> SUFFICES ASSUME NEW t \in Sends
                     PROVE  /\ IsFiniteSet(Consumers(t)')
                            /\ Cardinality(Consumers(t)') + Live(t)' <= writes'[t]
          BY DEF PaidFor
        <4>1. Consumers(t)' = Consumers(t)
          BY <2>2 DEF Consumers
        <4>2. IsFiniteSet(Consumers(t)) /\ Cardinality(Consumers(t)) + Live(t) <= writes[t]
          BY DEF PaidFor
        <4>3. Cardinality(Consumers(t)) \in Nat /\ writes[t] \in Nat
          BY <4>2, FS_CardinalityType DEF TypeOK
        <4>4. Live(t) \in {0, 1} /\ Live(t)' \in {0, 1} /\ (t # s /\ Live(t)' = 1 => Live(t) = 1)
          BY <3>2 DEF Live, TypeOK
        <4>5. writes'[t] = IF t = s THEN writes[t] + 1 ELSE writes[t]
          BY <3>2 DEF TypeOK
        <4> QED
          BY <4>1, <4>2, <4>3, <4>4, <4>5
      <3> QED
        BY <2>2, <3>1, <3>2
    <2>9. OverlapSound'
      <3>1. \A x \in Emails : otp'[x] = otp[x] \/ otp'[x] = s
        BY <2>2 DEF TypeOK
      <3>2. send'[s].pc = "mail" => otp'[e] = s
        BY <2>1, <2>2 DEF TypeOK, SendMovesTo
      <3> QED
        BY <2>1, <2>2, <2>3, <3>1, <3>2 DEF TypeOK, SendSound, OverlapSound, SendRunning
    <2> QED
      BY <2>4, <2>5, <2>6, <2>7, <2>8, <2>9
  <1>3. ASSUME NEW s \in Sends, SendMail(s) \/ SendCleanup(s)
        PROVE  Inv'
    <2>1. /\ send[s].pc \in {"mail", "cleanup"}
          /\ UNCHANGED <<now, otpExp, users, sessions, verify, barred, writes, overlap>>
          /\ \A e \in Emails : otp'[e] \in {otp[e], None}
          /\ otp' \in [Emails -> Sends \cup {None}]
      BY <1>3 DEF SendMail, SendCleanup, Delete, TypeOK, redis, history
    <2>2. PICK pc \in {"sent", "cleanup", "unsent", "error"} : SendMovesTo(s, pc)
      <3>1. UNCHANGED send /\ send[s].pc = "cleanup" => SendMovesTo(s, "cleanup")
        BY DEF TypeOK, SendMovesTo, SendRecord
      <3>2. \A pc \in {"sent", "cleanup", "unsent", "error"} : GotoSend(s, pc) => SendMovesTo(s, pc)
        BY SendMoves DEF SendPC, SendRunning
      <3> QED
        BY <1>3, <3>1, <3>2 DEF SendMail, SendCleanup
    <2>3. TypeOK'
      BY <2>1, <2>2 DEF TypeOK, SendMovesTo, SendRecord
    <2>4. SendSound'
      <3>1. \A t \in Sends : send'[t].pc # "idle" <=> send[t].pc # "idle"
        BY <2>1, <2>2 DEF SendMovesTo
      <3>2. \A x \in Emails : otp'[x] # None => otp'[x] = otp[x] /\ otp[x] \in Sends
        BY <2>1 DEF TypeOK
      <3> QED
        BY <2>2, <3>1, <3>2 DEF SendSound, SendMovesTo
    <2>5. VerifySound'
      BY <2>1, <2>2 DEF TypeOK, VerifySound, SendMovesTo
    <2>6. BarredSound'
      BY <2>1 DEF BarredSound
    <2>7. PaidFor'
      BY <2>1, StillPaidFor
    <2>8. OverlapSound'
      BY <2>1, <2>2 DEF TypeOK, SendSound, OverlapSound, SendMovesTo, SendRunning
    <2> QED
      BY <2>3, <2>4, <2>5, <2>6, <2>7, <2>8
  <1>4. ASSUME NEW v \in Verifies, NEW e \in Emails, NEW c \in Codes, VerifyCode(v, e, c)
        PROVE  Inv'
    <2>1. /\ verify[v].pc = "idle" /\ \A u \in Verifies \ {v} : verify'[u] = verify[u]
          /\ verify'[v].pc = "consume" /\ verify'[v].email = e /\ verify'[v].cred = None
          /\ barred' = IF users[e] = "disabled" THEN barred \cup {v} ELSE barred
          /\ UNCHANGED <<now, otp, otpExp, users, sessions, send, writes, overlap>>
      BY <1>4 DEF VerifyCode, TypeOK, redis
    <2>2. TypeOK'
      BY <1>4 DEF VerifyCode, TypeOK, redis, VerifyPC, VerifyRunning
    <2>3. SendSound'
      BY <2>1 DEF SendSound
    <2>4. VerifySound'
      BY <2>1 DEF TypeOK, VerifySound
    <2>5. BarredSound'
      BY <2>1 DEF TypeOK, VerifySound, BarredSound
    <2>6. PaidFor'
      <3>1. \A u \in Verifies : verify'[u].cred = verify[u].cred
        BY <2>1 DEF VerifySound
      <3> QED
        BY <2>1, <3>1, StillPaidFor
    <2>7. OverlapSound'
      BY <2>1 DEF OverlapSound
    <2> QED
      BY <2>2, <2>3, <2>4, <2>5, <2>6, <2>7
  <1>5. ASSUME NEW v \in Verifies, VerifyConsume(v)
        PROVE  Inv'
    <2>1. PICK e \in Emails : verify[v].email = e
      BY <1>5 DEF VerifyConsume, VerifySound
    <2>2. /\ verify[v].pc = "consume" /\ verify[v].cred = None
          /\ UNCHANGED <<now, otpExp, users, sessions, send, barred, writes, overlap>>
      BY <1>5 DEF VerifyConsume, VerifySound, history
    <2>3. CASE /\ \E pc \in {"unauthorized", "consume", "internal"} : VerifyMovesTo(v, pc)
               /\ otp' \in {otp, [otp EXCEPT ![e] = None]}
      <3>1. PICK pc \in {"unauthorized", "consume", "internal"} : VerifyMovesTo(v, pc)
        BY <2>3
      <3>2. /\ otp' \in [Emails -> Sends \cup {None}]
            /\ \A x \in Emails : otp'[x] \in {otp[x], None}
        BY <2>3 DEF TypeOK
      <3>3. TypeOK'
        BY <2>2, <3>1, <3>2 DEF TypeOK, VerifyMovesTo, VerifyRecord
      <3>4. SendSound'
        BY <2>2, <3>2 DEF SendSound
      <3>5. VerifySound'
        BY <2>2, <3>1 DEF TypeOK, VerifySound, VerifyMovesTo
      <3>6. BarredSound'
        BY <2>2, <3>1 DEF TypeOK, BarredSound, VerifyMovesTo
      <3>7. PaidFor'
        BY <2>2, <3>1, <3>2, StillPaidFor DEF VerifyMovesTo
      <3>8. OverlapSound'
        BY <2>2, <3>2 DEF TypeOK, SendSound, OverlapSound, SendRunning
      <3> QED
        BY <3>3, <3>4, <3>5, <3>6, <3>7, <3>8
    <2>4. CASE /\ Matches(v) /\ otp' = [otp EXCEPT ![e] = None]
               /\ verify' = [verify EXCEPT ![v].pc = "lookup", ![v].cred = otp[e]]
      <3>1. PICK s \in Sends : otp[e] = s /\ send[s].code = verify[v].code
        BY <2>1, <2>4 DEF Matches, consumeOTPScript, TypeOK
      <3>2. /\ verify' \in [Verifies -> VerifyRecord]
            /\ verify'[v].pc = "lookup" /\ verify'[v].cred = s
            /\ verify'[v].email = e /\ verify'[v].code = verify[v].code
            /\ \A u \in Verifies \ {v} : verify'[u] = verify[u]
        <4> DEFINE q == [verify[v] EXCEPT !.pc = "lookup", !.cred = s]
        <4>1. "lookup" \in VerifyPC
          BY DEF VerifyPC, VerifyRunning
        <4>2. /\ q \in VerifyRecord /\ q.pc = "lookup" /\ q.cred = s
              /\ q.email = verify[v].email /\ q.code = verify[v].code
          <5>1. verify[v] \in VerifyRecord
            BY DEF TypeOK, VerifyRecord
          <5> QED
            BY <4>1, <5>1 DEF VerifyRecord
        <4>3. verify' = [verify EXCEPT ![v] = q] /\ verify \in [Verifies -> VerifyRecord]
          BY <2>4, <3>1 DEF TypeOK, VerifyRecord
        <4> HIDE DEF q
        <4> QED
          BY <2>1, <4>2, <4>3
      <3>3. /\ otp' \in [Emails -> Sends \cup {None}] /\ otp'[e] = None
            /\ \A x \in Emails \ {e} : otp'[x] = otp[x]
        BY <2>4 DEF TypeOK
      <3>4. TypeOK'
        BY <2>2, <3>2, <3>3 DEF TypeOK, VerifyRecord
      <3>5. SendSound'
        BY <2>2, <3>3 DEF SendSound
      <3>6. VerifySound'
        BY <2>1, <2>2, <3>1, <3>2 DEF TypeOK, SendSound, VerifySound
      <3>7. BarredSound'
        BY <2>1, <2>2, <3>2 DEF TypeOK, BarredSound
      <3>8. PaidFor'
        <4> SUFFICES ASSUME NEW t \in Sends
                     PROVE  /\ IsFiniteSet(Consumers(t)')
                            /\ Cardinality(Consumers(t)') + Live(t)' <= writes[t]
          BY <2>2 DEF PaidFor
        <4>1. IsFiniteSet(Consumers(t)) /\ Cardinality(Consumers(t)) + Live(t) <= writes[t]
          BY DEF PaidFor
        <4>2. Cardinality(Consumers(t)) \in Nat /\ writes[t] \in Nat
          BY <4>1, FS_CardinalityType DEF TypeOK
        <4>3. CASE t = s
          <5>1. Consumers(t)' = Consumers(t) \cup {v} /\ v \notin Consumers(t)
            BY <2>2, <3>2, <4>3 DEF Consumers
          <5>2. IsFiniteSet(Consumers(t)') /\ Cardinality(Consumers(t)') = Cardinality(Consumers(t)) + 1
            BY <4>1, <5>1, FS_AddElement
          <5>3. Live(t) = 1 /\ Live(t)' = 0
            BY <2>2, <3>1, <3>3, <4>3 DEF Live, SendSound
          <5> QED
            BY <4>1, <4>2, <5>2, <5>3
        <4>4. CASE t # s
          <5>1. Consumers(t)' = Consumers(t)
            BY <2>2, <3>2, <4>4 DEF Consumers
          <5>2. Live(t) \in {0, 1} /\ Live(t)' \in {0, 1} /\ (Live(t)' = 1 => Live(t) = 1)
            BY <3>3 DEF Live
          <5> QED
            BY <4>1, <4>2, <5>1, <5>2
        <4> QED
          BY <4>3, <4>4
      <3>9. OverlapSound'
        BY <2>2, <3>3 DEF TypeOK, SendSound, OverlapSound, SendRunning
      <3> QED
        BY <3>4, <3>5, <3>6, <3>7, <3>8, <3>9
    <2> QED
      <3>1. UNCHANGED verify => VerifyMovesTo(v, "consume")
        BY <2>2 DEF TypeOK, VerifyMovesTo, VerifyRecord
      <3>2. \A pc \in {"unauthorized", "internal"} : GotoVerify(v, pc) => VerifyMovesTo(v, pc)
        BY VerifyMoves DEF VerifyPC
      <3> QED
        BY <1>5, <2>1, <2>3, <2>4, <3>1, <3>2 DEF VerifyConsume, Outcomes, Executed, Delete
  <1>6. ASSUME NEW v \in Verifies, VerifyGetByEmail(v)
        PROVE  Inv'
    <2>1. /\ verify[v].pc = "lookup"
          /\ UNCHANGED <<now, otp, otpExp, users, sessions, send, barred, writes, overlap>>
      BY <1>6 DEF VerifyGetByEmail, redis, history
    <2>2. PICK pc \in {"internal", "create", "session", "forbidden"} :
            /\ VerifyMovesTo(v, pc)
            /\ pc = "create" => users[verify[v].email] = None
            /\ pc = "session" => users[verify[v].email] = "active"
      <3>1. \A pc \in {"internal", "create", "session", "forbidden"} :
              GotoVerify(v, pc) => VerifyMovesTo(v, pc)
        BY VerifyMoves DEF VerifyPC, VerifyRunning
      <3> QED
        BY <1>6, <3>1 DEF VerifyGetByEmail, CanAuthenticate
    <2>3. TypeOK'
      BY <2>1, <2>2 DEF TypeOK, VerifyMovesTo, VerifyRecord
    <2>4. SendSound'
      BY <2>1 DEF SendSound
    <2>5. VerifySound'
      BY <2>1, <2>2 DEF TypeOK, VerifySound, VerifyMovesTo
    <2>6. BarredSound'
      BY <2>1, <2>2 DEF TypeOK, BarredSound, VerifyMovesTo
    <2>7. PaidFor'
      BY <2>1, <2>2, StillPaidFor DEF VerifyMovesTo
    <2>8. OverlapSound'
      BY <2>1 DEF OverlapSound
    <2> QED
      BY <2>3, <2>4, <2>5, <2>6, <2>7, <2>8
  <1>7. ASSUME NEW v \in Verifies, VerifyCreateByEmail(v)
        PROVE  Inv'
    <2>1. PICK e \in Emails : verify[v].email = e
      BY <1>7 DEF VerifyCreateByEmail, VerifySound
    <2>2. /\ verify[v].pc = "create"
          /\ UNCHANGED <<now, otp, otpExp, sessions, send, barred, writes, overlap>>
          /\ users' \in [Emails -> {None, "active", "disabled"}]
          /\ \A x \in Emails : users[x] # None => users'[x] = users[x]
      BY <1>7, <2>1 DEF VerifyCreateByEmail, TypeOK, redis, history
    <2>3. PICK pc \in {"conflict", "session", "timeout", "internal"} :
            VerifyMovesTo(v, pc) /\ (pc = "session" => users'[e] = "active")
      <3>1. \A pc \in {"conflict", "session", "timeout", "internal"} :
              GotoVerify(v, pc) => VerifyMovesTo(v, pc)
        BY VerifyMoves DEF VerifyPC, VerifyRunning
      <3> QED
        BY <1>7, <2>1, <3>1 DEF VerifyCreateByEmail, TypeOK
    <2>4. TypeOK'
      BY <2>2, <2>3 DEF TypeOK, VerifyMovesTo, VerifyRecord
    <2>5. SendSound'
      BY <2>2 DEF SendSound
    <2>6. VerifySound'
      BY <2>1, <2>2, <2>3 DEF TypeOK, VerifySound, VerifyMovesTo
    <2>7. BarredSound'
      BY <2>2, <2>3 DEF TypeOK, VerifySound, BarredSound, VerifyMovesTo
    <2>8. PaidFor'
      BY <2>2, <2>3, StillPaidFor DEF VerifyMovesTo
    <2>9. OverlapSound'
      BY <2>2 DEF OverlapSound
    <2> QED
      BY <2>4, <2>5, <2>6, <2>7, <2>8, <2>9
  <1>8. ASSUME NEW v \in Verifies, VerifyCreateSession(v)
        PROVE  Inv'
    <2>1. /\ verify[v].pc = "session" /\ sessions' \in {sessions, sessions \cup {v}}
          /\ UNCHANGED <<now, otp, otpExp, users, send, barred, writes, overlap>>
      BY <1>8 DEF VerifyCreateSession, redis, history
    <2>2. PICK pc \in {"ok", "session", "internal"} : VerifyMovesTo(v, pc)
      <3>1. UNCHANGED verify => VerifyMovesTo(v, "session")
        BY <2>1 DEF TypeOK, VerifyMovesTo, VerifyRecord
      <3>2. \A pc \in {"ok", "internal"} : GotoVerify(v, pc) => VerifyMovesTo(v, pc)
        BY VerifyMoves DEF VerifyPC
      <3> QED
        BY <1>8, <3>1, <3>2 DEF VerifyCreateSession
    <2>3. TypeOK'
      BY <2>1, <2>2 DEF TypeOK, VerifyMovesTo, VerifyRecord
    <2>4. SendSound'
      BY <2>1 DEF SendSound
    <2>5. VerifySound'
      BY <2>1, <2>2 DEF TypeOK, VerifySound, VerifyMovesTo
    <2>6. BarredSound'
      BY <2>1, <2>2 DEF TypeOK, BarredSound, VerifyMovesTo
    <2>7. PaidFor'
      BY <2>1, <2>2, StillPaidFor DEF VerifyMovesTo
    <2>8. OverlapSound'
      BY <2>1 DEF OverlapSound
    <2> QED
      BY <2>3, <2>4, <2>5, <2>6, <2>7, <2>8
  <1>9. ASSUME NEW e \in Emails, OtherAccountChange(e)
        PROVE  Inv'
    <2>1. /\ users[e] # "disabled"
          /\ users' = [users EXCEPT ![e] = IF users[e] = None THEN "active" ELSE "disabled"]
          /\ barred' = IF users'[e] = "disabled"
                       THEN barred \cup {v \in Verifies : verify[v].email = e
                                                         /\ verify[v].pc \in {"consume", "lookup"}}
                       ELSE barred
          /\ UNCHANGED <<now, otp, otpExp, sessions, send, verify, writes, overlap>>
      BY <1>9 DEF OtherAccountChange, TypeOK, redis
    <2>2. TypeOK'
      BY <2>1 DEF TypeOK
    <2>3. SendSound'
      BY <2>1 DEF SendSound
    <2>4. VerifySound'
      BY <2>1 DEF TypeOK, VerifySound
    <2>5. BarredSound'
      BY <2>1 DEF TypeOK, VerifySound, BarredSound
    <2>6. PaidFor'
      BY <2>1, StillPaidFor
    <2>7. OverlapSound'
      BY <2>1 DEF OverlapSound
    <2> QED
      BY <2>2, <2>3, <2>4, <2>5, <2>6, <2>7
  <1>10. CASE Tick
    <2>1. /\ now' = now + 1 /\ now < MaxClock
          /\ otp' \in [Emails -> Sends \cup {None}]
          /\ \A e \in Emails : otp'[e] \in {otp[e], None}
          /\ UNCHANGED <<otpExp, users, sessions, send, verify, barred, writes, overlap>>
      BY <1>10 DEF Tick, TypeOK, history
    <2>2. TypeOK'
      BY <2>1 DEF TypeOK
    <2>3. SendSound'
      BY <2>1 DEF SendSound
    <2>4. VerifySound'
      BY <2>1 DEF VerifySound
    <2>5. BarredSound'
      BY <2>1 DEF BarredSound
    <2>6. PaidFor'
      BY <2>1, StillPaidFor
    <2>7. OverlapSound'
      BY <2>1 DEF TypeOK, SendSound, OverlapSound, SendRunning
    <2> QED
      BY <2>2, <2>3, <2>4, <2>5, <2>6, <2>7
  <1>11. CASE UNCHANGED vars
    <2>1. TypeOK' /\ SendSound' /\ VerifySound'
      BY <1>11 DEF vars, TypeOK, SendSound, VerifySound
    <2>2. BarredSound' /\ OverlapSound'
      BY <1>11 DEF vars, BarredSound, OverlapSound
    <2>3. PaidFor'
      BY <1>11, StillPaidFor DEF vars
    <2> QED
      BY <2>1, <2>2, <2>3
  <1> QED
    BY <1>1, <1>2, <1>3, <1>4, <1>5, <1>6, <1>7, <1>8, <1>9, <1>10, <1>11
    DEF Next, SendStep, VerifyStep

\* The inductive invariant holds in every behaviour.
THEOREM Invariance == Spec => []Inv
  BY InitInv, NextInv, PTL DEF Spec

\* The send and verify requests keep their types.
THEOREM OTPTypes == Spec => []TypeOK
  <1>1. Inv => TypeOK
    BY DEF Inv
  <1> QED
    BY <1>1, Invariance, PTL

\* consumeOTPScript lets one request in for every time the code was stored, however many
\* verifies race, fail after the match or are repeated.
THEOREM OneLoginPerStoredCode == Spec => []CodeConsumedOnce
  <1>1. Inv => CodeConsumedOnce
    <2> SUFFICES ASSUME Inv, NEW s \in Sends
                 PROVE  Cardinality(Consumers(s)) <= writes[s]
      BY DEF CodeConsumedOnce
    <2>1. IsFiniteSet(Consumers(s)) /\ Cardinality(Consumers(s)) + Live(s) <= writes[s]
      BY DEF Inv, PaidFor
    <2>2. Cardinality(Consumers(s)) \in Nat /\ writes[s] \in Nat /\ Live(s) \in {0, 1}
      BY <2>1, FS_CardinalityType DEF Inv, TypeOK, Live
    <2> QED
      BY <2>1, <2>2
  <1> QED
    BY <1>1, Invariance, PTL

\* A session is for the address the code was drawn for and an account that exists.
THEOREM SessionsAreEarned == Spec => []SessionHasAccountAndCode
  <1>1. Inv => SessionHasAccountAndCode
    BY DEF Inv, TypeOK, VerifySound, SessionHasAccountAndCode
  <1> QED
    BY <1>1, Invariance, PTL

\* An account that is disabled before the lookup gets no session, whoever disables it
\* and whatever runs in between.
THEOREM DisabledStaysOut == Spec => []DisabledAccountGetsNoSession
  <1>1. Inv => DisabledAccountGetsNoSession
    BY DEF Inv, BarredSound, DisabledAccountGetsNoSession
  <1> QED
    BY <1>1, Invariance, PTL

\* A code that was sent is gone before its TTL only because it was used or because a send
\* in flight with its own failed and cleaned up by address.
LossExplained(e) ==
    \/ \E v \in Verifies : verify[v].pc = "consume" /\ verify[v].email = e /\ Matches(v)
    \/ \E t \in overlap[otp[e]] : send[t].pc = "cleanup" /\ send[t].email = e

\* No step takes a sent code away for another reason.
LEMMA LossStep ==
    Inv /\ [Next]_vars => \A e \in Emails : SentCodeLost(e) => LossExplained(e)
  <1> SUFFICES ASSUME Inv, [Next]_vars, NEW e \in Emails, SentCodeLost(e)
               PROVE  LossExplained(e)
    OBVIOUS
  <1>1. otp[e] \in Sends /\ otp'[e] = None /\ send[otp[e]].pc = "sent" /\ send[otp[e]].email = e
    BY DEF SentCodeLost, Inv, TypeOK, SendSound
  <1>2. ASSUME NEW s \in Sends, SendStore(s)
        PROVE  FALSE
    BY <1>1, <1>2, OTPConstants DEF SendStore, redis, Inv, TypeOK
  <1>3. ASSUME NEW s \in Sends, SendCleanup(s)
        PROVE  LossExplained(e)
    <2>1. send[s].pc = "cleanup" /\ send[s].email = e
      BY <1>1, <1>3, OTPConstants DEF SendCleanup, Delete, Inv, TypeOK
    <2>2. s \in overlap[otp[e]]
      BY <1>1, <2>1 DEF Inv, OverlapSound
    <2> QED
      BY <2>1, <2>2 DEF LossExplained
  <1>4. ASSUME NEW v \in Verifies, VerifyConsume(v)
        PROVE  LossExplained(e)
    <2>1. verify[v].pc = "consume" /\ verify[v].email = e /\ Matches(v)
      BY <1>1, <1>4, OTPConstants DEF VerifyConsume, Delete, Inv, TypeOK
    <2> QED
      BY <2>1 DEF LossExplained
  <1>5. CASE Tick
    BY <1>1, <1>5, OTPConstants DEF Tick, SentCodeLost
  <1>6. CASE otp' = otp
    BY <1>1, <1>6, OTPConstants
  <1>7. \/ otp' = otp
        \/ \E s \in Sends : SendStore(s) \/ SendCleanup(s)
        \/ \E v \in Verifies : VerifyConsume(v)
        \/ Tick
    BY DEF Next, SendStep, VerifyStep, vars, redis, SendCode, SendMail, VerifyCode,
       VerifyGetByEmail, VerifyCreateByEmail, VerifyCreateSession, OtherAccountChange
  <1> QED
    BY <1>2, <1>3, <1>4, <1>5, <1>6, <1>7

\* No wrong guess, and no send that ran before or after, removes a code that was sent.
THEOREM SentCodesAreSafe == Spec => SentCodeLossExplained
  <1>1. Inv /\ [Next]_vars => [\A e \in Emails : SentCodeLost(e) =>
            \/ \E v \in Verifies : verify[v].pc = "consume" /\ verify[v].email = e /\ Matches(v)
            \/ \E t \in overlap[otp[e]] : send[t].pc = "cleanup" /\ send[t].email = e]_vars
    BY LossStep DEF LossExplained
  <1> QED
    BY <1>1, Invariance, PTL DEF Spec, SentCodeLossExplained

----------------------------------------------------------------------------
(* Codes are one-time credentials.                                         *)

\* A step after which every request holds the code it held leaves the uses alone.
LEMMA UsesUnchanged ==
    (\A v \in Verifies : verify'[v].cred = verify[v].cred) => UNCHANGED Uses
  <1>1. (\A v \in Verifies : verify'[v].cred = verify[v].cred) =>
            \A s \in Sends : Consumers(s)' = Consumers(s)
    BY DEF Consumers
  <1> QED
    BY <1>1 DEF Uses

\* At the start nobody has been told of a code.
LEMMA CredentialInit == Init => Credential!Init
  <1> SUFFICES ASSUME Init
               PROVE  Credential!Init
    OBVIOUS
  <1>1. OpenSends = Sends /\ LiveCodes = {}
    BY DEF Init, OpenSends, LiveCodes
  <1>2. \A s \in Sends : Consumers(s) = {}
    BY OTPConstants DEF Init, Consumers
  <1>3. Uses = [s \in Sends |-> 0]
    BY <1>2, FS_EmptySet DEF Uses
  <1> QED
    BY <1>1, <1>3 DEF Credential!Init

\* Every step is a step of OneTimeCredential or leaves it alone.
LEMMA CredentialStep == Inv /\ [Next]_vars => [Credential!Next]_(Credential!vars)
  <1> SUFFICES ASSUME Inv, [Next]_vars
               PROVE  [Credential!Next]_(Credential!vars)
    OBVIOUS
  <1>1. ASSUME NEW s \in Sends, NEW e \in Emails, NEW c \in Codes, SendCode(s, e, c)
        PROVE  Credential!Close(s) \/ UNCHANGED Credential!vars
    <2>1. UNCHANGED <<LiveCodes, Uses>>
      BY <1>1, UsesUnchanged DEF SendCode, redis, LiveCodes
    <2>2. OpenSends' \in {OpenSends, OpenSends \ {s}}
      BY <1>1 DEF SendCode, Inv, TypeOK, OpenSends
    <2> QED
      BY <2>1, <2>2 DEF Credential!Close, Credential!vars
  <1>2. ASSUME NEW s \in Sends, SendStore(s)
        PROVE  Credential!Issue(s) \/ Credential!Close(s)
    <2>1. PICK e \in Emails : send[s].email = e
      BY <1>2 DEF SendStore, Inv, SendSound
    <2>2. UNCHANGED Uses /\ s \in OpenSends
      BY <1>2, UsesUnchanged DEF SendStore, OpenSends
    <2>3. \/ /\ otp' = [otp EXCEPT ![e] = s]
             /\ UNCHANGED send \/ \E pc \in {"mail", "error"} : GotoSend(s, pc)
          \/ otp' = otp /\ GotoSend(s, "error")
      BY <1>2, <2>1 DEF SendStore, Outcomes, Executed, redis
    <2>4. OpenSends' \in {OpenSends, OpenSends \ {s}}
      BY <2>3 DEF GotoSend, Inv, TypeOK, OpenSends
    <2>5. CASE otp' = [otp EXCEPT ![e] = s]
      <3> DEFINE rest == {otp[x] : x \in Emails \ {e}} \ {None}
      <3>1. rest \in SUBSET LiveCodes /\ LiveCodes' = rest \cup {s}
        BY <2>5, OTPConstants DEF LiveCodes, Inv, TypeOK
      <3> QED
        BY <2>2, <2>4, <3>1 DEF Credential!Issue
    <2>6. CASE otp' = otp /\ GotoSend(s, "error")
      <3>1. OpenSends' = OpenSends \ {s} /\ UNCHANGED LiveCodes
        BY <2>6 DEF GotoSend, Inv, TypeOK, OpenSends, LiveCodes
      <3> QED
        BY <2>2, <3>1 DEF Credential!Close
    <2> QED
      BY <2>3, <2>5, <2>6
  <1>3. ASSUME NEW s \in Sends, SendMail(s) \/ SendCleanup(s)
        PROVE  Credential!Lose
    <2>1. UNCHANGED Uses
      BY <1>3, UsesUnchanged DEF SendMail, SendCleanup
    <2>2. send[s].pc \notin {"idle", "store"}
      BY <1>3 DEF SendMail, SendCleanup
    <2>3. UNCHANGED send \/ \E pc \in {"sent", "cleanup", "unsent", "error"} : GotoSend(s, pc)
      BY <1>3 DEF SendMail, SendCleanup
    <2>4. UNCHANGED OpenSends
      BY <2>2, <2>3 DEF GotoSend, Inv, TypeOK, OpenSends
    <2>5. \A e \in Emails : otp'[e] \in {otp[e], None}
      BY <1>3 DEF SendMail, SendCleanup, Delete, redis, Inv, TypeOK
    <2>6. LiveCodes' \in SUBSET LiveCodes
      BY <2>5 DEF LiveCodes
    <2> QED
      BY <2>1, <2>4, <2>6 DEF Credential!Lose
  <1>4. ASSUME NEW v \in Verifies, NEW e \in Emails, NEW c \in Codes, VerifyCode(v, e, c)
        PROVE  UNCHANGED Credential!vars
    <2>1. /\ UNCHANGED <<otp, send>>
          /\ \A u \in Verifies : verify'[u].cred = verify[u].cred
      BY <1>4 DEF VerifyCode, redis, Inv, TypeOK, VerifySound
    <2> QED
      BY <2>1, UsesUnchanged DEF Credential!vars, OpenSends, LiveCodes
  <1>5. ASSUME NEW v \in Verifies, VerifyConsume(v)
        PROVE  (\E s \in Sends : Credential!Use(s)) \/ Credential!Lose
    <2>1. PICK e \in Emails : verify[v].email = e
      BY <1>5 DEF VerifyConsume, Inv, VerifySound
    <2>2. verify[v].pc = "consume" /\ verify[v].cred = None /\ UNCHANGED send
      BY <1>5 DEF VerifyConsume, Inv, VerifySound
    <2>3. \/ /\ Matches(v) /\ otp' = [otp EXCEPT ![e] = None]
             /\ verify' = [verify EXCEPT ![v].pc = "lookup", ![v].cred = otp[e]]
          \/ /\ otp' \in {otp, [otp EXCEPT ![e] = None]}
             /\ UNCHANGED verify \/ \E pc \in {"unauthorized", "internal"} : GotoVerify(v, pc)
      BY <1>5, <2>1 DEF VerifyConsume, Outcomes, Executed, Delete
    <2>4. CASE /\ Matches(v) /\ otp' = [otp EXCEPT ![e] = None]
               /\ verify' = [verify EXCEPT ![v].pc = "lookup", ![v].cred = otp[e]]
      <3>1. PICK s \in Sends : otp[e] = s
        BY <2>1, <2>4 DEF Matches, consumeOTPScript, Inv, TypeOK
      <3>2. \A x \in Emails : otp[x] = s => x = e
        BY <3>1, OTPConstants DEF Inv, SendSound
      <3>3. s \in LiveCodes /\ LiveCodes' = LiveCodes \ {s}
        BY <2>4, <3>1, <3>2, OTPConstants DEF LiveCodes, Inv, TypeOK
      <3>4. verify'[v].cred = s /\ \A u \in Verifies \ {v} : verify'[u] = verify[u]
        BY <2>4, <3>1 DEF Inv, TypeOK
      <3>5. Consumers(s)' = Consumers(s) \cup {v} /\ v \notin Consumers(s)
        BY <2>2, <3>4, OTPConstants DEF Consumers
      <3>6. \A t \in Sends \ {s} : Consumers(t)' = Consumers(t)
        BY <2>2, <3>4, OTPConstants DEF Consumers
      <3>7. Cardinality(Consumers(s)') = Cardinality(Consumers(s)) + 1
        BY <3>5, FS_AddElement DEF Inv, PaidFor
      <3>8. Uses' = [Uses EXCEPT ![s] = @ + 1]
        BY <3>6, <3>7 DEF Uses
      <3> QED
        BY <2>2, <3>3, <3>8 DEF Credential!Use, OpenSends
    <2>5. CASE /\ otp' \in {otp, [otp EXCEPT ![e] = None]}
               /\ UNCHANGED verify \/ \E pc \in {"unauthorized", "internal"} : GotoVerify(v, pc)
      <3>1. \A u \in Verifies : verify'[u].cred = verify[u].cred
        BY <2>5 DEF GotoVerify, Inv, TypeOK
      <3>2. LiveCodes' \in SUBSET LiveCodes
        BY <2>5 DEF LiveCodes, Inv, TypeOK
      <3> QED
        BY <2>2, <3>1, <3>2, UsesUnchanged DEF Credential!Lose, OpenSends
    <2> QED
      BY <2>3, <2>4, <2>5
  <1>6. ASSUME NEW v \in Verifies,
               VerifyGetByEmail(v) \/ VerifyCreateByEmail(v) \/ VerifyCreateSession(v)
        PROVE  UNCHANGED Credential!vars
    <2>1. UNCHANGED <<otp, send>>
      BY <1>6 DEF VerifyGetByEmail, VerifyCreateByEmail, VerifyCreateSession, redis
    <2>2. UNCHANGED verify \/ \E pc \in VerifyPC : GotoVerify(v, pc)
      BY <1>6 DEF VerifyGetByEmail, VerifyCreateByEmail, VerifyCreateSession, VerifyPC, VerifyRunning
    <2>3. \A u \in Verifies : verify'[u].cred = verify[u].cred
      BY <2>2 DEF GotoVerify, Inv, TypeOK
    <2> QED
      BY <2>1, <2>3, UsesUnchanged DEF Credential!vars, OpenSends, LiveCodes
  <1>7. ASSUME NEW e \in Emails, OtherAccountChange(e)
        PROVE  UNCHANGED Credential!vars
    BY <1>7, UsesUnchanged DEF OtherAccountChange, redis, Credential!vars, OpenSends, LiveCodes
  <1>8. CASE Tick
    <2>1. /\ \A e \in Emails : otp'[e] \in {otp[e], None}
          /\ UNCHANGED <<send, verify>>
      BY <1>8 DEF Tick
    <2>2. LiveCodes' \in SUBSET LiveCodes
      BY <2>1 DEF LiveCodes
    <2>3. Credential!Lose
      BY <2>1, <2>2, UsesUnchanged DEF Credential!Lose, OpenSends
    <2> QED
      BY <2>3 DEF Credential!Next
  <1>9. CASE UNCHANGED vars
    BY <1>9, UsesUnchanged DEF vars, Credential!vars, OpenSends, LiveCodes
  <1> QED
    BY <1>1, <1>2, <1>3, <1>4, <1>5, <1>6, <1>7, <1>8, <1>9
    DEF Next, SendStep, VerifyStep, Credential!Next

\* OTP login implements OneTimeCredential: a code is used only while Redis holds it, its
\* use takes it away, and once it has been mailed nothing stores it again.
THEOREM CodesAreOneTimeCredentials == Spec => CodesAreOneTime
  BY Invariance, CredentialInit, CredentialStep, PTL DEF Spec, CodesAreOneTime, Credential!Spec
=============================================================================
