------------------------------ MODULE OTPAuth ------------------------------
(***************************************************************************)
(* Email one-time-password login: POST /auth/otp/send and                  *)
(* POST /auth/otp/verify, from the handler through the usecase to the      *)
(* Redis keys otp:<email> and session:<token> and the users table.         *)
(*                                                                         *)
(* Every request is a process and every call to Redis, Postgres or the     *)
(* email provider is one step of it, so requests interleave between calls  *)
(* as they do in the server.  A call may fail: with no effect (including   *)
(* the request context being done), or with its effect applied and the     *)
(* answer lost.  go-redis repeats a command whose answer was lost.         *)
(***************************************************************************)
EXTENDS Naturals, FiniteSets

CONSTANTS
    Emails,      \* normalised addresses
    Codes,       \* codes generateNumericCode can draw; two sends may draw one code
    Sends,       \* send requests
    Verifies,    \* verify requests
    None,        \* a missing key, row or credential
    TTL,         \* OTPConfig.TTL, in ticks
    MaxWrites,   \* how often a repeated SET may be executed
    MaxClock     \* bound on the clock

ASSUME OTPConstants ==
    /\ None \notin Sends \cup {"active", "disabled"}
    /\ TTL \in Nat \ {0}      \* NewOTPAuthenticator replaces a TTL <= 0
    /\ MaxWrites \in Nat \ {0} /\ MaxClock \in Nat

VARIABLES
    now,       \* Redis's clock
    otp,       \* otp[e]: the key otp:<e>, as the send whose hashed code it holds
    otpExp,    \* otpExp[e]: when that key expires
    users,     \* users[e]: None or the row's status
    sessions,  \* verify requests whose session was stored
    send,      \* send[s]: progress of a send request
    verify,    \* verify[v]: progress of a verify request
    barred,    \* verifies whose account was disabled before they looked it up (history)
    writes,    \* writes[s]: how often Redis executed the SET of s (history)
    overlap    \* overlap[s]: sends to the same address in flight with s (history)

vars == <<now, otp, otpExp, users, sessions, send, verify, barred, writes, overlap>>
redis == <<otp, otpExp>>
history == <<barred, writes, overlap>>

SendRunning == {"store", "mail", "cleanup"}
SendPC == SendRunning \cup {"idle", "sent", "unsent", "error"}
VerifyRunning == {"consume", "lookup", "create", "session"}
VerifyPC == VerifyRunning \cup
    {"idle", "ok", "unauthorized", "forbidden", "conflict", "timeout", "internal"}

TypeOK ==
    /\ now \in 0..MaxClock
    /\ otp \in [Emails -> Sends \cup {None}]
    /\ otpExp \in [Emails -> 0..(MaxClock + TTL)]
    /\ users \in [Emails -> {None, "active", "disabled"}]
    /\ sessions \in SUBSET Verifies
    /\ send \in [Sends -> [pc : SendPC, email : Emails \cup {None}, code : Codes \cup {None}]]
    /\ verify \in [Verifies -> [pc : VerifyPC, email : Emails \cup {None},
                                code : Codes \cup {None}, cred : Sends \cup {None}]]
    /\ barred \in SUBSET Verifies
    /\ writes \in [Sends -> 0..MaxWrites]
    /\ overlap \in [Sends -> SUBSET Sends]

\* Before the requests arrive, any account may already exist, disabled or not.
Init ==
    /\ now = 0
    /\ otp = [e \in Emails |-> None]
    /\ otpExp = [e \in Emails |-> 0]
    /\ users \in [Emails -> {None, "active", "disabled"}]
    /\ sessions = {} /\ barred = {}
    /\ send = [s \in Sends |-> [pc |-> "idle", email |-> None, code |-> None]]
    /\ verify = [v \in Verifies |->
                    [pc |-> "idle", email |-> None, code |-> None, cred |-> None]]
    /\ writes = [s \in Sends |-> 0]
    /\ overlap = [s \in Sends |-> {}]

----------------------------------------------------------------------------
(* External calls.                                                         *)

\* What a call can come to: answered; failed with no effect; executed with the
\* answer lost and given up; executed with the answer lost and repeated, which
\* leaves the request at the same call.
Outcomes == {"ok", "fail", "lost", "again"}
Executed(out) == out # "fail"

GotoSend(s, pc) == send' = [send EXCEPT ![s].pc = pc]
GotoVerify(v, pc) == verify' = [verify EXCEPT ![v].pc = pc]

InFlight(e) == {t \in Sends : send[t].email = e /\ send[t].pc \in SendRunning}

----------------------------------------------------------------------------
(* SendCode.                                                               *)

\* A validated request draws a code; drawing it may fail (crypto/rand).
SendCode(s, e, c) ==
    /\ send[s].pc = "idle"
    /\ \E pc \in {"store", "error"} :
        send' = [send EXCEPT ![s] = [pc |-> pc, email |-> e, code |-> c]]
    /\ overlap' = [t \in Sends |->
                    IF t = s THEN InFlight(e)
                    ELSE IF t \in InFlight(e) THEN overlap[t] \cup {s} ELSE overlap[t]]
    /\ UNCHANGED <<now, redis, users, sessions, verify, barred, writes>>

\* When a key written now with the TTL of the codes is dropped.
Expiry == now + TTL

\* OTPStore.Store: SET with the TTL.  Any error ends the request.
SendStore(s) ==
    LET e == send[s].email IN
    /\ send[s].pc = "store"
    /\ \E out \in Outcomes :
        /\ Executed(out) => writes[s] < MaxWrites
        /\ IF Executed(out)
           THEN /\ otp' = [otp EXCEPT ![e] = s]
                /\ otpExp' = [otpExp EXCEPT ![e] = Expiry]
                /\ writes' = [writes EXCEPT ![s] = @ + 1]
           ELSE UNCHANGED <<redis, writes>>
        /\ CASE out = "ok" -> GotoSend(s, "mail")
             [] out = "again" -> UNCHANGED send
             [] OTHER -> GotoSend(s, "error")
    /\ UNCHANGED <<now, users, sessions, verify, barred, overlap>>

\* EmailSender.SendOTP: the email is accepted for delivery, or sending it fails.
SendMail(s) ==
    /\ send[s].pc = "mail"
    /\ \E pc \in {"sent", "cleanup"} : GotoSend(s, pc)
    /\ UNCHANGED <<now, redis, users, sessions, verify, history>>

\* DEL by address.
Delete(e) == [otp EXCEPT ![e] = None]

\* The cleanup after a failed email: DEL by address, whoever stored the code that is
\* there now.  Its failure is only logged.  "unsent" and "error" are one answer to the
\* client (INTERNAL); "unsent" records that Redis confirmed the DEL.
SendCleanup(s) ==
    LET e == send[s].email IN
    /\ send[s].pc = "cleanup"
    /\ \E out \in Outcomes :
        /\ otp' = IF Executed(out) THEN Delete(e) ELSE otp
        /\ CASE out = "ok" -> GotoSend(s, "unsent")
             [] out = "again" -> UNCHANGED send
             [] OTHER -> GotoSend(s, "error")
    /\ UNCHANGED <<now, otpExp, users, sessions, verify, history>>

----------------------------------------------------------------------------
(* VerifyCode, then the handler's session creation.                        *)

VerifyCode(v, e, c) ==
    /\ verify[v].pc = "idle"
    /\ verify' = [verify EXCEPT ![v] =
                    [pc |-> "consume", email |-> e, code |-> c, cred |-> None]]
    /\ barred' = IF users[e] = "disabled" THEN barred \cup {v} ELSE barred
    /\ UNCHANGED <<now, redis, users, sessions, send, writes, overlap>>

\* consumeOTPScript: no key (0), or the stored hash is not the candidate's (1) or is (2).
consumeOTPScript(v) ==
    LET s == otp[verify[v].email]
    IN  IF s = None THEN 0 ELSE IF send[s].code # verify[v].code THEN 1 ELSE 2
\* OTPStore.Consume; the usecase answers a missing code as a wrong one.
Matches(v) == consumeOTPScript(v) = 2

\* A script that drops the key whatever the candidate is.
VerifyConsumeAlwaysDeletes(v) ==
    LET e == verify[v].email IN
    /\ verify[v].pc = "consume"
    /\ otp' = [otp EXCEPT ![e] = None]
    /\ IF Matches(v)
       THEN verify' = [verify EXCEPT ![v].pc = "lookup", ![v].cred = otp[e]]
       ELSE GotoVerify(v, "unauthorized")
    /\ UNCHANGED <<now, otpExp, users, sessions, send, history>>

\* GET and DEL as two commands: the match is decided on a value read earlier.
VerifyConsumeNoDelete(v) ==
    /\ verify[v].pc = "consume"
    /\ IF Matches(v)
       THEN verify' = [verify EXCEPT ![v].pc = "lookup",
                                     ![v].cred = otp[verify[v].email]]
       ELSE GotoVerify(v, "unauthorized")
    /\ UNCHANGED <<now, redis, users, sessions, send, history>>

\* The script is atomic in Redis, and only a match deletes the key.  The lost answer of a
\* match burns the code: repeated, the script finds no key.
VerifyConsume(v) ==
    LET e == verify[v].email IN
    /\ verify[v].pc = "consume"
    /\ \E out \in Outcomes :
        /\ otp' = IF Executed(out) /\ Matches(v) THEN Delete(e) ELSE otp
        /\ CASE out = "ok" /\ Matches(v) ->
                  verify' = [verify EXCEPT ![v].pc = "lookup", ![v].cred = otp[e]]
             [] out = "ok" /\ ~Matches(v) -> GotoVerify(v, "unauthorized")
             [] out = "again" -> UNCHANGED verify
             [] OTHER -> GotoVerify(v, "internal")
    /\ UNCHANGED <<now, otpExp, users, sessions, send, history>>

\* A status check that lets every account in.
CanAuthenticateAnyone(status) == status # None
\* User.CanAuthenticate.
CanAuthenticate(status) == status = "active"

\* A lookup that takes a missing account for a usable one.
VerifyGetByEmailNoCreate(v) ==
    LET status == users[verify[v].email] IN
    /\ verify[v].pc = "lookup"
    /\ GotoVerify(v, IF status = "disabled" THEN "forbidden" ELSE "session")
    /\ UNCHANGED <<now, redis, users, sessions, send, history>>

\* A code given back when the account could not be looked up.
VerifyGetByEmailGivesBack(v) ==
    LET e == verify[v].email IN
    /\ verify[v].pc = "lookup"
    /\ otp[e] = None /\ otp' = [otp EXCEPT ![e] = verify[v].cred]
    /\ GotoVerify(v, "internal")
    /\ UNCHANGED <<now, otpExp, users, sessions, send, history>>

\* UserStore.GetByEmail and the status check.
VerifyGetByEmail(v) ==
    LET status == users[verify[v].email] IN
    /\ verify[v].pc = "lookup"
    /\ \/ GotoVerify(v, "internal")
       \/ GotoVerify(v, CASE status = None -> "create"
                          [] CanAuthenticate(status) -> "session"
                          [] OTHER -> "forbidden")
    /\ UNCHANGED <<now, redis, users, sessions, send, history>>

\* UserStore.CreateByEmail: an INSERT under UNIQUE (email), the row active by default.
\* The insert may take effect although its answer is an error.
VerifyCreateByEmail(v) ==
    LET e == verify[v].email IN
    /\ verify[v].pc = "create"
    /\ \/ /\ users[e] # None
          /\ GotoVerify(v, "conflict")
          /\ UNCHANGED users
       \/ /\ users[e] = None
          /\ users' = [users EXCEPT ![e] = "active"]
          /\ \E pc \in {"session", "timeout", "internal"} : GotoVerify(v, pc)
       \/ /\ \E pc \in {"timeout", "internal"} : GotoVerify(v, pc)
          /\ UNCHANGED users
    /\ UNCHANGED <<now, redis, sessions, send, history>>

\* SessionManager.Create under a fresh random token, then the session cookie.
VerifyCreateSession(v) ==
    /\ verify[v].pc = "session"
    /\ \E out \in Outcomes :
        /\ sessions' = IF Executed(out) THEN sessions \cup {v} ELSE sessions
        /\ CASE out = "ok" -> GotoVerify(v, "ok")
             [] out = "again" -> UNCHANGED verify
             [] OTHER -> GotoVerify(v, "internal")
    /\ UNCHANGED <<now, redis, users, send, history>>

----------------------------------------------------------------------------
(* The environment.                                                        *)

\* Time passes; Redis drops the keys whose TTL is over.
Tick ==
    /\ now < MaxClock
    /\ now' = now + 1
    /\ otp' = [e \in Emails |-> IF otpExp[e] <= now' THEN None ELSE otp[e]]
    /\ UNCHANGED <<otpExp, users, sessions, send, verify, history>>

\* An OAuth login creates the account (UpsertOAuthUser), or an operator disables it
\* in the database: no code of the server does.
OtherAccountChange(e) ==
    /\ users[e] # "disabled"
    /\ users' = [users EXCEPT ![e] = IF @ = None THEN "active" ELSE "disabled"]
    /\ barred' = IF users'[e] = "disabled"
                 THEN barred \cup {v \in Verifies : verify[v].email = e
                                                   /\ verify[v].pc \in {"consume", "lookup"}}
                 ELSE barred
    /\ UNCHANGED <<now, redis, sessions, send, verify, writes, overlap>>

SendStep(s) == SendStore(s) \/ SendMail(s) \/ SendCleanup(s)
VerifyStep(v) ==
    \/ VerifyConsume(v) \/ VerifyGetByEmail(v)
    \/ VerifyCreateByEmail(v) \/ VerifyCreateSession(v)

Next ==
    \/ \E s \in Sends, e \in Emails, c \in Codes : SendCode(s, e, c)
    \/ \E s \in Sends : SendStep(s)
    \/ \E v \in Verifies, e \in Emails, c \in Codes : VerifyCode(v, e, c)
    \/ \E v \in Verifies : VerifyStep(v)
    \/ \E e \in Emails : OtherAccountChange(e)
    \/ Tick

Spec == Init /\ [][Next]_vars

----------------------------------------------------------------------------
(* Properties.                                                             *)

\* A code logs in at most one request each time Redis stored it: however verifies race,
\* are repeated or fail after the match, none reuses what another one consumed
\* (consumeOTPScript).  Only the repeated SET of a lost answer can bring a code back.
Consumers(s) == {v \in Verifies : verify[v].cred = s}
CodeConsumedOnce == \A s \in Sends : Cardinality(Consumers(s)) <= writes[s]

\* Codes are one-time credentials: a verification succeeds by taking a stored code away,
\* and once SendCode has gone on to mail the code no verification, failure or repeated
\* command stores it again.
OpenSends == {s \in Sends : send[s].pc \in {"idle", "store"}}
LiveCodes == {otp[e] : e \in Emails} \ {None}
Uses == [s \in Sends |-> Cardinality(Consumers(s))]
Credential == INSTANCE OneTimeCredential WITH
    Credentials <- Sends, open <- OpenSends, live <- LiveCodes, uses <- Uses
CodesAreOneTime == Credential!Spec

\* A code that was sent successfully disappears before its TTL only if a request with
\* that code consumed it, or a failed send that was in flight at the same time cleaned
\* up by address.  A wrong guess, or a send that ran before or after, never removes it.
SentCodeLost(e) ==
    LET s == otp[e] IN
    /\ s # None /\ otp'[e] = None
    /\ send[s].pc = "sent"
    /\ ~(now' >= otpExp[e])
SentCodeLossExplained ==
    [][\A e \in Emails : SentCodeLost(e) =>
        \/ \E v \in Verifies : verify[v].pc = "consume" /\ verify[v].email = e /\ Matches(v)
        \/ \E t \in overlap[otp[e]] : send[t].pc = "cleanup" /\ send[t].email = e
      ]_vars

\* The session of a verify request is for the address the consumed code was drawn for,
\* and belongs to an account that exists.
SessionHasAccountAndCode ==
    \A v \in sessions :
        /\ users[verify[v].email] # None
        /\ verify[v].cred # None
        /\ send[verify[v].cred].email = verify[v].email
        /\ send[verify[v].cred].code = verify[v].code

\* An account that is disabled at any time before the request looks it up gets no
\* session out of the code.
DisabledAccountGetsNoSession == barred \cap sessions = {}
=============================================================================
