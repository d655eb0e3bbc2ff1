--------------------------- MODULE HealthReporter ---------------------------
(***************************************************************************)
(* The reporter that turns readiness checks into standard gRPC health      *)
(* states: Start, the goroutine run with its ticker, Refresh, and any      *)
(* number of concurrent Shutdown calls.                                    *)
(*                                                                         *)
(* A readiness check asks its dependencies one after the other and stops   *)
(* at the first failure; the result is then published service by service.  *)
(* Everything else may happen between two of those steps, and a check may  *)
(* block for as long as a dependency does.                                 *)
(***************************************************************************)
EXTENDS Naturals, Sequences

CONSTANT Stoppers   \* callers of Shutdown, each with its own context

VARIABLES
    up,            \* up[d]: dependency d answers
    status,        \* the health server's state for each service
    serverStopped, \* the health server was shut down
    started,       \* runStarted is closed
    cancelled,     \* runContext is cancelled
    run,           \* the goroutine run: where it is, and its index in Checks or Services
    stop,          \* stop[s]: progress of a Shutdown call
    expired        \* callers whose context is done

vars == <<up, status, serverStopped, started, cancelled, run, stop, expired>>
env == <<up, expired>>

Dependencies == {"postgres", "redis"}

(* usecase health.Check in ready mode: ping, server status, cache, kv      *)
Checks == <<"postgres", "postgres", "redis", "redis">>

(* The overall service, then the diagnostics service                       *)
Services == <<"overall", "diagnostics">>
ServiceNames == {Services[i] : i \in DOMAIN Services}

States == {"SERVING", "NOT_SERVING"}
Running == {"check", "blocked", "publish", "select"}

TypeOK ==
    /\ up \in [Dependencies -> BOOLEAN]
    /\ status \in [ServiceNames -> States]
    /\ serverStopped \in BOOLEAN /\ started \in BOOLEAN /\ cancelled \in BOOLEAN
    /\ run \in [pc : {"none", "spawned", "done"} \cup Running,
                at : 1..4, result : States]
    /\ stop \in [Stoppers -> [pc : {"idle", "cancel", "look", "peek", "wait", "stopped", "timeout"},
                              late : BOOLEAN]]
    /\ expired \in SUBSET Stoppers

(* NewReporter registers both services as not serving                      *)
Init ==
    /\ up \in [Dependencies -> BOOLEAN]
    /\ status = [v \in ServiceNames |-> "NOT_SERVING"]
    /\ serverStopped = FALSE /\ started = FALSE /\ cancelled = FALSE
    /\ run = [pc |-> "none", at |-> 1, result |-> "NOT_SERVING"]
    /\ stop = [s \in Stoppers |-> [pc |-> "idle", late |-> FALSE]]
    /\ expired = {}

-----------------------------------------------------------------------------
(* Start, once: close runStarted and spawn run                             *)
Start ==
    /\ ~started
    /\ started' = TRUE
    /\ run' = [run EXCEPT !.pc = "spawned"]
    /\ UNCHANGED <<env, status, serverStopped, cancelled, stop>>

BeginCheck == run' = [pc |-> "check", at |-> 1, result |-> run.result]

\* A run that does not look at its context first.
RunBeginsUnchecked ==
    /\ run.pc = "spawned"
    /\ BeginCheck
    /\ UNCHANGED <<env, status, serverStopped, started, cancelled, stop>>

(* run looks at its context before the first refresh                       *)
RunBegins ==
    /\ run.pc = "spawned"
    /\ IF cancelled THEN run' = [run EXCEPT !.pc = "done"] ELSE BeginCheck
    /\ UNCHANGED <<env, status, serverStopped, started, cancelled, stop>>

Publish(result) == run' = [pc |-> "publish", at |-> 1, result |-> result]

\* A check that ignores what its dependencies answer.
CheckStepIgnoresError ==
    /\ run.pc = "check"
    /\ IF run.at < Len(Checks)
       THEN run' = [run EXCEPT !.at = run.at + 1]
       ELSE Publish("SERVING")
    /\ UNCHANGED <<env, status, serverStopped, started, cancelled, stop>>

Answers(i) == up[Checks[i]]

\* A refresh that sets a status only when the check succeeded, so that a failed one
\* publishes the zero value, UNKNOWN.
CheckStepUnknownOnError ==
    /\ run.pc = "check"
    /\ \/ /\ Answers(run.at) /\ run.at < Len(Checks)
          /\ run' = [run EXCEPT !.at = run.at + 1]
       \/ /\ Answers(run.at) /\ run.at = Len(Checks)
          /\ Publish("SERVING")
       \/ /\ ~Answers(run.at) \/ cancelled
          /\ Publish("UNKNOWN")
    /\ UNCHANGED <<env, status, serverStopped, started, cancelled, stop>>

(* One call to a dependency; with runContext cancelled it may also fail    *)
CheckStep ==
    /\ run.pc = "check"
    /\ \/ /\ up[Checks[run.at]] /\ run.at < Len(Checks)
          /\ run' = [run EXCEPT !.at = run.at + 1]
       \/ /\ Answers(run.at) /\ run.at = Len(Checks)
          /\ Publish("SERVING")
       \/ /\ ~Answers(run.at) \/ cancelled
          /\ Publish("NOT_SERVING")
    /\ UNCHANGED <<env, status, serverStopped, started, cancelled, stop>>

(* A dependency call blocks, and may come back: Check has no deadline of   *)
(* its own, only the cancellation of runContext                            *)
CheckBlocks ==
    /\ run.pc = "check" /\ ~cancelled
    /\ run' = [run EXCEPT !.pc = "blocked"]
    /\ UNCHANGED <<env, status, serverStopped, started, cancelled, stop>>

CheckResumes ==
    /\ run.pc = "blocked"
    /\ run' = [run EXCEPT !.pc = "check"]
    /\ UNCHANGED <<env, status, serverStopped, started, cancelled, stop>>

(* The standard health server drops updates after its own Shutdown         *)
SetServingStatus(v, new) ==
    status' = IF serverStopped THEN status ELSE [status EXCEPT ![v] = new]

\* A refresh that forgets the second service.
PublishStepOverallOnly ==
    /\ run.pc = "publish"
    /\ SetServingStatus(Services[1], run.result)
    /\ run' = [pc |-> "select", at |-> 1, result |-> run.result]
    /\ UNCHANGED <<env, serverStopped, started, cancelled, stop>>

(* Refresh publishes the result to the services in order                   *)
PublishStep ==
    /\ run.pc = "publish"
    /\ SetServingStatus(Services[run.at], run.result)
    /\ run' = IF run.at < Len(Services)
              THEN [run EXCEPT !.at = run.at + 1]
              ELSE [pc |-> "select", at |-> 1, result |-> run.result]
    /\ UNCHANGED <<env, serverStopped, started, cancelled, stop>>

(* select: the ticker fired, or the context is done; with both ready Go    *)
(* picks either                                                            *)
Tick ==
    /\ run.pc = "select"
    /\ BeginCheck
    /\ UNCHANGED <<env, status, serverStopped, started, cancelled, stop>>

RunEnds ==
    /\ run.pc = "select" /\ cancelled
    /\ run' = [run EXCEPT !.pc = "done"]
    /\ UNCHANGED <<env, status, serverStopped, started, cancelled, stop>>

-----------------------------------------------------------------------------
\* A Shutdown that sets NOT_SERVING and leaves the health server open.
StopServerBySetting(s) ==
    /\ stop[s].pc = "idle"
    /\ status' = [v \in ServiceNames |-> "NOT_SERVING"]
    /\ stop' = [stop EXCEPT ![s] = [pc |-> "cancel", late |-> run.pc = "done"]]
    /\ UNCHANGED <<env, serverStopped, started, cancelled, run>>

(* Shutdown: stopServer.Do(server.Shutdown) marks every service            *)
(* NOT_SERVING and makes the health server ignore later updates            *)
StopServer(s) ==
    /\ stop[s].pc = "idle"
    /\ serverStopped' = TRUE
    /\ status' = [v \in ServiceNames |-> "NOT_SERVING"]
    /\ stop' = [stop EXCEPT ![s] = [pc |-> "cancel", late |-> run.pc = "done"]]
    /\ UNCHANGED <<env, started, cancelled, run>>

(* ... then cancelRun                                                      *)
CancelRun(s) ==
    /\ stop[s].pc = "cancel"
    /\ cancelled' = TRUE
    /\ stop' = [stop EXCEPT ![s].pc = "look"]
    /\ UNCHANGED <<env, status, serverStopped, started, run>>

(* ... then return at once if the reporter was never started               *)
LookStarted(s) ==
    /\ stop[s].pc = "look"
    /\ stop' = [stop EXCEPT ![s].pc = IF started THEN "peek" ELSE "stopped"]
    /\ UNCHANGED <<env, status, serverStopped, started, cancelled, run>>

\* A Shutdown without the first, non-blocking select.
PeekDoneSkipped(s) ==
    /\ stop[s].pc = "peek"
    /\ stop' = [stop EXCEPT ![s].pc = "wait"]
    /\ UNCHANGED <<env, status, serverStopped, started, cancelled, run>>

(* ... a run that already ended wins over a context that is already done   *)
PeekDone(s) ==
    /\ stop[s].pc = "peek"
    /\ stop' = [stop EXCEPT ![s].pc = IF run.pc = "done" THEN "stopped" ELSE "wait"]
    /\ UNCHANGED <<env, status, serverStopped, started, cancelled, run>>

\* A Shutdown that waits for the run only.
AwaitDoneWithoutContext(s) ==
    /\ stop[s].pc = "wait"
    /\ run.pc = "done"
    /\ stop' = [stop EXCEPT ![s].pc = "stopped"]
    /\ UNCHANGED <<env, status, serverStopped, started, cancelled, run>>

(* ... and otherwise wait for whichever comes first                        *)
AwaitDone(s) ==
    /\ stop[s].pc = "wait"
    /\ \/ run.pc = "done" /\ stop' = [stop EXCEPT ![s].pc = "stopped"]
       \/ s \in expired /\ stop' = [stop EXCEPT ![s].pc = "timeout"]
    /\ UNCHANGED <<env, status, serverStopped, started, cancelled, run>>

Shutdown(s) ==
    StopServer(s) \/ CancelRun(s) \/ LookStarted(s) \/ PeekDone(s) \/ AwaitDone(s)

-----------------------------------------------------------------------------
(* The environment: dependencies go down and come back, contexts end       *)
Flip(d) ==
    /\ up' = [up EXCEPT ![d] = ~up[d]]
    /\ UNCHANGED <<status, serverStopped, started, cancelled, run, stop, expired>>

Expire(s) ==
    /\ s \notin expired
    /\ expired' = expired \cup {s}
    /\ UNCHANGED <<up, status, serverStopped, started, cancelled, run, stop>>

RunSteps ==
    RunBegins \/ CheckStep \/ CheckBlocks \/ CheckResumes \/ PublishStep \/ Tick \/ RunEnds

Next ==
    \/ Start
    \/ RunSteps
    \/ \E s \in Stoppers : Shutdown(s) \/ Expire(s)
    \/ \E d \in Dependencies : Flip(d)

(* The goroutine is scheduled, the ticker fires, and a select with both    *)
(* cases ready does not pick the ticker for ever.  Nothing makes a blocked *)
(* check return, and nobody has to call Start or Shutdown.  A caller's     *)
(* context has a deadline.                                                 *)
Fairness ==
    /\ WF_vars(RunBegins) /\ WF_vars(CheckStep) /\ WF_vars(PublishStep)
    /\ WF_vars(Tick) /\ SF_vars(RunEnds)
    /\ \A s \in Stoppers :
        /\ WF_vars(CancelRun(s)) /\ WF_vars(LookStarted(s))
        /\ WF_vars(PeekDone(s)) /\ WF_vars(AwaitDone(s))
        /\ WF_vars(Expire(s))

Spec == Init /\ [][Next]_vars /\ Fairness

-----------------------------------------------------------------------------
(* Once a Shutdown returned nil, no check is running and none will run:    *)
(* the caller goes on to close the pool and the Redis client.  It covers a *)
(* Start that races with Shutdown or comes after it.                       *)
NoCheckAfterShutdown ==
    \A s \in Stoppers : stop[s].pc = "stopped" => run.pc \notin Running

(* From the first step of a Shutdown on no service is ever SERVING again,  *)
(* also when a refresh that began before publishes afterwards.             *)
NotServingAfterShutdown ==
    \A s \in Stoppers : stop[s].pc # "idle" =>
        \A v \in ServiceNames : status[v] = "NOT_SERVING"

(* A Shutdown called after the run ended never reports a timeout, however  *)
(* late its context is: what the first, non-blocking select is for.        *)
EndedRunNeverTimesOut ==
    \A s \in Stoppers : stop[s].pc = "timeout" => ~stop[s].late

(* Shutdown returns, also while a check is blocked for ever (the test      *)
(* TestReporterShutdownHonorsContextWhileRefreshIsBlocked).                *)
ShutdownReturns ==
    \A s \in Stoppers :
        stop[s].pc # "idle" ~> stop[s].pc \in {"stopped", "timeout"}

(* Both services follow readiness while the reporter runs and its checks   *)
(* come back: a dependency that stays down is reported, and so is the      *)
(* recovery of all of them.                                                *)
StatusFollowsReadiness ==
    /\ \A d \in Dependencies :
        <>[](~up[d] /\ started /\ run.pc # "blocked")
            => <>[](\A v \in ServiceNames : status[v] = "NOT_SERVING")
    /\ <>[](/\ \A d \in Dependencies : up[d]
            /\ started /\ ~serverStopped /\ run.pc # "blocked")
            => <>[](\A v \in ServiceNames : status[v] = "SERVING")
=============================================================================
