----------------------------- MODULE Lifecycle -----------------------------
(***************************************************************************)
(* One process from bootstrap to exit: main's run, New of the composition  *)
(* root, RunLifecycle with its shutdown goroutine, and App.Shutdown over   *)
(* the server, the health reporter (gRPC only) and the shared Runtime.     *)
(*                                                                         *)
(* main, the shutdown goroutine, the reporter goroutine and the request    *)
(* handlers interleave; a signal may arrive at any time, bootstrap,        *)
(* serving and every cleanup step may fail, and the grace period may end   *)
(* at any time after the shutdown began.  Handlers and readiness checks    *)
(* use the pool and the Redis client that Runtime.Shutdown closes.         *)
(***************************************************************************)
EXTENDS Integers, Sequences

CONSTANT Handlers   \* requests being served, or not yet admitted

VARIABLES
    kind,      \* "http" or "grpc": which of the two executables
    root,      \* rootCtx is done
    main,      \* where main's goroutine is
    shut,      \* where the shutdown goroutine is
    open,      \* resources that are open
    server,    \* the protocol server
    handler,   \* handler[h]: progress of a request
    failed,    \* what failed: "boot", "start" or "shutdown"
    hit,       \* who called a resource after it was closed (history)
    exit       \* the process's exit code, -1 before it exits

VARIABLES status, serverStopped, started, cancelled, run, stop, expired

reporterVars == <<status, serverStopped, started, cancelled, run, stop, expired>>
procVars == <<kind, root, main, shut, open, server, handler, failed, hit, exit>>
vars == <<procVars, reporterVars>>

(* The reporter of the gRPC process.  A dependency answers as long as its  *)
(* client is open; outages are the subject of HealthReporter's own run.    *)
Reporter == INSTANCE HealthReporter WITH
    Stoppers <- {"app"},
    up <- [d \in {"postgres", "redis"} |-> (IF d = "postgres" THEN "db" ELSE d) \in open]

Providers == {"traces", "logs", "metrics"}   \* of OpenTelemetry, with their exporters
Runtime == Providers \cup {"logger", "db", "redis"}
Boot == <<"config", "traces", "logs", "metrics", "logger", "db", "redis", "listener">>
MainPC == {Boot[i] : i \in DOMAIN Boot} \cup {"start", "serve", "serving", "stop",
                                             "wait", "exit", "killed"}
ShutPC == {"none", "await", "reporter", "server", "drain", "force", "redis", "db", "dbwait",
           "otel", "logger", "done"}

TypeOK ==
    /\ kind \in {"http", "grpc"} /\ root \in BOOLEAN
    /\ main \in MainPC /\ shut \in ShutPC
    /\ open \in SUBSET (Runtime \cup {"listener"})
    /\ server \in {"new", "accepting", "failed", "draining", "stopped"}
    /\ handler \in [Handlers -> {"idle", "conn", "run", "query", "done"}]
    /\ failed \in SUBSET {"boot", "start", "shutdown"}
    /\ hit \in SUBSET (Handlers \cup {"reporter"})
    /\ exit \in -1..1
    /\ Reporter!TypeOK

Init ==
    /\ kind \in {"http", "grpc"}
    /\ root = FALSE /\ main = "config" /\ shut = "none"
    /\ open = {} /\ server = "new"
    /\ handler = [h \in Handlers |-> "idle"]
    /\ failed = {} /\ hit = {} /\ exit = -1
    /\ Reporter!Init

Alive == main \notin {"exit", "killed"}
Keep == UNCHANGED <<kind, hit, reporterVars>>

-----------------------------------------------------------------------------
(* Bootstrap.  After the settings were read, NewTelemetry makes the three  *)
(* observability providers, then the logger; runtime.New the pool and the  *)
(* Redis client, which cannot fail; buildServer listens (gRPC), or only    *)
(* validates (HTTP).                                                       *)
Opened(r) == IF r = "config" \/ (r = "listener" /\ kind = "http") THEN {} ELSE {r}

BootStep(i) ==
    /\ main = Boot[i]
    /\ open' = open \cup Opened(Boot[i])
    /\ main' = IF i < Len(Boot) THEN Boot[i + 1] ELSE "start"
    /\ shut' = IF i < Len(Boot) THEN "none" ELSE "await"
    /\ UNCHANGED <<root, server, handler, failed, exit>> /\ Keep

(* otel.Setup: a provider whose exporter cannot be made takes down the     *)
(* ones that were made before it                                           *)
SetupCleanup(r) ==
    CASE r = "logs" -> {"traces"}
      [] r = "metrics" -> {"logs", "traces"}
      [] OTHER -> {}

\* A bootstrap that forgets the runtime when the server cannot be built.
BootCleanupForgetsRuntime(r) ==
    CASE r \in Providers -> SetupCleanup(r)
      [] r = "logger" -> Providers
      [] r = "db" -> Providers \cup {"logger"}
      [] OTHER -> {}

(* What is shut down when a step fails: observability after the logger     *)
(* failed, telemetry after the pool failed (NewPool closes a pool it       *)
(* cannot ping), the whole Runtime after the server failed                 *)
BootCleanup(r) ==
    CASE r \in Providers -> SetupCleanup(r)
      [] r = "logger" -> Providers
      [] r = "db" -> Providers \cup {"logger"}
      [] r = "listener" -> Runtime
      [] OTHER -> {}

BootFails(i) ==
    /\ main = Boot[i] /\ Boot[i] # "redis"
    /\ open' = open \ BootCleanup(Boot[i])
    /\ main' = "exit" /\ exit' = 1 /\ failed' = {"boot"}
    /\ UNCHANGED <<root, shut, server, handler>> /\ Keep

-----------------------------------------------------------------------------
(* App.Start.  gRPC starts the reporter first.                             *)
StartReporter ==
    /\ main = "start"
    /\ main' = "serve"
    /\ UNCHANGED <<kind, root, shut, open, server, handler, failed, hit, exit>>
    /\ IF kind = "grpc" THEN Reporter!Start ELSE UNCHANGED reporterVars

\* A server that serves even if it was shut down before.
ServeAfterShutdown ==
    /\ main = "serve"
    /\ main' = "serving" /\ server' = "accepting"
    /\ open' = open \cup {"listener"}
    /\ UNCHANGED <<root, shut, handler, failed, exit>> /\ Keep

(* Serve and ListenAndServe return at once, closing the listener, when the *)
(* server was shut down before; listening may fail (HTTP)                  *)
Serve ==
    /\ main = "serve"
    /\ \/ /\ server # "new"
          /\ main' = "stop" /\ open' = open \ {"listener"}
          /\ UNCHANGED <<server, failed>>
       \/ /\ server = "new"
          /\ main' = "serving" /\ server' = "accepting"
          /\ open' = open \cup {"listener"}
          /\ UNCHANGED failed
       \/ /\ server = "new" /\ kind = "http"
          /\ main' = "stop" /\ server' = "failed"
          /\ failed' = failed \cup {"start"}
          /\ UNCHANGED open
    /\ UNCHANGED <<root, shut, handler, exit>> /\ Keep

(* Accepting connections fails for good; the listener is closed            *)
ServeFails ==
    /\ main = "serving" /\ server = "accepting"
    /\ main' = "stop" /\ server' = "failed"
    /\ open' = open \ {"listener"}
    /\ failed' = failed \cup {"start"}
    /\ UNCHANGED <<root, shut, handler, exit>> /\ Keep

(* ListenAndServe returns when Shutdown begins; gRPC's Serve when the      *)
(* graceful stop ended or when Stop closed the connections                 *)
ServeReturns ==
    /\ main = "serving"
    /\ \/ server = "stopped"
       \/ server = "draining" /\ (kind = "http" \/ shut = "force")
    /\ main' = "stop"
    /\ UNCHANGED <<root, shut, open, server, handler, failed, exit>> /\ Keep

\* A RunLifecycle that does not cancel the root context itself.
StopWithoutCancel ==
    /\ main = "stop"
    /\ main' = "wait"
    /\ UNCHANGED <<root, shut, open, server, handler, failed, exit>> /\ Keep

(* stop() cancels rootCtx and gives the signals back to their default      *)
Stop ==
    /\ main = "stop"
    /\ main' = "wait" /\ root' = TRUE
    /\ UNCHANGED <<shut, open, server, handler, failed, exit>> /\ Keep

(* <-shutdownDone, then the exit code                                      *)
Exit ==
    /\ main = "wait" /\ shut = "done"
    /\ main' = "exit"
    /\ exit' = IF failed = {} THEN 0 ELSE 1
    /\ UNCHANGED <<root, shut, open, server, handler, failed>> /\ Keep

(* A signal cancels rootCtx; after stop() it kills the process             *)
Signal ==
    /\ IF main = "wait"
       THEN main' = "killed" /\ UNCHANGED root
       ELSE ~root /\ root' = TRUE /\ UNCHANGED main
    /\ UNCHANGED <<shut, open, server, handler, failed, exit>> /\ Keep

-----------------------------------------------------------------------------
(* The shutdown goroutine: <-rootCtx.Done(), then App.Shutdown             *)
AwaitRoot ==
    /\ shut = "await" /\ root
    /\ shut' = IF kind = "grpc" THEN "reporter" ELSE "server"
    /\ UNCHANGED <<root, main, open, server, handler, failed, exit>> /\ Keep

(* Reporter.Shutdown, then on with its error                               *)
ShutReporter ==
    /\ shut = "reporter"
    /\ UNCHANGED procVars
    /\ Reporter!Shutdown("app")

ReporterShut ==
    /\ shut = "reporter" /\ stop["app"].pc \in {"stopped", "timeout"}
    /\ shut' = "server"
    /\ failed' = IF stop["app"].pc = "timeout" THEN failed \cup {"shutdown"} ELSE failed
    /\ UNCHANGED <<root, main, open, server, handler, exit>> /\ Keep

(* Server.Shutdown: no new connections, then wait for the handlers         *)
BeginDrain ==
    /\ shut = "server"
    /\ shut' = "drain" /\ server' = "draining"
    /\ open' = IF server = "accepting" THEN open \ {"listener"} ELSE open
    /\ UNCHANGED <<root, main, handler, failed, exit>> /\ Keep

Idle == \A h \in Handlers : handler[h] \notin {"conn", "run", "query"}

Drained ==
    /\ shut \in {"drain", "force"} /\ Idle
    /\ shut' = "redis" /\ server' = "stopped"
    /\ UNCHANGED <<root, main, open, handler, failed, exit>> /\ Keep

\* A grace period that ends without an error.
DrainExpiresSilently ==
    /\ shut = "drain" /\ expired # {}
    /\ IF kind = "grpc" THEN shut' = "force" /\ UNCHANGED server
                        ELSE shut' = "redis" /\ server' = "stopped"
    /\ UNCHANGED <<root, main, open, handler, failed, exit>> /\ Keep

\* A gRPC shutdown that does not wait for GracefulStop after Stop.
DrainExpiresAbandons ==
    /\ shut = "drain" /\ expired # {}
    /\ shut' = "redis" /\ server' = "stopped"
    /\ failed' = failed \cup {"shutdown"}
    /\ UNCHANGED <<root, main, open, handler, exit>> /\ Keep

(* The grace period ends: gRPC calls Stop, which cancels the handlers, and *)
(* still waits for GracefulStop; HTTP leaves its handlers running          *)
DrainExpires ==
    /\ shut = "drain" /\ expired # {}
    /\ IF kind = "grpc" THEN shut' = "force" /\ UNCHANGED server
                        ELSE shut' = "redis" /\ server' = "stopped"
    /\ failed' = failed \cup {"shutdown"}
    /\ UNCHANGED <<root, main, open, handler, exit>> /\ Keep

\* A Runtime.Shutdown whose last step has no successor.
NextToCloseNothing(r) ==
    CASE r = "redis" -> "db" [] r = "db" -> "dbwait" [] r = "otel" -> "logger" [] OTHER -> "closed"

(* Runtime.Shutdown: Redis, the pool, observability, the logger            *)
NextToClose(r) ==
    CASE r = "redis" -> "db" [] r = "db" -> "dbwait" [] r = "otel" -> "logger" [] OTHER -> "done"

(* otelRuntime.Shutdown shuts its providers down one after the other       *)
Closed(r) == IF r = "otel" THEN Providers ELSE {r}

(* Each is closed whatever the others answered.  pool.Close refuses new    *)
(* connections at once and has no error to report.                         *)
Close(r) ==
    /\ shut = r
    /\ open' = open \ Closed(r)
    /\ shut' = NextToClose(r)
    /\ \/ UNCHANGED failed
       \/ r # "db" /\ failed' = failed \cup {"shutdown"}
    /\ UNCHANGED <<kind, root, main, server, handler, hit, exit, reporterVars>>

(* ... and waits for the connections in use                                *)
PoolClosed ==
    /\ shut = "dbwait"
    /\ \A h \in Handlers : handler[h] # "query"
    /\ ~(run.pc = "blocked" /\ Reporter!Checks[run.at] = "postgres")
    /\ shut' = "otel"
    /\ UNCHANGED <<root, main, open, server, handler, failed, exit>> /\ Keep

(* The grace period runs out                                               *)
GraceEnds ==
    /\ shut \notin {"none", "await"}
    /\ UNCHANGED procVars
    /\ Reporter!Expire("app")

-----------------------------------------------------------------------------
(* The reporter's goroutine; a check of a closed client fails              *)
ReporterSteps ==
    /\ UNCHANGED <<kind, root, main, shut, open, server, handler, failed, exit>>
    /\ hit' = IF run.pc = "check" /\ ~Reporter!Answers(run.at)
              THEN hit \cup {"reporter"} ELSE hit
    /\ Reporter!RunSteps

(* Requests: a connection is accepted, a handler runs on it, calls Redis   *)
(* and queries the database, and returns or loses its client               *)
Move(h, from, to) ==
    /\ handler[h] = from
    /\ handler' = [handler EXCEPT ![h] = to]
    /\ UNCHANGED <<kind, root, main, shut, open, server, failed, exit, reporterVars>>

Accept(h) == server = "accepting" /\ Move(h, "idle", "conn") /\ UNCHANGED hit
Begin(h) == Move(h, "conn", "run") /\ UNCHANGED hit

CallRedis(h) ==
    /\ Move(h, "run", "run")
    /\ hit' = IF "redis" \in open THEN hit ELSE hit \cup {h}

Query(h) ==
    \/ "db" \in open /\ Move(h, "run", "query") /\ UNCHANGED hit
    \/ "db" \notin open /\ Move(h, "run", "run") /\ hit' = hit \cup {h}

QueryEnds(h) == Move(h, "query", "run") /\ UNCHANGED hit

End(h) == (Move(h, "run", "done") \/ Move(h, "conn", "done")) /\ UNCHANGED hit

-----------------------------------------------------------------------------
MainSteps ==
    \/ \E i \in DOMAIN Boot : BootStep(i) \/ BootFails(i)
    \/ StartReporter \/ Serve \/ ServeReturns \/ Stop \/ Exit

ShutdownSteps ==
    \/ AwaitRoot \/ ShutReporter \/ ReporterShut
    \/ BeginDrain \/ Drained \/ DrainExpires
    \/ \E r \in {"redis", "db", "otel", "logger"} : Close(r)
    \/ PoolClosed

HandlerSteps ==
    \E h \in Handlers :
        Accept(h) \/ Begin(h) \/ CallRedis(h) \/ Query(h) \/ QueryEnds(h) \/ End(h)

Next ==
    /\ Alive
    /\ MainSteps \/ ServeFails \/ Signal \/ ShutdownSteps \/ GraceEnds
       \/ ReporterSteps \/ HandlerSteps

(* Goroutines are scheduled, the grace period ends, a storage call returns *)
(* (it carries a deadline or a cancelled context), and a gRPC handler      *)
(* returns once Stop cancelled it.  Nothing else makes a handler return in *)
(* time: a health stream may outlast the grace period.                     *)
Fairness ==
    /\ WF_vars(Alive /\ MainSteps)
    /\ WF_vars(Alive /\ ShutdownSteps)
    /\ WF_vars(Alive /\ GraceEnds)
    /\ WF_vars(Alive /\ ReporterSteps)
    /\ \A h \in Handlers :
        /\ WF_vars(Alive /\ QueryEnds(h))
        /\ SF_vars(Alive /\ shut = "force" /\ End(h))

Spec == Init /\ [][Next]_vars /\ Fairness

-----------------------------------------------------------------------------
(* Whatever ended the process short of a second signal (a failed           *)
(* bootstrap, a failed server, a signal, an expired grace period), nothing *)
(* it opened is still open when it exits.                                  *)
ExitReleasesEverything == main = "exit" => open = {}

(* Exit code 0 means a shutdown in which nobody was cut off: every request *)
(* was answered, the reporter is at rest and nobody met a closed resource. *)
CleanExit ==
    exit = 0 => Idle /\ hit = {} /\ run.pc \notin Reporter!Running

(* A request or a readiness check meets a closed pool or Redis client only *)
(* in a shutdown that is reported as failed, and a gRPC request never      *)
(* does: Server.Shutdown waits for GracefulStop also after Stop.           *)
ClosedResourceUseReported ==
    /\ hit # {} => "shutdown" \in failed
    /\ kind = "grpc" => hit \subseteq {"reporter"}

(* No connection is accepted without the pool and the Redis client, also   *)
(* when the shutdown is over before Start is called.                       *)
AcceptNeedsResources ==
    [][\A h \in Handlers : handler[h] = "idle" /\ handler'[h] # "idle"
        => {"db", "redis"} \subseteq open]_vars

(* A signal, at whatever time, and a failed Start end the process.         *)
Terminates == root \/ failed # {} ~> ~Alive
=============================================================================
