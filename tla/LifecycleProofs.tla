-------------------------- MODULE LifecycleProofs --------------------------
(***************************************************************************)
(* Lifecycle for every set of requests: whatever the order of signals,     *)
(* failures, handlers and shutdown steps, the process exits with           *)
(* everything released, exit code 0 means that nobody was cut off, and     *)
(* nobody is accepted without the pool and the Redis client.               *)
(***************************************************************************)
EXTENDS Lifecycle, TLAPS

\* The reporter's own invariants, for its one caller.
RP == INSTANCE HealthReporterProofs WITH
    Stoppers <- {"app"},
    up <- [d \in {"postgres", "redis"} |-> (IF d = "postgres" THEN "db" ELSE d) \in open]

Booting == {Boot[i] : i \in DOMAIN Boot}

\* While it boots the process holds what it has opened so far and serves nobody; a failed
\* step leaves nothing behind.
BootSound ==
    /\ \A i \in DOMAIN Boot :
        main = Boot[i] => shut = "none" /\ open = {Boot[j] : j \in 2..(i - 1)}
    /\ shut = "none" =>
        /\ main \in Booting \cup {"exit"} /\ (main = "exit" => open = {})
        /\ server = "new" /\ hit = {} /\ ~started
        /\ \A h \in Handlers : handler[h] = "idle"

\* Of the Runtime, what the shutdown has not closed yet is open.
StillOpen(s) ==
    CASE s = "db" -> Runtime \ {"redis"}
      [] s \in {"dbwait", "otel"} -> Providers \cup {"logger"}
      [] s = "logger" -> {"logger"}
      [] s = "done" -> {}
      [] OTHER -> Runtime

RuntimeSound == shut # "none" => open \ {"listener"} = StillOpen(shut)

\* A listener is open before Serve, on gRPC, and while the server accepts.
ListenerSound ==
    "listener" \in open =>
        \/ kind = "grpc" /\ main \in {"start", "serve"}
        \/ main = "serving" /\ server = "accepting"

\* The shutdown goroutine ends what main's goroutine began, once.
ServerSound ==
    /\ server = "accepting" => main = "serving"
    /\ shut \in {"none", "await", "reporter", "server"} => server \in {"new", "accepting", "failed"}
    /\ shut \in {"drain", "force"} => server = "draining"
    /\ shut \in {"redis", "db", "dbwait", "otel", "logger", "done"} => server = "stopped"
    /\ main = "exit" => shut \in {"none", "done"}

\* Requests outlive Server.Shutdown only on HTTP, and then it failed.
DrainSound ==
    shut \in {"redis", "db", "dbwait", "otel", "logger", "done"} =>
        Idle \/ (kind = "http" /\ "shutdown" \in failed)

\* HTTP has no reporter.  On gRPC its Shutdown comes first; what it could not wait for is
\* reported.
ReporterSound ==
    /\ started => kind = "grpc" /\ shut # "none"
    /\ kind = "http" => shut # "reporter"
    /\ kind = "grpc" /\ shut \notin {"none", "await", "reporter"} =>
        \/ stop["app"].pc = "stopped"
        \/ stop["app"].pc = "timeout" /\ "shutdown" \in failed

ExitSound ==
    /\ exit # -1 => main = "exit"
    /\ exit = 0 => failed = {} /\ shut = "done"

\* The types of what is not the reporter's.
ProcessTypes ==
    /\ kind \in {"http", "grpc"} /\ root \in BOOLEAN
    /\ main \in MainPC /\ shut \in ShutPC
    /\ open \in SUBSET (Runtime \cup {"listener"})
    /\ server \in {"new", "accepting", "failed", "draining", "stopped"}
    /\ handler \in [Handlers -> {"idle", "conn", "run", "query", "done"}]
    /\ failed \in SUBSET {"boot", "start", "shutdown"}
    /\ hit \in SUBSET (Handlers \cup {"reporter"})
    /\ exit \in -1..1

\* What the steps have to keep of the invariant beside the types and the reporter.
Sound ==
    /\ BootSound /\ RuntimeSound /\ ListenerSound /\ ServerSound /\ DrainSound
    /\ ReporterSound /\ ExitSound /\ ClosedResourceUseReported

\* The inductive invariant.
Inv == TypeOK /\ RP!Inv /\ Sound

----------------------------------------------------------------------------
(* The reporter inside the process.                                        *)

\* Its types, under either name.
LEMMA SameTypes == (RP!TypeOK = Reporter!TypeOK) /\ (RP!TypeOK = Reporter!TypeOK)'
  BY DEF RP!TypeOK, Reporter!TypeOK, RP!ServiceNames, Reporter!ServiceNames, RP!Services,
         Reporter!Services, RP!States, Reporter!States, RP!Running, Reporter!Running,
         RP!Dependencies, Reporter!Dependencies

\* A step of the process that leaves the reporter alone keeps its invariant, also if it
\* opens or closes what the checks use.
LEMMA ReporterRests ==
  ASSUME RP!Inv, UNCHANGED reporterVars
  PROVE  RP!Inv'
  <1>1. UNCHANGED <<status, serverStopped, started, cancelled, run, stop, expired>>
    BY DEF reporterVars
  <1>2. RP!TypeOK'
    BY <1>1 DEF RP!Inv, RP!TypeOK, RP!Dependencies
  <1> QED
    BY <1>1, <1>2 DEF RP!Inv, RP!ServerStopped, RP!RunCancelled, RP!LateSound

\* Steps of the reporter are steps of HealthReporter.
LEMMA ReporterMoves ==
  ASSUME RP!Inv, UNCHANGED open,
         \/ Reporter!Start \/ Reporter!Shutdown("app") \/ Reporter!RunSteps
         \/ Reporter!Expire("app")
  PROVE  RP!Inv'
  <1> USE DEF Reporter!env, RP!env
  <1>1. ASSUME RP!Next
        PROVE  RP!Inv'
    BY <1>1, RP!NextInv
  <1>2. Reporter!Start => RP!Start
    BY DEF Reporter!Start, RP!Start
  <1>3. Reporter!RunSteps => RP!RunSteps
    BY DEF Reporter!RunSteps, RP!RunSteps, Reporter!RunBegins, RP!RunBegins,
           Reporter!CheckStep, RP!CheckStep, Reporter!CheckBlocks, RP!CheckBlocks,
           Reporter!CheckResumes, RP!CheckResumes, Reporter!PublishStep, RP!PublishStep,
           Reporter!Tick, RP!Tick, Reporter!RunEnds, RP!RunEnds,
           Reporter!BeginCheck, RP!BeginCheck, Reporter!Publish, RP!Publish,
           Reporter!Answers, RP!Answers, Reporter!Checks, RP!Checks,
           Reporter!Services, RP!Services,
           Reporter!SetServingStatus, RP!SetServingStatus
  <1>4. Reporter!Shutdown("app") => RP!Shutdown("app")
    BY DEF Reporter!Shutdown, RP!Shutdown, Reporter!StopServer, RP!StopServer,
           Reporter!CancelRun, RP!CancelRun, Reporter!LookStarted, RP!LookStarted,
           Reporter!PeekDone, RP!PeekDone, Reporter!AwaitDone, RP!AwaitDone,
           Reporter!ServiceNames, RP!ServiceNames, Reporter!Services, RP!Services
  <1>5. Reporter!Expire("app") => RP!Expire("app")
    BY DEF Reporter!Expire, RP!Expire
  <1> QED
    BY <1>1, <1>2, <1>3, <1>4, <1>5 DEF RP!Next

\* The process's types and the reporter's make TypeOK.
LEMMA Types == (TypeOK <=> ProcessTypes /\ Reporter!TypeOK) /\ (TypeOK <=> ProcessTypes /\ Reporter!TypeOK)'
  BY DEF TypeOK, ProcessTypes

\* What is left to show of a step that leaves the reporter alone.
LEMMA ProcessStep ==
  ASSUME Inv, UNCHANGED reporterVars, ProcessTypes', Sound'
  PROVE  Inv'
  <1>1. RP!Inv'
    BY ReporterRests DEF Inv
  <1>2. Reporter!TypeOK'
    BY <1>1, SameTypes DEF RP!Inv
  <1> QED
    BY <1>1, <1>2, Types DEF Inv

----------------------------------------------------------------------------
(* Bootstrap.                                                              *)

\* The eight steps of the bootstrap, in order.
LEMMA BootIs ==
    /\ DOMAIN Boot = 1..8 /\ Len(Boot) = 8
    /\ Boot[1] = "config" /\ Boot[2] = "traces" /\ Boot[3] = "logs" /\ Boot[4] = "metrics"
    /\ Boot[5] = "logger" /\ Boot[6] = "db" /\ Boot[7] = "redis" /\ Boot[8] = "listener"
    /\ Booting = {"config", "traces", "logs", "metrics", "logger", "db", "redis", "listener"}
  <1>1. /\ DOMAIN Boot = 1..8 /\ Len(Boot) = 8
        /\ Boot[1] = "config" /\ Boot[2] = "traces" /\ Boot[3] = "logs" /\ Boot[4] = "metrics"
        /\ Boot[5] = "logger" /\ Boot[6] = "db" /\ Boot[7] = "redis" /\ Boot[8] = "listener"
    BY DEF Boot
  <1>2. Booting = {"config", "traces", "logs", "metrics", "logger", "db", "redis", "listener"}
    BY <1>1 DEF Booting
  <1> QED
    BY <1>1, <1>2

\* No two steps have one name.
LEMMA BootDistinct == \A i, j \in DOMAIN Boot : Boot[i] = Boot[j] => i = j
  BY BootIs

\* What has been opened before a step, and what its failure has to release.
LEMMA BootOpen ==
    /\ \A i \in 1..8 : i > 1 => {Boot[j] : j \in 2..i} = {Boot[j] : j \in 2..(i - 1)} \cup {Boot[i]}
    /\ {Boot[j] : j \in 2..0} = {} /\ {Boot[j] : j \in 2..1} = {}
    /\ {Boot[j] : j \in 2..7} = Runtime
    /\ \A i \in DOMAIN Boot : i # 7 => {Boot[j] : j \in 2..(i - 1)} \subseteq BootCleanup(Boot[i])
  <1>1. \A i \in 1..8 : i > 1 => {Boot[j] : j \in 2..i} = {Boot[j] : j \in 2..(i - 1)} \cup {Boot[i]}
    OBVIOUS
  <1>2. 2..0 = {} /\ 2..1 = {}
    OBVIOUS
  <1>3. {Boot[j] : j \in 2..7} = Runtime
    BY BootIs DEF Runtime, Providers
  <1>4. ASSUME NEW i \in DOMAIN Boot, i # 7, NEW j \in 2..(i - 1)
        PROVE  Boot[j] \in BootCleanup(Boot[i])
    <2>1. i \in {3, 4, 5, 6, 8}
      BY <1>4, BootIs
    <2>2. CASE i = 3
      BY <1>4, <2>2, BootIs DEF BootCleanup, SetupCleanup, Providers
    <2>3. CASE i = 4
      BY <1>4, <2>3, BootIs DEF BootCleanup, SetupCleanup, Providers
    <2>4. CASE i = 5
      BY <1>4, <2>4, BootIs DEF BootCleanup, Providers
    <2>5. CASE i = 6
      BY <1>4, <2>5, BootIs DEF BootCleanup, Providers
    <2>6. CASE i = 8
      BY <1>4, <2>6, BootIs DEF BootCleanup, Providers, Runtime
    <2> QED
      BY <2>1, <2>2, <2>3, <2>4, <2>5, <2>6
  <1> QED
    BY <1>1, <1>2, <1>3, <1>4

\* A successful step opens one thing more; the last one starts the shutdown goroutine.
LEMMA BootStepInv ==
  ASSUME Inv, NEW i \in DOMAIN Boot, BootStep(i)
  PROVE  Inv'
  <1>1. /\ main = Boot[i] /\ open' = open \cup Opened(Boot[i])
        /\ main' = IF i < Len(Boot) THEN Boot[i + 1] ELSE "start"
        /\ shut' = IF i < Len(Boot) THEN "none" ELSE "await"
        /\ UNCHANGED <<root, server, handler, failed, exit, kind, hit, reporterVars>>
    BY DEF BootStep, Keep
  <1>2. /\ shut = "none" /\ open = {Boot[j] : j \in 2..(i - 1)} /\ server = "new" /\ hit = {}
        /\ ~started /\ \A h \in Handlers : handler[h] = "idle"
    BY <1>1 DEF Inv, Sound, BootSound
  <1>3. ProcessTypes /\ exit = -1
    BY <1>1, Types, BootIs DEF Inv, Sound, ExitSound
  <1>4. i \in 1..8 /\ Len(Boot) = 8 /\ DOMAIN Boot = 1..8
    BY BootIs
  <1>5. UNCHANGED started
    BY <1>1 DEF reporterVars
  <1>6. CASE i < 8
    <2>1. main' = Boot[i + 1] /\ shut' = "none" /\ i + 1 \in DOMAIN Boot
      BY <1>1, <1>4, <1>6
    <2>2. open' = {Boot[j] : j \in 2..i}
      <3>1. CASE i = 1
        BY <1>1, <1>2, <3>1, BootIs, BootOpen DEF Opened
      <3>2. CASE i > 1
        BY <1>1, <1>2, <1>4, <1>6, <3>2, BootIs, BootOpen DEF Opened
      <3> QED
        BY <1>4, <3>1, <3>2
    <2>3. \A j \in 2..i : Boot[j] \in Runtime
      BY <1>4, <1>6, BootIs DEF Runtime, Providers
    <2>4. ProcessTypes'
      BY <1>1, <1>3, <2>1, <2>2, <2>3 DEF ProcessTypes, MainPC, ShutPC
    <2>5. BootSound'
      <3>1. \A k \in DOMAIN Boot : main' = Boot[k] => k = i + 1
        BY <2>1, BootDistinct
      <3>2. (i + 1) - 1 = i
        BY <1>4
      <3>3. main' \in Booting /\ main' # "exit"
        BY <2>1, BootIs DEF Booting
      <3> QED
        BY <1>1, <1>2, <1>5, <2>1, <2>2, <3>1, <3>2, <3>3 DEF BootSound
    <2>6. "listener" \notin open'
      BY <2>2, <2>3 DEF Runtime, Providers
    <2>7. main' # "exit"
      BY <2>1, BootIs DEF Booting
    <2>8. Sound'
      BY <1>1, <1>2, <1>3, <1>5, <2>1, <2>5, <2>6, <2>7
         DEF Sound, RuntimeSound, ListenerSound, ServerSound, DrainSound, ReporterSound,
             ExitSound, ClosedResourceUseReported
    <2> QED
      BY <1>1, <2>4, <2>8, ProcessStep
  <1>7. CASE i = 8
    <2>1. main' = "start" /\ shut' = "await" /\ open = Runtime
      BY <1>1, <1>2, <1>4, <1>7, BootOpen
    <2>2. open' = IF kind = "http" THEN Runtime ELSE Runtime \cup {"listener"}
      BY <1>1, <1>7, <2>1, BootIs DEF Opened
    <2>3. ProcessTypes'
      BY <1>1, <1>3, <2>1, <2>2 DEF ProcessTypes, MainPC, ShutPC
    <2>4. BootSound'
      BY <2>1, BootIs DEF BootSound, Booting
    <2>5. RuntimeSound'
      BY <2>1, <2>2 DEF RuntimeSound, StillOpen, Runtime, Providers
    <2>6. ListenerSound'
      <3>1. kind = "http" \/ kind = "grpc"
        BY <1>3 DEF ProcessTypes
      <3> QED
        BY <1>1, <2>1, <2>2, <3>1 DEF ListenerSound, Runtime, Providers
    <2>7. Sound'
      BY <1>1, <1>2, <1>3, <1>5, <2>1, <2>4, <2>5, <2>6
         DEF Sound, ServerSound, DrainSound, ReporterSound, ExitSound, ClosedResourceUseReported
    <2> QED
      BY <1>1, <2>3, <2>7, ProcessStep
  <1> QED
    BY <1>4, <1>6, <1>7

\* A step that fails releases what was opened before it.
LEMMA BootFailsInv ==
  ASSUME Inv, NEW i \in DOMAIN Boot, BootFails(i)
  PROVE  Inv'
  <1>1. /\ main = Boot[i] /\ Boot[i] # "redis" /\ open' = open \ BootCleanup(Boot[i])
        /\ main' = "exit" /\ exit' = 1 /\ failed' = {"boot"}
        /\ UNCHANGED <<root, shut, server, handler, kind, hit, reporterVars>>
    BY DEF BootFails, Keep
  <1>2. /\ shut = "none" /\ open = {Boot[j] : j \in 2..(i - 1)} /\ server = "new" /\ hit = {}
        /\ ~started /\ \A h \in Handlers : handler[h] = "idle"
    BY <1>1 DEF Inv, Sound, BootSound
  <1>3. open' = {}
    BY <1>1, <1>2, BootIs, BootOpen
  <1>4. ProcessTypes'
    BY <1>1, <1>3, Types DEF Inv, ProcessTypes, MainPC
  <1>5. UNCHANGED started
    BY <1>1 DEF reporterVars
  <1>6. BootSound'
    BY <1>1, <1>2, <1>3, <1>5, BootIs DEF BootSound, Booting
  <1>7. Sound'
    BY <1>1, <1>2, <1>3, <1>5, <1>6
       DEF Sound, RuntimeSound, ListenerSound, ServerSound, DrainSound, ReporterSound,
           ExitSound, ClosedResourceUseReported
  <1> QED
    BY <1>1, <1>4, <1>7, ProcessStep

----------------------------------------------------------------------------
(* Serving.                                                                *)

\* After the bootstrap BootSound asks for nothing more.
LEMMA Booted ==
    /\ BootSound /\ main \notin Booting \cup {"exit"} => shut # "none"
    /\ (main \notin Booting /\ shut # "none" => BootSound)'
  BY DEF BootSound, Booting

\* The gRPC process starts its reporter once, when it begins to serve.
LEMMA StartReporterInv ==
  ASSUME Inv, StartReporter
  PROVE  Inv'
  <1>1. /\ main = "start" /\ main' = "serve"
        /\ UNCHANGED <<kind, root, shut, open, server, handler, failed, hit, exit>>
        /\ IF kind = "grpc" THEN Reporter!Start ELSE UNCHANGED reporterVars
    BY DEF StartReporter
  <1>2. ProcessTypes /\ Sound /\ RP!Inv
    BY Types DEF Inv
  <1>3. shut # "none" /\ main' \notin Booting
    BY <1>1, <1>2, Booted, BootIs DEF Sound
  <1>4. ProcessTypes'
    BY <1>1, <1>2 DEF ProcessTypes, MainPC
  <1>5. RP!Inv'
    BY <1>1, <1>2, ReporterMoves, ReporterRests
  <1>6. /\ kind = "http" => UNCHANGED started
        /\ UNCHANGED stop
    BY <1>1, <1>2 DEF ProcessTypes, reporterVars, Reporter!Start
  <1>7. BootSound'
    BY <1>1, <1>3, Booted
  <1>8. ReporterSound'
    BY <1>1, <1>2, <1>3, <1>6 DEF Sound, ReporterSound, ProcessTypes
  <1>9. Sound'
    BY <1>1, <1>2, <1>3, <1>7, <1>8
       DEF Sound, RuntimeSound, ListenerSound, ServerSound, DrainSound, Idle,
           ExitSound, ClosedResourceUseReported
  <1> QED
    BY <1>4, <1>5, <1>9, SameTypes, Types DEF Inv, RP!Inv

\* Main's steps up to the wait for the shutdown.
LEMMA ServeInv ==
  ASSUME Inv, Serve \/ ServeFails
  PROVE  Inv'
  <1>1. /\ main \in {"serve", "serving"} /\ main' \in {"serving", "stop"}
        /\ UNCHANGED <<root, shut, handler, exit, kind, hit, reporterVars>>
    BY DEF Serve, ServeFails, Keep
  <1>2. \/ /\ server # "new" /\ main = "serve" /\ main' = "stop"
           /\ open' = open \ {"listener"} /\ UNCHANGED <<server, failed>>
        \/ /\ server = "new" /\ main = "serve" /\ main' = "serving" /\ server' = "accepting"
           /\ open' = open \cup {"listener"} /\ UNCHANGED failed
        \/ /\ server = "new" /\ main = "serve" /\ kind = "http" /\ main' = "stop"
           /\ server' = "failed" /\ failed' = failed \cup {"start"} /\ UNCHANGED open
        \/ /\ server = "accepting" /\ main = "serving" /\ main' = "stop" /\ server' = "failed"
           /\ open' = open \ {"listener"} /\ failed' = failed \cup {"start"}
    BY DEF Serve, ServeFails
  <1>3. ProcessTypes /\ Sound
    BY Types DEF Inv
  <1>4. shut # "none" /\ main' \notin Booting
    BY <1>1, <1>3, Booted, BootIs DEF Sound
  <1>5. ProcessTypes'
    BY <1>1, <1>2, <1>3 DEF ProcessTypes, MainPC
  <1>6. BootSound'
    BY <1>1, <1>4, Booted
  <1>7. UNCHANGED <<started, stop>>
    BY <1>1 DEF reporterVars
  <1>8. open' \ {"listener"} = open \ {"listener"}
    BY <1>2
  <1>9. RuntimeSound'
    BY <1>1, <1>3, <1>8 DEF Sound, RuntimeSound
  <1>10. ListenerSound'
    BY <1>1, <1>2, <1>3 DEF Sound, ListenerSound
  <1>11. ServerSound'
    BY <1>1, <1>2, <1>3 DEF Sound, ServerSound
  <1>12. "shutdown" \in failed => "shutdown" \in failed'
    BY <1>2
  <1>13. Sound'
    BY <1>1, <1>3, <1>6, <1>7, <1>9, <1>10, <1>11, <1>12
       DEF Sound, DrainSound, Idle, ReporterSound, ExitSound, ClosedResourceUseReported
  <1> QED
    BY <1>1, <1>5, <1>13, ProcessStep

\* The end of Serve, the signal, the call of Stop and the exit touch main's own state only.
LEMMA MainInv ==
  ASSUME Inv, ServeReturns \/ Stop \/ Exit \/ Signal, Alive
  PROVE  Inv'
  <1>1. UNCHANGED <<shut, open, server, handler, failed, kind, hit, reporterVars>>
    BY DEF ServeReturns, Stop, Exit, Signal, Keep
  <1>2. ProcessTypes /\ Sound
    BY Types DEF Inv
  <1>3. UNCHANGED <<started, stop>>
    BY <1>1 DEF reporterVars
  <1>4. \/ /\ main = "serving" /\ main' = "stop" /\ UNCHANGED <<root, exit>>
           /\ server \in {"stopped", "draining"}
        \/ main = "stop" /\ main' = "wait" /\ root' = TRUE /\ UNCHANGED exit
        \/ /\ main = "wait" /\ main' = "exit" /\ shut = "done" /\ UNCHANGED root
           /\ exit' = IF failed = {} THEN 0 ELSE 1
        \/ main = "wait" /\ main' = "killed" /\ UNCHANGED <<root, exit>>
        \/ main' = main /\ root' = TRUE /\ UNCHANGED exit
    BY DEF ServeReturns, Stop, Exit, Signal
  <1>5. ProcessTypes'
    <2>1. main' \in MainPC
      BY <1>2, <1>4 DEF ProcessTypes, MainPC
    <2>2. root' \in BOOLEAN
      BY <1>2, <1>4 DEF ProcessTypes
    <2>3. exit' \in -1..1
      BY <1>2, <1>4 DEF ProcessTypes
    <2> QED
      BY <1>1, <1>2, <2>1, <2>2, <2>3 DEF ProcessTypes
  <1>6. BootSound'
    <2>1. CASE main' = main
      BY <1>1, <1>2, <1>3, <2>1 DEF Sound, BootSound
    <2>2. CASE main' # main
      <3>1. main \in {"serving", "stop", "wait"} /\ main' \in {"stop", "wait", "exit", "killed"}
        BY <1>4, <2>2
      <3> QED
        BY <1>1, <1>2, <3>1, Booted, BootIs DEF Sound
    <2> QED
      BY <2>1, <2>2
  <1>7. ListenerSound'
    BY <1>1, <1>2, <1>4 DEF Sound, ListenerSound
  <1>8. ServerSound'
    BY <1>1, <1>2, <1>4 DEF Sound, ServerSound
  <1>9. ExitSound'
    BY <1>1, <1>2, <1>4 DEF Sound, ExitSound, Alive
  <1>10. Sound'
    BY <1>1, <1>2, <1>3, <1>6, <1>7, <1>8, <1>9
       DEF Sound, RuntimeSound, DrainSound, Idle, ReporterSound, ClosedResourceUseReported
  <1> QED
    BY <1>1, <1>5, <1>10, ProcessStep

----------------------------------------------------------------------------
(* The shutdown.                                                           *)

\* The steps before the Runtime is closed: on to the reporter, on from it, and the drain.
LEMMA DrainInv ==
  ASSUME Inv, Alive, AwaitRoot \/ ReporterShut \/ BeginDrain \/ Drained \/ DrainExpires
  PROVE  Inv'
  <1>1. UNCHANGED <<root, main, handler, exit, kind, hit, reporterVars>>
    BY DEF AwaitRoot, ReporterShut, BeginDrain, Drained, DrainExpires, Keep
  <1>2. \/ /\ shut = "await" /\ shut' = IF kind = "grpc" THEN "reporter" ELSE "server"
           /\ UNCHANGED <<open, server, failed>>
        \/ /\ shut = "reporter" /\ stop["app"].pc \in {"stopped", "timeout"} /\ shut' = "server"
           /\ failed' = IF stop["app"].pc = "timeout" THEN failed \cup {"shutdown"} ELSE failed
           /\ UNCHANGED <<open, server>>
        \/ /\ shut = "server" /\ shut' = "drain" /\ server' = "draining"
           /\ open' = IF server = "accepting" THEN open \ {"listener"} ELSE open
           /\ UNCHANGED failed
        \/ /\ shut \in {"drain", "force"} /\ Idle /\ shut' = "redis" /\ server' = "stopped"
           /\ UNCHANGED <<open, failed>>
        \/ /\ shut = "drain" /\ kind = "grpc" /\ shut' = "force" /\ UNCHANGED <<open, server>>
           /\ failed' = failed \cup {"shutdown"}
        \/ /\ shut = "drain" /\ kind # "grpc" /\ shut' = "redis" /\ server' = "stopped"
           /\ failed' = failed \cup {"shutdown"} /\ UNCHANGED open
    BY DEF AwaitRoot, ReporterShut, BeginDrain, Drained, DrainExpires
  <1>3. ProcessTypes /\ Sound
    BY Types DEF Inv
  <1>4. shut # "none" /\ shut' # "none" /\ UNCHANGED <<started, stop>>
    BY <1>1, <1>2 DEF reporterVars
  <1>5. ProcessTypes'
    <2>1. shut' \in ShutPC
      BY <1>2 DEF ShutPC
    <2>2. /\ server' \in {"new", "accepting", "failed", "draining", "stopped"}
          /\ open' \in SUBSET (Runtime \cup {"listener"})
          /\ failed' \in SUBSET {"boot", "start", "shutdown"}
      BY <1>2, <1>3 DEF ProcessTypes
    <2> QED
      BY <1>1, <1>3, <2>1, <2>2 DEF ProcessTypes
  <1>6. main \notin Booting
    BY <1>3, <1>4 DEF Sound, BootSound, Booting
  <1>7. BootSound'
    BY <1>1, <1>4, <1>6, Booted
  <1>8. open' \ {"listener"} = open \ {"listener"}
    BY <1>2
  <1>9. StillOpen(shut) = Runtime /\ StillOpen(shut') = Runtime
    BY <1>2 DEF StillOpen
  <1>10. RuntimeSound'
    BY <1>3, <1>4, <1>8, <1>9 DEF Sound, RuntimeSound
  <1>11. ListenerSound'
    <2>1. open' \subseteq open
      BY <1>2
    <2>2. CASE server' = server
      BY <1>1, <1>3, <2>1, <2>2 DEF Sound, ListenerSound
    <2>3. CASE server # "accepting"
      BY <1>1, <1>3, <2>1, <2>3 DEF Sound, ListenerSound
    <2>4. CASE server' # server /\ server = "accepting"
      BY <1>2, <1>3, <2>4 DEF Sound, ListenerSound, ServerSound
    <2> QED
      BY <2>2, <2>3, <2>4
  <1>12. ServerSound'
    BY <1>1, <1>2, <1>3 DEF Sound, ServerSound, Alive
  <1>13. "shutdown" \in failed => "shutdown" \in failed'
    BY <1>2
  <1>14. DrainSound'
    BY <1>1, <1>2, <1>3 DEF ProcessTypes, DrainSound, Idle
  <1>15. ReporterSound'
    BY <1>1, <1>2, <1>3, <1>4, <1>13 DEF ProcessTypes, Sound, ReporterSound
  <1>16. ExitSound'
    BY <1>1, <1>3 DEF Sound, ExitSound, Alive
  <1>17. ClosedResourceUseReported'
    BY <1>1, <1>3, <1>13 DEF Sound, ClosedResourceUseReported
  <1>18. Sound'
    BY <1>7, <1>10, <1>11, <1>12, <1>14, <1>15, <1>16, <1>17 DEF Sound
  <1> QED
    BY <1>1, <1>5, <1>18, ProcessStep

\* The Runtime is closed, one resource after the other.
LEMMA CloseInv ==
  ASSUME Inv, Alive, PoolClosed \/ \E r \in {"redis", "db", "otel", "logger"} : Close(r)
  PROVE  Inv'
  <1>1. UNCHANGED <<root, main, server, handler, exit, kind, hit, reporterVars>>
    BY DEF PoolClosed, Close, Keep
  <1>2. /\ \/ shut = "redis" /\ shut' = "db" /\ open' = open \ {"redis"}
           \/ shut = "db" /\ shut' = "dbwait" /\ open' = open \ {"db"}
           \/ shut = "dbwait" /\ shut' = "otel" /\ open' = open
           \/ shut = "otel" /\ shut' = "logger" /\ open' = open \ Providers
           \/ shut = "logger" /\ shut' = "done" /\ open' = open \ {"logger"}
        /\ failed' = failed \/ failed' = failed \cup {"shutdown"}
    <2>1. CASE PoolClosed
      BY <2>1 DEF PoolClosed
    <2>2. ASSUME NEW r \in {"redis", "db", "otel", "logger"}, Close(r)
          PROVE  <1>2!:
      <3>1. /\ shut = r /\ open' = open \ Closed(r) /\ shut' = NextToClose(r)
            /\ failed' = failed \/ failed' = failed \cup {"shutdown"}
        BY <2>2 DEF Close
      <3> QED
        BY <3>1 DEF Closed, NextToClose
    <2> QED
      BY <2>1, <2>2
  <1>3. ProcessTypes /\ Sound
    BY Types DEF Inv
  <1>4. shut # "none" /\ shut' # "none" /\ UNCHANGED <<started, stop>>
    BY <1>1, <1>2 DEF reporterVars
  <1>5. ProcessTypes'
    <2>1. shut' \in ShutPC
      BY <1>2 DEF ShutPC
    <2>2. /\ open' \in SUBSET (Runtime \cup {"listener"})
          /\ failed' \in SUBSET {"boot", "start", "shutdown"}
      BY <1>2, <1>3 DEF ProcessTypes
    <2> QED
      BY <1>1, <1>3, <2>1, <2>2 DEF ProcessTypes
  <1>6. main \notin Booting
    BY <1>3, <1>4 DEF Sound, BootSound, Booting
  <1>7. BootSound'
    BY <1>1, <1>4, <1>6, Booted
  <1>8. RuntimeSound'
    BY <1>2, <1>3 DEF Sound, RuntimeSound, StillOpen, Runtime, Providers
  <1>9. ListenerSound'
    BY <1>1, <1>2, <1>3 DEF Sound, ListenerSound
  <1>10. ServerSound'
    BY <1>1, <1>2, <1>3 DEF Sound, ServerSound, Alive
  <1>11. "shutdown" \in failed => "shutdown" \in failed'
    BY <1>2
  <1>12. Sound'
    BY <1>1, <1>2, <1>3, <1>4, <1>7, <1>8, <1>9, <1>10, <1>11
       DEF Sound, DrainSound, Idle, ReporterSound, ExitSound, ClosedResourceUseReported, Alive
  <1> QED
    BY <1>1, <1>5, <1>12, ProcessStep

----------------------------------------------------------------------------
(* The reporter's goroutine and the requests.                              *)

\* The pool or the Redis client is closed only late in the shutdown.
LEMMA ClosedLate ==
  ASSUME Sound, ProcessTypes, shut # "none", "db" \notin open \/ "redis" \notin open
  PROVE  shut \in {"db", "dbwait", "otel", "logger", "done"}
  <1>1. {"db", "redis"} \subseteq Runtime
    BY DEF Runtime
  <1>2. StillOpen(shut) # Runtime
    BY <1>1 DEF Sound, RuntimeSound
  <1> QED
    BY <1>2 DEF ProcessTypes, ShutPC, StillOpen

\* The reporter's steps keep its own invariant and leave the process alone.
LEMMA ReporterInv ==
  ASSUME Inv, ShutReporter \/ GraceEnds \/ ReporterSteps
  PROVE  Inv'
  <1>1. UNCHANGED <<kind, root, main, shut, open, server, handler, failed, exit>>
    BY DEF ShutReporter, GraceEnds, ReporterSteps, procVars
  <1>2. ProcessTypes /\ Sound /\ RP!Inv
    BY Types DEF Inv
  <1>3. Reporter!Shutdown("app") \/ Reporter!Expire("app") \/ Reporter!RunSteps
    BY DEF ShutReporter, GraceEnds, ReporterSteps
  <1>4. RP!Inv'
    BY <1>1, <1>2, <1>3, ReporterMoves
  <1>5. UNCHANGED started /\ (UNCHANGED stop \/ shut = "reporter")
    BY DEF ShutReporter, GraceEnds, ReporterSteps, Reporter!Shutdown, Reporter!Expire,
           Reporter!RunSteps, Reporter!RunBegins, Reporter!CheckStep, Reporter!CheckBlocks,
           Reporter!CheckResumes, Reporter!PublishStep, Reporter!Tick, Reporter!RunEnds,
           Reporter!StopServer, Reporter!CancelRun, Reporter!LookStarted, Reporter!PeekDone,
           Reporter!AwaitDone
  <1>6. /\ hit' = hit \/ hit' = hit \cup {"reporter"}
        /\ hit' # hit => "shutdown" \in failed
    <2>1. CASE UNCHANGED hit
      BY <2>1
    <2>2. CASE run.pc = "check" /\ ~Reporter!Answers(run.at) /\ hit' = hit \cup {"reporter"}
      <3>1. started /\ (stop["app"].pc = "stopped" => run.pc \notin RP!Running)
        BY <1>2, <2>2 DEF RP!Inv, RP!RunCancelled
      <3>2. kind = "grpc" /\ shut # "none"
        BY <1>2, <3>1 DEF Sound, ReporterSound
      <3>3. run.at \in 1..4
        BY <1>2 DEF RP!Inv, RP!TypeOK
      <3>4. "db" \notin open \/ "redis" \notin open
        <4>1. Reporter!Checks[run.at] \in {"postgres", "redis"}
          BY <3>3 DEF Reporter!Checks
        <4> QED
          BY <2>2, <4>1 DEF Reporter!Answers
      <3>5. shut \in {"db", "dbwait", "otel", "logger", "done"}
        BY <1>2, <3>2, <3>4, ClosedLate
      <3>6. run.pc \in RP!Running
        BY <2>2 DEF RP!Running
      <3> QED
        BY <1>2, <2>2, <3>1, <3>2, <3>5, <3>6 DEF Sound, ReporterSound
    <2> QED
      BY <2>1, <2>2 DEF ShutReporter, GraceEnds, ReporterSteps, procVars
  <1>7. ProcessTypes'
    BY <1>1, <1>2, <1>6 DEF ProcessTypes
  <1>8. BootSound'
    <2>1. CASE shut = "none"
      <3>1. hit' = hit
        <4>1. hit = {} /\ ~started /\ run.pc # "check"
          BY <1>2, <2>1 DEF Sound, BootSound, RP!Inv, RP!RunCancelled
        <4> QED
          BY <4>1 DEF ShutReporter, GraceEnds, ReporterSteps, procVars
      <3> QED
        BY <1>1, <1>2, <1>5, <3>1 DEF Sound, BootSound
    <2>2. CASE shut # "none"
      BY <1>1, <1>2, <2>2, Booted DEF Sound, BootSound, Booting
    <2> QED
      BY <2>1, <2>2
  <1>9. ReporterSound'
    BY <1>1, <1>2, <1>5 DEF Sound, ReporterSound
  <1>10. ClosedResourceUseReported'
    BY <1>1, <1>2, <1>6 DEF Sound, ClosedResourceUseReported
  <1>11. Sound'
    BY <1>1, <1>2, <1>8, <1>9, <1>10
       DEF Sound, RuntimeSound, ListenerSound, ServerSound, DrainSound, Idle, ExitSound
  <1> QED
    BY <1>4, <1>7, <1>11, SameTypes, Types DEF Inv, RP!Inv

\* A handler moves alone, and meets a closed resource only in a shutdown that cut it off.
LEMMA HandlerInv ==
  ASSUME Inv, NEW h \in Handlers,
         Accept(h) \/ Begin(h) \/ CallRedis(h) \/ Query(h) \/ QueryEnds(h) \/ End(h)
  PROVE  Inv'
  <1>1. UNCHANGED <<kind, root, main, shut, open, server, failed, exit, reporterVars>>
    BY DEF Accept, Begin, CallRedis, Query, QueryEnds, End, Move
  <1>2. ProcessTypes /\ Sound
    BY Types DEF Inv
  <1>3. PICK to \in {"conn", "run", "query", "done"} : handler' = [handler EXCEPT ![h] = to]
    BY DEF Accept, Begin, CallRedis, Query, QueryEnds, End, Move
  <1>4. \/ handler[h] = "idle" /\ server = "accepting"
        \/ handler[h] \in {"conn", "run", "query"}
    BY DEF Accept, Begin, CallRedis, Query, QueryEnds, End, Move
  <1>5. /\ hit' = hit \/ hit' = hit \cup {h}
        /\ hit' # hit => handler[h] = "run" /\ ("db" \notin open \/ "redis" \notin open)
    BY DEF Accept, Begin, CallRedis, Query, QueryEnds, End, Move
  <1>6. shut # "none"
    BY <1>2, <1>4 DEF Sound, BootSound
  <1>7. UNCHANGED <<started, stop>>
    BY <1>1 DEF reporterVars
  <1>8. hit' # hit => kind = "http" /\ "shutdown" \in failed
    BY <1>2, <1>5, <1>6, ClosedLate DEF Sound, DrainSound, Idle
  <1>9. ProcessTypes'
    BY <1>1, <1>2, <1>3, <1>5 DEF ProcessTypes
  <1>10. BootSound'
    BY <1>1, <1>2, <1>6, Booted DEF Sound, BootSound, Booting
  <1>11. DrainSound'
    BY <1>1, <1>2, <1>4 DEF Sound, DrainSound, ServerSound, Idle
  <1>12. ClosedResourceUseReported'
    BY <1>1, <1>2, <1>5, <1>8 DEF Sound, ClosedResourceUseReported
  <1>13. Sound'
    BY <1>1, <1>2, <1>7, <1>10, <1>11, <1>12
       DEF Sound, RuntimeSound, ListenerSound, ServerSound, ReporterSound, ExitSound
  <1> QED
    BY <1>1, <1>9, <1>13, ProcessStep

----------------------------------------------------------------------------
(* The process.                                                            *)

\* Nothing is open and nobody serves when the process begins.
LEMMA InitInv == Init => Inv
  <1> SUFFICES ASSUME Init
               PROVE  Inv
    OBVIOUS
  <1>1. RP!Init
    BY DEF Init, Reporter!Init, RP!Init, Reporter!ServiceNames, RP!ServiceNames,
           Reporter!Services, RP!Services, RP!Dependencies, Reporter!Dependencies
  <1>2. RP!Inv
    BY <1>1, RP!InitInv
  <1>3. /\ root = FALSE /\ main = "config" /\ shut = "none" /\ open = {} /\ server = "new"
        /\ handler = [h \in Handlers |-> "idle"] /\ failed = {} /\ hit = {} /\ exit = -1
        /\ kind \in {"http", "grpc"} /\ started = FALSE
    BY DEF Init, Reporter!Init
  <1>4. ProcessTypes
    <2>1. main \in MainPC
      BY <1>3, BootIs DEF MainPC, Booting
    <2>2. handler \in [Handlers -> {"idle", "conn", "run", "query", "done"}]
      BY <1>3
    <2>3. exit \in -1..1
      BY <1>3
    <2>4. root \in BOOLEAN
      BY <1>3, Zenon
    <2> QED
      BY <1>3, <2>1, <2>2, <2>3, <2>4 DEF ProcessTypes, ShutPC
  <1>5. BootSound
    <2>1. \A i \in DOMAIN Boot : main = Boot[i] => i = 1
      BY <1>3, BootIs
    <2>2. main \in Booting
      BY <1>3, BootIs
    <2>3. {Boot[j] : j \in 2..(1 - 1)} = {}
      BY BootOpen
    <2> QED
      BY <1>3, <2>1, <2>2, <2>3 DEF BootSound
  <1>6. Sound
    BY <1>3, <1>5
       DEF Sound, RuntimeSound, ListenerSound, ServerSound, DrainSound, ReporterSound,
           ExitSound, ClosedResourceUseReported
  <1> QED
    BY <1>2, <1>4, <1>6, SameTypes, Types DEF Inv, RP!Inv

\* Every step of every goroutine keeps the invariant.
LEMMA NextInv == Inv /\ [Next]_vars => Inv'
  <1> SUFFICES ASSUME Inv, [Next]_vars
               PROVE  Inv'
    OBVIOUS
  <1>1. CASE Next
    <2>1. Alive
      BY <1>1 DEF Next
    <2>2. CASE MainSteps \/ ServeFails \/ Signal
      BY <2>1, <2>2, BootStepInv, BootFailsInv, StartReporterInv, ServeInv, MainInv DEF MainSteps
    <2>3. CASE ShutdownSteps
      BY <2>1, <2>3, DrainInv, CloseInv, ReporterInv DEF ShutdownSteps
    <2>4. CASE GraceEnds \/ ReporterSteps
      BY <2>4, ReporterInv
    <2>5. CASE HandlerSteps
      BY <2>5, HandlerInv DEF HandlerSteps
    <2> QED
      BY <1>1, <2>2, <2>3, <2>4, <2>5 DEF Next
  <1>2. CASE UNCHANGED vars
    <2>1. UNCHANGED procVars /\ UNCHANGED reporterVars
      BY <1>2 DEF vars
    <2>2. UNCHANGED <<kind, root, main, shut, open, server, handler, failed, hit, exit>>
      BY <2>1 DEF procVars
    <2>3. UNCHANGED <<started, stop>>
      BY <2>1 DEF reporterVars
    <2>4. ProcessTypes'
      BY <2>2, Types DEF Inv, ProcessTypes
    <2>5. Sound'
      BY <2>2, <2>3
         DEF Inv, Sound, BootSound, RuntimeSound, ListenerSound, ServerSound, DrainSound, Idle,
             ReporterSound, ExitSound, ClosedResourceUseReported
    <2> QED
      BY <2>1, <2>4, <2>5, ProcessStep
  <1> QED
    BY <1>1, <1>2

\* The inductive invariant holds in every behaviour.
THEOREM Invariance == Spec => []Inv
  BY InitInv, NextInv, PTL DEF Spec

\* The process and its reporter keep their types.
THEOREM LifecycleTypes == Spec => []TypeOK
  <1>1. Inv => TypeOK
    BY DEF Inv
  <1> QED
    BY <1>1, Invariance, PTL

\* An exiting process holds nothing, whichever step, signal or failure ended it.
THEOREM ExitIsTidy == Spec => []ExitReleasesEverything
  <1>1. ASSUME Inv, main = "exit"
        PROVE  open = {}
    <2>1. Sound /\ ProcessTypes
      BY <1>1, Types DEF Inv
    <2>2. CASE shut = "none"
      BY <1>1, <2>1, <2>2 DEF Sound, BootSound
    <2>3. CASE shut = "done"
      BY <1>1, <2>1, <2>3 DEF Sound, RuntimeSound, StillOpen, ListenerSound
    <2> QED
      BY <1>1, <2>1, <2>2, <2>3 DEF Sound, ServerSound
  <1>2. Inv => ExitReleasesEverything
    BY <1>1 DEF ExitReleasesEverything
  <1> QED
    BY <1>2, Invariance, PTL

\* Exit code 0 means that no request and no check was cut off.
THEOREM ExitZeroIsClean == Spec => []CleanExit
  <1>1. ASSUME Inv, exit = 0
        PROVE  Idle /\ hit = {} /\ run.pc \notin Reporter!Running
    <2>1. Sound /\ ProcessTypes /\ failed = {} /\ shut = "done"
      BY <1>1, Types DEF Inv, Sound, ExitSound
    <2>2. Idle /\ hit = {}
      BY <2>1 DEF Sound, DrainSound, ClosedResourceUseReported
    <2>3. RP!RunCancelled
      BY <1>1 DEF Inv, RP!Inv
    <2>4. CASE kind = "grpc"
      BY <2>1, <2>2, <2>3, <2>4 DEF Sound, ReporterSound, RP!RunCancelled, RP!Running, Reporter!Running
    <2>5. CASE kind # "grpc"
      BY <2>1, <2>2, <2>3, <2>5 DEF Sound, ReporterSound, RP!RunCancelled, Reporter!Running
    <2> QED
      BY <2>4, <2>5
  <1>2. Inv => CleanExit
    BY <1>1 DEF CleanExit
  <1> QED
    BY <1>2, Invariance, PTL

\* Whoever meets a closed pool or Redis client does so in a shutdown that is reported as
\* failed, and no gRPC request ever does.
THEOREM ClosedUseIsReported == Spec => []ClosedResourceUseReported
  <1>1. Inv => ClosedResourceUseReported
    BY DEF Inv, Sound
  <1> QED
    BY <1>1, Invariance, PTL

\* A connection is accepted only while the pool and the Redis client are open.
THEOREM AcceptedWithResources == Spec => AcceptNeedsResources
  <1>1. ASSUME Inv, Next, NEW h \in Handlers, handler[h] = "idle", handler'[h] # "idle"
        PROVE  {"db", "redis"} \subseteq open
    <2>1. Sound /\ ProcessTypes
      BY <1>1, Types DEF Inv
    <2>2. ASSUME UNCHANGED handler
          PROVE  FALSE
      BY <1>1, <2>2
    <2>3. server = "accepting"
      <3>1. ~(MainSteps \/ ServeFails \/ Signal)
        BY <2>2 DEF MainSteps, BootStep, BootFails, StartReporter, Serve, ServeReturns, Stop,
                    Exit, ServeFails, Signal
      <3>2. ~ShutdownSteps
        BY <2>2 DEF ShutdownSteps, AwaitRoot, ShutReporter, ReporterShut, BeginDrain, Drained,
                    DrainExpires, Close, PoolClosed, procVars
      <3>3. ~(GraceEnds \/ ReporterSteps)
        BY <2>2 DEF GraceEnds, ReporterSteps, procVars
      <3>4. HandlerSteps
        BY <1>1, <3>1, <3>2, <3>3 DEF Next
      <3>5. PICK g \in Handlers :
                Accept(g) \/ Begin(g) \/ CallRedis(g) \/ Query(g) \/ QueryEnds(g) \/ End(g)
        BY <3>4 DEF HandlerSteps
      <3>6. g = h
        BY <1>1, <2>1, <3>5
           DEF Accept, Begin, CallRedis, Query, QueryEnds, End, Move, ProcessTypes
      <3> QED
        BY <1>1, <3>5, <3>6 DEF Accept, Begin, CallRedis, Query, QueryEnds, End, Move
    <2>4. shut \in {"await", "reporter", "server"}
      BY <2>1, <2>3 DEF Sound, BootSound, ServerSound, ProcessTypes, ShutPC
    <2> QED
      BY <2>1, <2>4, ClosedLate
  <1>2. Inv /\ [Next]_vars =>
            [\A h \in Handlers : handler[h] = "idle" /\ handler'[h] # "idle"
                => {"db", "redis"} \subseteq open]_vars
    BY <1>1
  <1> QED
    BY <1>2, Invariance, PTL DEF Spec, AcceptNeedsResources
=============================================================================
