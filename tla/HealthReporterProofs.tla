------------------------ MODULE HealthReporterProofs ------------------------
(***************************************************************************)
(* What Shutdown of the health reporter guarantees, for every set of       *)
(* concurrent callers: the services never read SERVING again, and once it  *)
(* returned nil no readiness check runs or will run.                       *)
(***************************************************************************)
EXTENDS HealthReporter, TLAPS

\* Shutdown stops the health server before anything else, and a stopped one stays
\* NOT_SERVING.
ServerStopped ==
    /\ \A s \in Stoppers : stop[s].pc # "idle" => serverStopped
    /\ serverStopped => \A v \in ServiceNames : status[v] = "NOT_SERVING"

\* The goroutine exists once runStarted is closed; every Shutdown past cancelRun finds
\* runContext cancelled, and one that returned nil left the goroutine ended, or not yet
\* begun with its context cancelled.
RunCancelled ==
    /\ run.pc # "none" => started
    /\ \A s \in Stoppers :
        /\ stop[s].pc \in {"look", "peek", "wait", "stopped", "timeout"} => cancelled
        /\ stop[s].pc = "stopped" => run.pc \notin Running

\* A run that had ended when a Shutdown was called stays ended, so the first look at it,
\* which comes before the wait, finds it ended.
LateSound ==
    \A s \in Stoppers : stop[s].late => run.pc = "done" /\ stop[s].pc \notin {"wait", "timeout"}

\* The inductive invariant.
Inv == TypeOK /\ ServerStopped /\ RunCancelled /\ LateSound

\* The sizes of the two sequences that run.at walks.
LEMMA ChecksLen == Len(Checks) = 4 /\ Len(Services) = 2
  BY DEF Checks, Services

\* Initially nothing runs and nothing serves.
LEMMA InitInv == Init => Inv
  <1> SUFFICES ASSUME Init
               PROVE  Inv
    OBVIOUS
  <1>1. TypeOK
    <2>1. up \in [Dependencies -> BOOLEAN] /\ expired \in SUBSET Stoppers
      BY DEF Init
    <2>2. status \in [ServiceNames -> States]
      BY DEF Init, States
    <2>3. serverStopped \in BOOLEAN /\ started \in BOOLEAN /\ cancelled \in BOOLEAN
      BY DEF Init
    <2>4. run \in [pc : {"none", "spawned", "done"} \cup Running, at : 1..4, result : States]
      BY DEF Init, States
    <2>5. stop \in [Stoppers -> [pc : {"idle", "cancel", "look", "peek", "wait", "stopped", "timeout"},
                                late : BOOLEAN]]
      BY DEF Init
    <2> QED
      BY <2>1, <2>2, <2>3, <2>4, <2>5 DEF TypeOK
  <1>2. ServerStopped
    BY DEF Init, ServerStopped
  <1>3. RunCancelled
    BY DEF Init, RunCancelled, Running
  <1>4. LateSound
    BY DEF Init, LateSound
  <1> QED
    BY <1>1, <1>2, <1>3, <1>4 DEF Inv

\* Every step of the goroutine, of a caller and of the environment keeps the invariant.
LEMMA NextInv == Inv /\ [Next]_vars => Inv'
  <1> SUFFICES ASSUME Inv, [Next]_vars
               PROVE  Inv'
    OBVIOUS
  <1> USE DEF Inv, env
  <1>1. CASE Start
    <2>1. TypeOK'
      BY <1>1 DEF Start, TypeOK, States, Running
    <2>2. ServerStopped'
      BY <1>1 DEF Start, TypeOK, ServerStopped, States
    <2>3. RunCancelled'
      BY <1>1 DEF Start, TypeOK, RunCancelled, Running
    <2>4. LateSound'
      BY <1>1 DEF Start, TypeOK, RunCancelled, LateSound, Running
    <2> QED
      BY <2>1, <2>2, <2>3, <2>4
  <1>2. CASE RunBegins
    <2>1. TypeOK'
      BY <1>2 DEF RunBegins, BeginCheck, TypeOK, States, Running
    <2>2. ServerStopped'
      BY <1>2 DEF RunBegins, BeginCheck, TypeOK, ServerStopped, States
    <2>3. RunCancelled'
      BY <1>2 DEF RunBegins, BeginCheck, TypeOK, RunCancelled, Running
    <2>4. LateSound'
      BY <1>2 DEF RunBegins, BeginCheck, TypeOK, RunCancelled, LateSound, Running
    <2> QED
      BY <2>1, <2>2, <2>3, <2>4
  <1>3. CASE CheckStep
    <2>1. TypeOK'
      BY <1>3, ChecksLen DEF CheckStep, Publish, TypeOK, States, Running
    <2>2. ServerStopped'
      BY <1>3 DEF CheckStep, Publish, TypeOK, ServerStopped, States
    <2>3. RunCancelled'
      BY <1>3 DEF CheckStep, Publish, TypeOK, RunCancelled, Running
    <2>4. LateSound'
      BY <1>3 DEF CheckStep, Publish, TypeOK, RunCancelled, LateSound, Running
    <2> QED
      BY <2>1, <2>2, <2>3, <2>4
  <1>4. CASE CheckBlocks
    <2>1. TypeOK'
      BY <1>4 DEF CheckBlocks, TypeOK, States, Running
    <2>2. ServerStopped'
      BY <1>4 DEF CheckBlocks, TypeOK, ServerStopped, States
    <2>3. RunCancelled'
      BY <1>4 DEF CheckBlocks, TypeOK, RunCancelled, Running
    <2>4. LateSound'
      BY <1>4 DEF CheckBlocks, TypeOK, RunCancelled, LateSound, Running
    <2> QED
      BY <2>1, <2>2, <2>3, <2>4
  <1>5. CASE CheckResumes
    <2>1. TypeOK'
      BY <1>5 DEF CheckResumes, TypeOK, States, Running
    <2>2. ServerStopped'
      BY <1>5 DEF CheckResumes, TypeOK, ServerStopped, States
    <2>3. RunCancelled'
      BY <1>5 DEF CheckResumes, TypeOK, RunCancelled, Running
    <2>4. LateSound'
      BY <1>5 DEF CheckResumes, TypeOK, RunCancelled, LateSound, Running
    <2> QED
      BY <2>1, <2>2, <2>3, <2>4
  <1>6. CASE PublishStep
    <2>1. TypeOK'
      <3>1. run.result \in States /\ run.at \in 1..4
        BY DEF TypeOK
      <3>2. status' \in [ServiceNames -> States]
        BY <1>6, <3>1 DEF PublishStep, SetServingStatus, TypeOK
      <3>3. run' \in [pc : {"none", "spawned", "done"} \cup Running, at : 1..4, result : States]
        <4>1. CASE run.at < Len(Services)
          BY <1>6, <4>1, ChecksLen DEF PublishStep, TypeOK
        <4>2. CASE ~(run.at < Len(Services))
          BY <1>6, <4>2, <3>1 DEF PublishStep, Running
        <4> QED
          BY <4>1, <4>2
      <3> QED
        BY <1>6, <3>2, <3>3 DEF PublishStep, TypeOK
    <2>2. ServerStopped'
      BY <1>6 DEF PublishStep, SetServingStatus, TypeOK, ServerStopped, States
    <2>3. RunCancelled'
      BY <1>6 DEF PublishStep, SetServingStatus, TypeOK, RunCancelled, Running
    <2>4. LateSound'
      BY <1>6 DEF PublishStep, TypeOK, RunCancelled, LateSound, Running
    <2> QED
      BY <2>1, <2>2, <2>3, <2>4
  <1>7. CASE Tick
    <2>1. TypeOK'
      BY <1>7 DEF Tick, BeginCheck, TypeOK, States, Running
    <2>2. ServerStopped'
      BY <1>7 DEF Tick, BeginCheck, TypeOK, ServerStopped, States
    <2>3. RunCancelled'
      BY <1>7 DEF Tick, BeginCheck, TypeOK, RunCancelled, Running
    <2>4. LateSound'
      BY <1>7 DEF Tick, BeginCheck, TypeOK, RunCancelled, LateSound, Running
    <2> QED
      BY <2>1, <2>2, <2>3, <2>4
  <1>8. CASE RunEnds
    <2>1. TypeOK'
      BY <1>8 DEF RunEnds, TypeOK, States, Running
    <2>2. ServerStopped'
      BY <1>8 DEF RunEnds, TypeOK, ServerStopped, States
    <2>3. RunCancelled'
      BY <1>8 DEF RunEnds, TypeOK, RunCancelled, Running
    <2>4. LateSound'
      BY <1>8 DEF RunEnds, TypeOK, RunCancelled, LateSound, Running
    <2> QED
      BY <2>1, <2>2, <2>3, <2>4
  <1>9. ASSUME NEW s \in Stoppers, StopServer(s)
        PROVE  Inv'
    <2>1. TypeOK'
      BY <1>9 DEF StopServer, TypeOK, States, Running
    <2>2. ServerStopped'
      BY <1>9 DEF StopServer, TypeOK, ServerStopped, States
    <2>3. RunCancelled'
      BY <1>9 DEF StopServer, TypeOK, RunCancelled, Running
    <2>4. LateSound'
      BY <1>9 DEF StopServer, TypeOK, RunCancelled, LateSound, Running
    <2> QED
      BY <2>1, <2>2, <2>3, <2>4
  <1>10. ASSUME NEW s \in Stoppers, CancelRun(s)
         PROVE  Inv'
    <2>1. TypeOK'
      BY <1>10 DEF CancelRun, TypeOK, States, Running
    <2>2. ServerStopped'
      BY <1>10 DEF CancelRun, TypeOK, ServerStopped, States
    <2>3. RunCancelled'
      BY <1>10 DEF CancelRun, TypeOK, RunCancelled, Running
    <2>4. LateSound'
      BY <1>10 DEF CancelRun, TypeOK, RunCancelled, LateSound, Running
    <2> QED
      BY <2>1, <2>2, <2>3, <2>4
  <1>11. ASSUME NEW s \in Stoppers, LookStarted(s)
         PROVE  Inv'
    <2>1. TypeOK'
      BY <1>11 DEF LookStarted, TypeOK, States, Running
    <2>2. ServerStopped'
      BY <1>11 DEF LookStarted, TypeOK, ServerStopped, States
    <2>3. RunCancelled'
      BY <1>11 DEF LookStarted, TypeOK, RunCancelled, Running
    <2>4. LateSound'
      BY <1>11 DEF LookStarted, TypeOK, RunCancelled, LateSound, Running
    <2> QED
      BY <2>1, <2>2, <2>3, <2>4
  <1>12. ASSUME NEW s \in Stoppers, PeekDone(s)
         PROVE  Inv'
    <2>1. TypeOK'
      BY <1>12 DEF PeekDone, TypeOK, States, Running
    <2>2. ServerStopped'
      BY <1>12 DEF PeekDone, TypeOK, ServerStopped, States
    <2>3. RunCancelled'
      BY <1>12 DEF PeekDone, TypeOK, RunCancelled, Running
    <2>4. LateSound'
      BY <1>12 DEF PeekDone, TypeOK, RunCancelled, LateSound, Running
    <2> QED
      BY <2>1, <2>2, <2>3, <2>4
  <1>13. ASSUME NEW s \in Stoppers, AwaitDone(s)
         PROVE  Inv'
    <2>1. TypeOK'
      BY <1>13 DEF AwaitDone, TypeOK, States, Running
    <2>2. ServerStopped'
      BY <1>13 DEF AwaitDone, TypeOK, ServerStopped, States
    <2>3. RunCancelled'
      BY <1>13 DEF AwaitDone, TypeOK, RunCancelled, Running
    <2>4. LateSound'
      BY <1>13 DEF AwaitDone, TypeOK, RunCancelled, LateSound, Running
    <2> QED
      BY <2>1, <2>2, <2>3, <2>4
  <1>14. ASSUME NEW s \in Stoppers, Expire(s)
         PROVE  Inv'
    <2>1. TypeOK'
      BY <1>14 DEF Expire, TypeOK, States, Running
    <2>2. ServerStopped'
      BY <1>14 DEF Expire, TypeOK, ServerStopped, States
    <2>3. RunCancelled'
      BY <1>14 DEF Expire, TypeOK, RunCancelled, Running
    <2>4. LateSound'
      BY <1>14 DEF Expire, TypeOK, RunCancelled, LateSound, Running
    <2> QED
      BY <2>1, <2>2, <2>3, <2>4
  <1>15. ASSUME NEW d \in Dependencies, Flip(d)
         PROVE  Inv'
    <2>1. TypeOK'
      BY <1>15 DEF Flip, TypeOK, States, Running
    <2>2. ServerStopped'
      BY <1>15 DEF Flip, TypeOK, ServerStopped, States
    <2>3. RunCancelled'
      BY <1>15 DEF Flip, TypeOK, RunCancelled, Running
    <2>4. LateSound'
      BY <1>15 DEF Flip, TypeOK, RunCancelled, LateSound, Running
    <2> QED
      BY <2>1, <2>2, <2>3, <2>4
  <1>16. CASE UNCHANGED vars
    BY <1>16 DEF vars, TypeOK, ServerStopped, RunCancelled, LateSound
  <1> QED
    BY <1>1, <1>2, <1>3, <1>4, <1>5, <1>6, <1>7, <1>8, <1>9, <1>10, <1>11, <1>12,
       <1>13, <1>14, <1>15, <1>16 DEF Next, RunSteps, Shutdown

\* The inductive invariant holds in every behaviour.
THEOREM Invariance == Spec => []Inv
  BY InitInv, NextInv, PTL DEF Spec

\* The reporter's state keeps its types.
THEOREM ReporterTypes == Spec => []TypeOK
  <1>1. Inv => TypeOK
    BY DEF Inv
  <1> QED
    BY <1>1, Invariance, PTL

\* After a Shutdown that returned nil no readiness check runs, whatever the number of
\* callers and whenever Start is called: the caller may close what the checks use.
THEOREM NoCheckOutlivesShutdown == Spec => []NoCheckAfterShutdown
  <1>1. Inv => NoCheckAfterShutdown
    BY DEF Inv, RunCancelled, NoCheckAfterShutdown
  <1> QED
    BY <1>1, Invariance, PTL

\* From the first step of any Shutdown on, no service reads SERVING.
THEOREM ShutdownEndsServing == Spec => []NotServingAfterShutdown
  <1>1. Inv => NotServingAfterShutdown
    BY DEF Inv, ServerStopped, NotServingAfterShutdown
  <1> QED
    BY <1>1, Invariance, PTL

\* A Shutdown of a run that had ended returns nil, however late its context is.
THEOREM EndedRunIsNoTimeout == Spec => []EndedRunNeverTimesOut
  <1>1. Inv => EndedRunNeverTimesOut
    BY DEF Inv, LateSound, EndedRunNeverTimesOut
  <1> QED
    BY <1>1, Invariance, PTL
=============================================================================
