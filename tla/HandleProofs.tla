---------------------------- MODULE HandleProofs ----------------------------
(***************************************************************************)
(* Theorems about Handle, for every set of server tasks, every number of   *)
(* servers, every bound on connections and every set of signals.           *)
(***************************************************************************)
EXTENDS Handle, TLAPS

(* What each call of the handle holds while it is in progress.             *)
CallInv ==
  /\ call \in {"idle", "build"} => taken = {}
  /\ call \in {"wait_first", "wait_rest", "join"} => server_tasks = {}
  /\ call # "wait_rest" => joined = {}
  /\ call # "idle" => phase = "live"

(* Whoever asks for a stop has told axum before anyone can see it.         *)
StopInv ==
  /\ signal_handler = "done" => soft
  /\ call = "wait_rest" => soft
  /\ call = "join" => hard \/ soft
  /\ \A t \in Task : task[t] \in Draining => soft

IInv == TypeOK /\ CallInv /\ StopInv /\ NoServerLost

USE DEF Finished, Draining, TaskState

(* Before AppConfig::handle nothing runs and nothing was asked to stop.    *)
LEMMA InitInv == Init => IInv
<1>1. Init => TypeOK
  <2>1. Init => FlagsOK
    BY Zenon DEF Init, FlagsOK
  <2>2. Init => DataOK
    BY DEF Init, DataOK
  <2> QED BY <2>1, <2>2 DEF TypeOK
<1>2. Init => CallInv /\ StopInv /\ NoServerLost
  BY DEF Init, CallInv, StopInv, NoServerLost, Live
<1> QED BY <1>1, <1>2 DEF IInv

(* The steps that leave the calls of the handle alone.                     *)
LEMMA EnvStepInv ==
  ASSUME IInv,
         \/ ConnectionEnds \/ RtMetricsStop
         \/ \E s \in Signals : SignalDelivered(s) \/ SignalReceived(s)
         \/ \E t \in Task : \/ TaskStep(t) \/ AcceptFails(t) \/ TaskPanics(t)
                           \/ Accept(t)
  PROVE  IInv'
<1> USE HandleAssumption DEF IInv, apiVars, axumVars, sigVars
<1>1. TypeOK'
  <2>1. FlagsOK'
    BY Zenon DEF TypeOK, FlagsOK, TaskStep, HardStop, SoftStop, Drained, DeadlinePasses, TaskAborted,
           AcceptFails, TaskPanics, Accept, ConnectionEnds, SignalDelivered,
           SignalReceived, RtMetricsStop, TaskGoes
  <2>2. DataOK'
    <3>1. CASE \E t \in Task : TaskStep(t) \/ AcceptFails(t) \/ TaskPanics(t)
      BY <3>1 DEF TypeOK, DataOK, TaskStep, HardStop, SoftStop, Drained,
             DeadlinePasses, TaskAborted, AcceptFails, TaskPanics, TaskGoes
    <3>2. CASE ConnectionEnds \/ \E t \in Task : Accept(t)
      BY <3>2 DEF TypeOK, DataOK, Accept, ConnectionEnds
    <3>3. CASE \E s \in Signals : SignalDelivered(s) \/ SignalReceived(s)
      BY <3>3 DEF TypeOK, DataOK, SignalDelivered, SignalReceived
    <3>4. CASE RtMetricsStop
      BY <3>4 DEF TypeOK, DataOK, RtMetricsStop
    <3> QED BY <3>1, <3>2, <3>3, <3>4
  <2> QED BY <2>1, <2>2 DEF TypeOK
<1>2. CallInv'
  BY DEF CallInv, TaskStep, HardStop, SoftStop, Drained, DeadlinePasses, TaskAborted,
         AcceptFails, TaskPanics, Accept, ConnectionEnds, SignalDelivered,
         SignalReceived, RtMetricsStop, TaskGoes
<1>3. StopInv'
  BY DEF TypeOK, DataOK, StopInv, TaskStep, HardStop, SoftStop, Drained, DeadlinePasses, TaskAborted,
         AcceptFails, TaskPanics, Accept, ConnectionEnds, SignalDelivered,
         SignalReceived, RtMetricsStop, TaskGoes
<1>4. Live' \subseteq Live
  BY DEF TypeOK, DataOK, Live, TaskStep, HardStop, SoftStop, Drained, DeadlinePasses, TaskAborted,
         AcceptFails, TaskPanics, Accept, ConnectionEnds, SignalDelivered,
         SignalReceived, RtMetricsStop, TaskGoes
<1>5. UNCHANGED <<severed, server_tasks, taken, joined>>
  BY DEF TaskStep, HardStop, SoftStop, Drained, DeadlinePasses, TaskAborted,
         AcceptFails, TaskPanics, Accept, ConnectionEnds, SignalDelivered,
         SignalReceived, RtMetricsStop, TaskGoes
<1>6. NoServerLost'
  BY <1>4, <1>5 DEF NoServerLost
<1> QED BY <1>1, <1>2, <1>3, <1>6

(* The steps of the application's calls.                                   *)
LEMMA CallStepInv ==
  ASSUME IInv,
         \/ Application \/ CallStep \/ BuildFailed \/ \E t \in Task : BuildServer(t)
  PROVE  IInv'
<1> USE HandleAssumption DEF IInv, axumVars, sigVars
<1>1. ASSUME NEW m \in Metrics, NEW ok \in BOOLEAN,
             CreateHandle(m, ok)
      PROVE  IInv'
  <2>1. FlagsOK'
    BY <1>1, Zenon DEF CreateHandle, TypeOK, FlagsOK
  <2>2. DataOK' /\ CallInv' /\ StopInv'
    BY <1>1 DEF CreateHandle, TypeOK, DataOK, CallInv, StopInv, Live
  <2>3. NoServerLost'
    BY <1>1 DEF CreateHandle, TypeOK, DataOK, CallInv, NoServerLost, Live
  <2> QED BY <2>1, <2>2, <2>3 DEF TypeOK
<1>2. ASSUME NEW n \in 0..MaxServers, NEW r \in BOOLEAN, NEW g \in Grace,
             StartCall(n, r, g)
      PROVE  IInv'
  <2>1. FlagsOK'
    BY <1>2, Zenon DEF StartCall, prepare, TypeOK, FlagsOK
  <2>2. DataOK' /\ CallInv' /\ StopInv'
    BY <1>2 DEF StartCall, prepare, TypeOK, DataOK, CallInv, StopInv, Live
  <2>3. NoServerLost'
    BY <1>2 DEF StartCall, prepare, TypeOK, DataOK, CallInv, NoServerLost, Live
  <2> QED BY <2>1, <2>2, <2>3 DEF TypeOK
<1>3. ASSUME NEW t \in Task, BuildServer(t)
      PROVE  IInv'
  <2>1. FlagsOK'
    BY <1>3, Zenon DEF BuildServer, TypeOK, FlagsOK
  <2>2. DataOK' /\ CallInv' /\ StopInv'
    BY <1>3 DEF BuildServer, TypeOK, DataOK, CallInv, StopInv, Live
  <2>3. NoServerLost'
    BY <1>3 DEF BuildServer, TypeOK, DataOK, CallInv, NoServerLost, Live
  <2> QED BY <2>1, <2>2, <2>3 DEF TypeOK
<1>4. CASE BuildFailed
  <2>1. FlagsOK'
    BY <1>4, Zenon DEF BuildFailed, Return, TypeOK, FlagsOK
  <2>2. DataOK' /\ CallInv' /\ StopInv'
    BY <1>4 DEF BuildFailed, Return, TypeOK, DataOK, CallInv, StopInv, Live
  <2>3. NoServerLost'
    BY <1>4 DEF BuildFailed, Return, TypeOK, DataOK, CallInv, NoServerLost, Live
  <2> QED BY <2>1, <2>2, <2>3 DEF TypeOK
<1>5. CASE Started
  <2>1. FlagsOK'
    BY <1>5, Zenon DEF Started, EnterWait, TakeTasks, Return, TypeOK, FlagsOK
  <2>2. DataOK' /\ CallInv' /\ StopInv'
    BY <1>5 DEF Started, EnterWait, TakeTasks, Return, TypeOK, DataOK, CallInv, StopInv, Live
  <2>3. NoServerLost'
    BY <1>5 DEF Started, EnterWait, TakeTasks, Return, TypeOK, DataOK, CallInv, NoServerLost, Live
  <2> QED BY <2>1, <2>2, <2>3 DEF TypeOK
<1>6. ASSUME NEW g \in Grace, WaitCall(g)
      PROVE  IInv'
  <2>1. FlagsOK'
    BY <1>6, Zenon DEF WaitCall, EnterWait, TakeTasks, Return, TypeOK, FlagsOK
  <2>2. DataOK' /\ CallInv' /\ StopInv'
    BY <1>6 DEF WaitCall, EnterWait, TakeTasks, Return, TypeOK, DataOK, CallInv, StopInv, Live
  <2>3. NoServerLost'
    BY <1>6 DEF WaitCall, EnterWait, TakeTasks, Return, TypeOK, DataOK, CallInv, NoServerLost, Live
  <2> QED BY <2>1, <2>2, <2>3 DEF TypeOK
<1>7. ASSUME NEW t \in Task, WaitFirst(t)
      PROVE  IInv'
  <2>1. FlagsOK'
    BY <1>7, Zenon DEF WaitFirst, TypeOK, FlagsOK
  <2>2. DataOK' /\ CallInv' /\ StopInv'
    BY <1>7 DEF WaitFirst, TypeOK, DataOK, CallInv, StopInv, Live
  <2>3. NoServerLost'
    BY <1>7 DEF WaitFirst, TypeOK, DataOK, CallInv, NoServerLost, Live
  <2> QED BY <2>1, <2>2, <2>3 DEF TypeOK
<1>8. ASSUME NEW t \in Task, WaitRest(t)
      PROVE  IInv'
  <2>1. FlagsOK'
    BY <1>8, Zenon DEF WaitRest, Return, TypeOK, FlagsOK
  <2>2. DataOK' /\ CallInv' /\ StopInv'
    BY <1>8 DEF WaitRest, Return, TypeOK, DataOK, CallInv, StopInv, Live
  <2>3. NoServerLost'
    BY <1>8 DEF WaitRest, Return, TypeOK, DataOK, CallInv, NoServerLost, Live
  <2> QED BY <2>1, <2>2, <2>3 DEF TypeOK
<1>9. CASE WaitDone
  <2>1. FlagsOK'
    BY <1>9, Zenon DEF WaitDone, Return, TypeOK, FlagsOK
  <2>2. DataOK' /\ CallInv' /\ StopInv'
    BY <1>9 DEF WaitDone, Return, TypeOK, DataOK, CallInv, StopInv, Live
  <2>3. NoServerLost'
    BY <1>9 DEF WaitDone, Return, TypeOK, DataOK, CallInv, NoServerLost, Live
  <2> QED BY <2>1, <2>2, <2>3 DEF TypeOK
<1>10. CASE ShutdownCall
  <2>1. FlagsOK'
    BY <1>10, Zenon DEF ShutdownCall, TakeTasks, TypeOK, FlagsOK
  <2>2. DataOK' /\ CallInv' /\ StopInv'
    BY <1>10 DEF ShutdownCall, TakeTasks, TypeOK, DataOK, CallInv, StopInv, Live
  <2>3. NoServerLost'
    BY <1>10 DEF ShutdownCall, TakeTasks, TypeOK, DataOK, CallInv, NoServerLost, Live
  <2> QED BY <2>1, <2>2, <2>3 DEF TypeOK
<1>11. ASSUME NEW g \in Grace, GracefulShutdownCall(g)
      PROVE  IInv'
  <2>1. FlagsOK'
    BY <1>11, Zenon DEF GracefulShutdownCall, TakeTasks, TypeOK, FlagsOK
  <2>2. DataOK' /\ CallInv' /\ StopInv'
    BY <1>11 DEF GracefulShutdownCall, TakeTasks, TypeOK, DataOK, CallInv, StopInv, Live
  <2>3. NoServerLost'
    BY <1>11 DEF GracefulShutdownCall, TakeTasks, TypeOK, DataOK, CallInv, NoServerLost, Live
  <2> QED BY <2>1, <2>2, <2>3 DEF TypeOK
<1>12. CASE JoinAll
  <2>1. FlagsOK'
    BY <1>12, Zenon DEF JoinAll, Return, TypeOK, FlagsOK
  <2>2. DataOK' /\ CallInv' /\ StopInv'
    BY <1>12 DEF JoinAll, Return, TypeOK, DataOK, CallInv, StopInv, Live
  <2>3. NoServerLost'
    BY <1>12 DEF JoinAll, Return, TypeOK, DataOK, CallInv, NoServerLost, Live
  <2> QED BY <2>1, <2>2, <2>3 DEF TypeOK
<1>13. CASE AbortCall
  <2>1. FlagsOK'
    BY <1>13, Zenon DEF AbortCall, TypeOK, FlagsOK
  <2>2. DataOK' /\ CallInv' /\ StopInv'
    BY <1>13 DEF AbortCall, TypeOK, DataOK, CallInv, StopInv, Live
  <2>3. NoServerLost'
    BY <1>13 DEF AbortCall, TypeOK, DataOK, CallInv, NoServerLost, Live
  <2> QED BY <2>1, <2>2, <2>3 DEF TypeOK
<1>14. CASE CancelCall
  <2>1. FlagsOK'
    BY <1>14, Zenon DEF CancelCall, Return, TypeOK, FlagsOK
  <2>2. DataOK' /\ CallInv' /\ StopInv'
    BY <1>14 DEF CancelCall, Return, TypeOK, DataOK, CallInv, StopInv, Live
  <2>3. NoServerLost'
    BY <1>14 DEF CancelCall, Return, TypeOK, DataOK, CallInv, NoServerLost, Live
  <2> QED BY <2>1, <2>2, <2>3 DEF TypeOK
<1>15. CASE DropHandle
  <2>1. FlagsOK'
    BY <1>15, Zenon DEF DropHandle, TypeOK, FlagsOK
  <2>2. DataOK' /\ CallInv' /\ StopInv'
    BY <1>15 DEF DropHandle, TypeOK, DataOK, CallInv, StopInv, Live
  <2>3. NoServerLost'
    BY <1>15 DEF DropHandle, TypeOK, DataOK, CallInv, NoServerLost, Live
  <2> QED BY <2>1, <2>2, <2>3 DEF TypeOK
<1> QED BY <1>1, <1>2, <1>3, <1>4, <1>5, <1>6, <1>7, <1>8, <1>9, <1>10, <1>11,
           <1>12, <1>13, <1>14, <1>15, Zenon DEF Application, CallStep

(* Every step of the service keeps the inductive invariant.                *)
LEMMA StepInv == IInv /\ [Next]_vars => IInv'
<1> SUFFICES ASSUME IInv, [Next]_vars PROVE IInv'
  OBVIOUS
<1>1. CASE UNCHANGED vars
  BY <1>1 DEF IInv, TypeOK, FlagsOK, DataOK, CallInv, StopInv, NoServerLost, Live,
              vars, apiVars, axumVars, sigVars
<1>2. CASE Application
  BY <1>2, CallStepInv, Zenon
<1>3. CASE Environment
  BY <1>3, CallStepInv, EnvStepInv, Zenon DEF Environment
<1>4. CASE CallStep \/ RtMetricsStop
  BY <1>4, CallStepInv, EnvStepInv, Zenon
<1>5. CASE \E s \in Signals : SignalReceived(s)
  BY <1>5, EnvStepInv, Zenon
<1>6. CASE \E t \in Task : TaskStep(t)
  BY <1>6, EnvStepInv, Zenon
<1> QED BY <1>1, <1>2, <1>3, <1>4, <1>5, <1>6 DEF Next

(* The inductive invariant: what each method of the handle holds at each of *)
(* its awaits, that axum was told before a stop shows, and no task lost.   *)
THEOREM Invariance == Spec => []IInv
<1>1. Init => IInv
  BY InitInv
<1>2. IInv /\ [Next]_vars => IInv'
  BY StepInv
<1> QED BY <1>1, <1>2, PTL DEF Spec

(* Types: every variable of the handle, its signal task and its servers.   *)
THEOREM TypeCorrect == Spec => []TypeOK
BY Invariance, PTL DEF IInv

(* No server task is ever lost from sight by the handle's own methods, a   *)
(* start that fails half-way included.                                     *)
THEOREM NothingLost == Spec => []NoServerLost
BY Invariance, PTL DEF IInv

(* When shutdown() or graceful_shutdown() returns, nothing of the handle   *)
(* runs any more, unless a task was given up before.                       *)
THEOREM StopIsComplete == Spec => StopMeansStopped
<1>1. IInv /\ [Next]_vars =>
        [ (call = "join" /\ call' = "idle" /\ result' # "none" /\ ~severed)
          => Live' = {} ]_vars
  <2> SUFFICES ASSUME IInv, Next, call = "join", call' = "idle",
                      result' # "none", ~severed
               PROVE  Live' = {}
    BY DEF vars
  <2>1. CASE JoinAll
    <3>1. Live \subseteq taken
      BY DEF IInv, CallInv, NoServerLost
    <3>2. Live' = Live /\ Live \cap taken = {}
      BY <2>1 DEF JoinAll, Live, Return
    <3> QED BY <3>1, <3>2
  <2>2. ~CancelCall
    BY DEF CancelCall, Return
  <2>3. JoinAll
    BY <2>2, Zenon DEF Next, Application, Environment, CallStep, TaskStep,
       CreateHandle, StartCall, prepare, WaitCall, GracefulShutdownCall, ShutdownCall,
       AbortCall, DropHandle, BuildFailed, ConnectionEnds, SignalDelivered,
       BuildServer, Accept, AcceptFails, TaskPanics, Started, WaitDone, WaitFirst,
       WaitRest, RtMetricsStop, SignalReceived, HardStop, SoftStop, Drained,
       DeadlinePasses, TaskAborted, TaskGoes, apiVars
  <2> QED BY <2>1, <2>3
<1> QED BY <1>1, Invariance, PTL DEF Spec, StopMeansStopped

-----------------------------------------------------------------------------
(* The steps of the handle as steps of ServiceLife.                        *)
Idle   == {t \in Task : task[t] = "none"}
Exited == {t \in Task : task[t] \in Finished}

(* Whoever asks the service to stop has told the shared axum handle.       *)
LEMMA StopAskedIs == IInv => (StopAsked <=> hard \/ soft)
  BY DEF IInv, StopInv, StopAsked

(* No call, signal or server takes a request to stop back.                 *)
LEMMA StopAskedStays == IInv /\ [Next]_vars => (StopAsked => StopAsked')
<1> SUFFICES ASSUME IInv, [Next]_vars, hard \/ soft
             PROVE  hard' \/ soft'
  BY StopAskedIs DEF StopAsked
<1>1. CASE UNCHANGED vars
  BY <1>1 DEF vars, axumVars
<1>2. CASE Application
  BY <1>2, Zenon DEF Application, CreateHandle, StartCall, prepare, WaitCall,
     GracefulShutdownCall, ShutdownCall, AbortCall, CancelCall, DropHandle, axumVars
<1>3. CASE Environment
  BY <1>3, Zenon DEF Environment, BuildFailed, ConnectionEnds, SignalDelivered,
     BuildServer, Accept, AcceptFails, TaskPanics, axumVars
<1>4. CASE CallStep \/ RtMetricsStop
  BY <1>4, Zenon DEF CallStep, Started, WaitDone, JoinAll, WaitFirst, WaitRest,
     RtMetricsStop, axumVars
<1>5. CASE \E s \in Signals : SignalReceived(s)
  <2> PICK s \in Signals : SignalReceived(s)
    BY <1>5
  <2>1. hard' = hard /\ (soft' = TRUE \/ soft' = soft)
    BY Zenon DEF SignalReceived
  <2> QED BY <2>1, Zenon
<1>6. CASE \E t \in Task : TaskStep(t)
  <2> PICK t \in Task : TaskStep(t)
    BY <1>6
  <2>1. UNCHANGED axumVars \/ hard'
    BY Zenon DEF TaskStep, HardStop, SoftStop, Drained, DeadlinePasses, TaskAborted
  <2> QED BY <2>1 DEF axumVars
<1> QED BY <1>1, <1>2, <1>3, <1>4, <1>5, <1>6 DEF Next

(* No step touches the tasks but spawning one, the exit of one, and moves  *)
(* of live tasks among the live states.                                    *)
TasksKept == Idle' = Idle /\ Live' = Live /\ Exited' = Exited

(* A step of the service moves at most one task: it keeps all of them, or  *)
(* spawns one that never ran, or sees one that ran exit.                   *)
LEMMA TaskMoves ==
  ASSUME IInv, [Next]_vars
  PROVE  \/ TasksKept
         \/ \E t \in Idle : /\ StopAsked' = StopAsked
                           /\ Idle' = Idle \ {t} /\ Live' = Live \cup {t}
                           /\ Exited' = Exited
         \/ \E t \in Live : /\ StopAsked' = StopAsked
                           /\ Idle' = Idle /\ Live' = Live \ {t}
                           /\ Exited' = Exited \cup {t}
<1> USE DEF Idle, Exited, Live, TasksKept
<1> DEFINE Moved(t) == /\ StopAsked' = StopAsked
                       /\ Idle' = Idle /\ Live' = Live \ {t}
                       /\ Exited' = Exited \cup {t}
<1>0. task \in [Task -> TaskState] /\ StopInv /\ StopInv'
  BY StepInv DEF IInv, TypeOK, DataOK
<1>1. CASE UNCHANGED task
  BY <1>1
<1>2. CASE AbortCall
  BY <1>0, <1>2 DEF AbortCall
<1>3. ASSUME NEW t \in Task, BuildServer(t)
      PROVE  /\ t \in Idle /\ StopAsked' = StopAsked
             /\ Idle' = Idle \ {t} /\ Live' = Live \cup {t} /\ Exited' = Exited
  BY <1>0, <1>3 DEF BuildServer, StopAsked, axumVars, sigVars
<1>4. ASSUME NEW t \in Task, TaskStep(t) \/ AcceptFails(t) \/ TaskPanics(t)
      PROVE  TasksKept \/ (t \in Live /\ Moved(t))
  <2>1. PICK u \in {"drain_bounded", "drain_none"} \cup Finished :
          task' = [task EXCEPT ![t] = u] /\ t \in Live
    BY <1>0, <1>4 DEF TaskStep, HardStop, SoftStop, Drained, DeadlinePasses,
       TaskAborted, AcceptFails, TaskPanics, TaskGoes
  <2>2. StopAsked' = StopAsked
    BY <1>0, <1>4 DEF TaskStep, HardStop, SoftStop, Drained, DeadlinePasses,
       TaskAborted, AcceptFails, TaskPanics, TaskGoes, StopAsked, StopInv, axumVars,
       apiVars, sigVars
  <2>3. CASE u \in Draining
    BY <1>0, <2>1, <2>3
  <2>4. CASE u \in Finished
    BY <1>0, <2>1, <2>2, <2>4
  <2> QED BY <2>1, <2>3, <2>4
<1>5. \/ UNCHANGED task \/ AbortCall
      \/ \E t \in Task : BuildServer(t) \/ TaskStep(t) \/ AcceptFails(t) \/ TaskPanics(t)
  BY Zenon DEF Next, Application, Environment, CallStep, CreateHandle, StartCall, prepare,
     WaitCall, GracefulShutdownCall, ShutdownCall, CancelCall, DropHandle,
     BuildFailed, ConnectionEnds, SignalDelivered, Accept, Started, WaitDone,
     JoinAll, WaitFirst, WaitRest, RtMetricsStop, SignalReceived, vars
<1> QED BY <1>1, <1>2, <1>3, <1>4, <1>5, Zenon

(* The handle implements ServiceLife: no server is lost, runs twice or     *)
(* comes back, and a request to stop is never taken back.                  *)
THEOREM Refinement == Spec => LifeSpec
<1>1. Init => Life!Init
  BY DEF Init, Life!Init, Live, StopAsked
<1>2. IInv /\ [Next]_vars => [Life!Next]_(Life!lifeVars)
  <2> SUFFICES ASSUME IInv, [Next]_vars PROVE [Life!Next]_(Life!lifeVars)
    OBVIOUS
  <2>1. StopAsked \in BOOLEAN /\ StopAsked' \in BOOLEAN
    BY DEF StopAsked
  <2>2. StopAsked => StopAsked'
    BY StopAskedStays
  <2>3. \A t \in Idle \cup Live : t \in Task
    BY DEF Idle, Live
  <2> QED BY TaskMoves, <2>1, <2>2, <2>3 DEF TasksKept, Idle, Exited,
             Life!Next, Life!Stop, Life!Launch, Life!Exit, Life!lifeVars
<1> QED BY <1>1, <1>2, Invariance, PTL DEF Spec, LifeSpec, Life!Spec

-----------------------------------------------------------------------------
(* wait() reports success only while every exit it has seen was no panic.  *)
PanicInv ==
  /\ call = "wait_rest" /\ first = "ok" =>
       \A t \in joined : task[t] \in {"ok", "err"}
  /\ call \in {"wait_first", "wait_rest", "join"} => result = "none"

(* A server task that has exited never changes again.                      *)
LEMMA ExitIsFinal ==
  ASSUME IInv, [Next]_vars
  PROVE  \A t \in Task : task[t] \in Finished => task'[t] = task[t]
<1>0. task \in [Task -> TaskState]
  BY DEF IInv, TypeOK, DataOK
<1>1. CASE UNCHANGED task
  BY <1>1
<1>2. CASE AbortCall
  BY <1>0, <1>2 DEF AbortCall, Live
<1>3. CASE \E t \in Task : BuildServer(t)
  BY <1>0, <1>3 DEF BuildServer
<1>4. CASE \E t \in Task : TaskStep(t) \/ AcceptFails(t) \/ TaskPanics(t)
  BY <1>0, <1>4 DEF TaskStep, HardStop, SoftStop, Drained, DeadlinePasses,
     TaskAborted, AcceptFails, TaskPanics, TaskGoes
<1>5. \/ UNCHANGED task \/ AbortCall
      \/ \E t \in Task : BuildServer(t) \/ TaskStep(t) \/ AcceptFails(t) \/ TaskPanics(t)
  BY Zenon DEF Next, Application, Environment, CallStep, CreateHandle, StartCall, prepare,
     WaitCall, GracefulShutdownCall, ShutdownCall, CancelCall, DropHandle,
     BuildFailed, ConnectionEnds, SignalDelivered, Accept, Started, WaitDone,
     JoinAll, WaitFirst, WaitRest, RtMetricsStop, SignalReceived, vars
<1> QED BY <1>1, <1>2, <1>3, <1>4, <1>5

(* Only wait's own steps change what it has seen.                          *)
LEMMA WaitMoves ==
  ASSUME IInv, [Next]_vars
  PROVE  \/ UNCHANGED <<call, joined, first, result>>
         \/ call' \in {"idle", "build"}
         \/ call' \in {"wait_first", "join"} /\ result' = "none"
         \/ \E t \in Task : WaitFirst(t) \/ WaitRest(t)
<1>1. CASE Application
  <2>1. CASE AbortCall \/ \E m \in Metrics, ok \in BOOLEAN : CreateHandle(m, ok)
    BY <2>1 DEF AbortCall, CreateHandle, IInv, CallInv, TypeOK, DataOK
  <2>2. CASE \E n \in 0..MaxServers, r \in BOOLEAN, g \in Grace : StartCall(n, r, g)
    <3> PICK n \in 0..MaxServers, r \in BOOLEAN, g \in Grace : StartCall(n, r, g)
      BY <2>2
    <3>1. call' \in {"idle", "build"}
      BY DEF StartCall, prepare
    <3> QED BY <3>1
  <2>3. CASE CancelCall \/ DropHandle
    BY <2>3 DEF CancelCall, DropHandle, Return
  <2>4. CASE ShutdownCall \/ \E g \in Grace : WaitCall(g) \/ GracefulShutdownCall(g)
    BY <2>4 DEF ShutdownCall, WaitCall, GracefulShutdownCall, EnterWait, TakeTasks, Return
  <2> QED BY <1>1, <2>1, <2>2, <2>3, <2>4 DEF Application
<1>2. CASE Environment \/ RtMetricsStop \/ \E s \in Signals : SignalReceived(s)
  BY <1>2 DEF Environment, BuildFailed, ConnectionEnds, SignalDelivered, BuildServer,
     Accept, AcceptFails, TaskPanics, TaskGoes, RtMetricsStop, SignalReceived,
     Return, apiVars
<1>3. CASE CallStep
  BY <1>3 DEF CallStep, Started, WaitDone, JoinAll, EnterWait, TakeTasks, Return
<1>4. CASE \E t \in Task : TaskStep(t)
  BY <1>4 DEF TaskStep, HardStop, SoftStop, Drained, DeadlinePasses, TaskAborted,
     TaskGoes, apiVars
<1>5. CASE UNCHANGED vars
  BY <1>5 DEF vars, apiVars
<1> QED BY <1>1, <1>2, <1>3, <1>4, <1>5 DEF Next

LEMMA PanicKept ==
  ASSUME IInv, PanicInv, [Next]_vars
  PROVE  PanicInv'
<1>0. joined \subseteq Task /\ task \in [Task -> TaskState]
  BY DEF IInv, TypeOK, DataOK
<1>1. CASE UNCHANGED <<call, joined, first, result>>
  BY <1>0, <1>1, ExitIsFinal DEF PanicInv
<1>2. CASE \/ call' \in {"idle", "build"}
           \/ call' \in {"wait_first", "join"} /\ result' = "none"
  BY <1>2 DEF PanicInv
<1>3. CASE \E t \in Task : WaitFirst(t)
  BY <1>3 DEF PanicInv, WaitFirst
<1>4. CASE \E t \in Task : WaitRest(t)
  <2> PICK t \in Task : WaitRest(t)
    BY <1>4
  <2>1. CASE task[t] \in {"ok", "err"}
    <3>1. joined' = joined \cup {t} /\ UNCHANGED <<call, first, result, task>>
      BY <2>1 DEF WaitRest
    <3> QED BY <2>1, <3>1 DEF PanicInv
  <2>2. CASE task[t] \notin {"ok", "err"}
    BY <2>2 DEF PanicInv, WaitRest, Return
  <2> QED BY <2>1, <2>2
<1>5. \/ UNCHANGED <<call, joined, first, result>>
      \/ call' \in {"idle", "build"}
      \/ call' \in {"wait_first", "join"} /\ result' = "none"
      \/ \E t \in Task : WaitFirst(t) \/ WaitRest(t)
  BY WaitMoves, Zenon
<1> QED BY <1>1, <1>2, <1>3, <1>4, <1>5

(* Of any number of servers, none whose task panicked or was aborted is    *)
(* hidden by wait, shutdown or graceful_shutdown reporting success.        *)
THEOREM PanicsShow == Spec => PanicNeverHidden
<1>1. Init => PanicInv
  BY DEF Init, PanicInv
<1>2. IInv /\ PanicInv /\ [Next]_vars
        => ((call \in {"join", "wait_rest"} /\ result' = "ok")
              => \A t \in taken : task[t] \notin {"panicked", "aborted"})
  <2> SUFFICES ASSUME IInv, PanicInv, [Next]_vars,
                      call \in {"join", "wait_rest"}, result' = "ok"
               PROVE  \A t \in taken : task[t] \notin {"panicked", "aborted"}
    OBVIOUS
  <2>1. CASE WaitDone
    BY <2>1 DEF WaitDone, Return, PanicInv
  <2>2. CASE JoinAll
    BY <2>2 DEF JoinAll, Return
  <2>3. CASE UNCHANGED result \/ result' \in {"none", "err"}
    BY <2>3 DEF PanicInv
  <2>4. WaitDone \/ JoinAll \/ UNCHANGED result \/ result' \in {"none", "err"}
    <3>1. phase = "live" /\ call # "idle" /\ call # "build"
      BY DEF IInv, CallInv
    <3> QED BY <3>1, Zenon DEF Next, Application, Environment, CallStep, TaskStep,
         CreateHandle, StartCall, prepare, WaitCall, GracefulShutdownCall, ShutdownCall,
         AbortCall, CancelCall, DropHandle, BuildFailed, ConnectionEnds,
         SignalDelivered, BuildServer, Accept, AcceptFails, TaskPanics, Started,
         WaitFirst, WaitRest, RtMetricsStop, SignalReceived, HardStop, SoftStop,
         Drained, DeadlinePasses, TaskAborted, TaskGoes, Return, apiVars, vars
  <2> QED BY <2>1, <2>2, <2>3, <2>4
<1> QED BY <1>1, <1>2, PanicKept, Invariance, PTL DEF Spec, PanicNeverHidden
=============================================================================
