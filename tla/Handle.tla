------------------------------- MODULE Handle -------------------------------
(***************************************************************************)
(* The life of a uxum service: the `Handle` of src/handle.rs, the UNIX     *)
(* signal task of src/signal.rs, the server tasks the handle spawns, the   *)
(* notifications to the service supervisor of src/notify.rs, and the task  *)
(* that records runtime metrics.                                           *)
(*                                                                         *)
(* Four kinds of process interleave.  The application calls the methods of *)
(* the handle; they take `&mut self`, so one call is in progress at a time *)
(* (variable `call`), but its future may be dropped at any await point.    *)
(* The server tasks run axum_server's accept loop (external: modelled by   *)
(* what the handle asks of it).  The signal task waits for signals.  The   *)
(* environment opens and closes connections and delivers signals.          *)
(***************************************************************************)
EXTENDS Naturals

CONSTANTS
  Task,        \* identities of the server tasks ever spawned
  MaxServers,  \* most servers a call of start is given
  MaxConns,    \* bound on the connections open at one time
  Signals,     \* the signals the environment delivers
  Grace,       \* the durations callers pass: "bounded" is Some(d), "none" None
  Metrics      \* whether metrics may be configured: TRUE, FALSE or both

(* The signals SignalStream registers, and those that stop the service.    *)
AllSignals == {"TERM", "INT", "QUIT", "HUP", "USR1", "USR2"}
(* Mutant: SIGTERM is not treated as a shutdown signal.                    *)
is_shutdown_NoTerm(s) == s \in {"INT", "QUIT"}
is_shutdown(s) == s \in {"TERM", "INT", "QUIT"}

ASSUME HandleAssumption ==
  /\ MaxServers \in Nat
  /\ MaxConns \in Nat
  /\ Signals \subseteq AllSignals
  /\ Grace \subseteq {"none", "bounded"}
  /\ Metrics \subseteq BOOLEAN

VARIABLES
  phase,         \* "config" before AppConfig::handle, "live", "dropped"
  call,          \* the handle's method in progress and where it awaits
  run,           \* the call is run(): wait follows start
  todo,          \* servers the start in progress still has to build
  graceful,      \* the `graceful` argument of the wait in progress
  server_tasks,  \* Handle::server_tasks
  taken,         \* the tasks the call in progress took out of server_tasks
  joined,        \* those of `taken` whose exit it has seen
  first,         \* wait: how the first server exited
  result,        \* what the last finished call returned
  severed,       \* history: a call was dropped, aborted, or left on a JoinError
  task,          \* state of each server task
  hard, soft,    \* AxumHandle: shutdown() / graceful_shutdown() was called
  deadline,      \* AxumHandle: duration of the latest graceful_shutdown()
  conns,         \* open connections, counted over all servers of the handle
  signal_handler,\* "absent", "listening" or "done"
  pending,       \* signals delivered and not yet received
  unit,          \* what the supervisor was last told: "none", "ready", "stopping"
  rt_metrics     \* the runtime metrics task: "absent", "running", "stopped"

apiVars  == <<phase, call, run, todo, graceful, server_tasks, taken, joined,
              first, result, severed>>
axumVars == <<hard, soft, deadline, conns>>
sigVars  == <<signal_handler, pending>>
vars     == <<apiVars, task, axumVars, sigVars, unit, rt_metrics>>

Finished == {"ok", "err", "panicked", "aborted"}
Draining == {"drain_bounded", "drain_none"}
Live     == {t \in Task : task[t] \notin Finished \cup {"none"}}

-----------------------------------------------------------------------------
Init ==
  /\ phase = "config" /\ call = "idle" /\ run = FALSE /\ todo = 0
  /\ graceful = "none" /\ server_tasks = {} /\ taken = {} /\ joined = {}
  /\ first = "none" /\ result = "none" /\ severed = FALSE
  /\ task = [t \in Task |-> "none"]
  /\ hard = FALSE /\ soft = FALSE /\ deadline = "none" /\ conns = 0
  /\ signal_handler = "absent" /\ pending = {}
  /\ unit = "none" /\ rt_metrics = "absent"

(* The call in progress is over: control goes back to the application.     *)
Return(r) ==
  /\ call' = "idle" /\ result' = r
  /\ taken' = {} /\ joined' = {} /\ first' = "none" /\ run' = FALSE /\ todo' = 0

(* std::mem::take(&mut self.server_tasks), then await them at `pc`.        *)
TakeTasks(pc) ==
  /\ taken' = server_tasks /\ joined' = {} /\ server_tasks' = {}
  /\ call' = pc /\ result' = "none" /\ first' = "none"

(* AppConfig::handle: the metrics task is spawned first; then logging or   *)
(* tracing may fail, and the error leaves that task running: the token is  *)
(* dropped, not cancelled, and no Handle exists that could cancel it.      *)
CreateHandle(metrics, ok) ==
  /\ phase = "config" /\ rt_metrics = "absent"
  /\ rt_metrics' = IF metrics THEN "running" ELSE "absent"
  /\ phase' = IF ok THEN "live" ELSE "config"
  /\ result' = IF ok THEN "ok" ELSE "err"
  /\ UNCHANGED <<call, run, todo, graceful, server_tasks, taken, joined, first,
                 severed, task, axumVars, sigVars, unit>>

(* The signal listeners are registered once, which may fail.  (The task    *)
(* that pings the supervisor is spawned here too, and never ends.)         *)
prepare(ok) ==
  /\ ok \/ signal_handler = "absent"
  /\ signal_handler' = IF ok /\ signal_handler = "absent" THEN "listening"
                                                         ELSE signal_handler

(* Mutant: the loop over the servers is off by one.                        *)
StartCall_OffByOne(n, r, g) ==
  /\ phase = "live" /\ call = "idle"
  /\ call' = "build" /\ run' = r /\ todo' = n - 1
  /\ graceful' = g /\ result' = "none" /\ prepare(TRUE)
  /\ UNCHANGED <<phase, server_tasks, taken, joined, first, severed, task,
                 axumVars, pending, unit, rt_metrics>>

(* start / run: no server is built when prepare() fails.                   *)
StartCall(n, r, g) ==
  /\ phase = "live" /\ call = "idle"
  /\ \/ /\ prepare(TRUE)
        /\ call' = "build" /\ run' = r /\ todo' = n
        /\ graceful' = IF r THEN g ELSE graceful
        /\ result' = "none"
     \/ /\ prepare(FALSE) /\ result' = "err"
        /\ UNCHANGED <<call, run, todo, graceful>>
  /\ UNCHANGED <<phase, server_tasks, taken, joined, first, severed, task,
                 axumVars, pending, unit, rt_metrics>>

(* Mutant: the spawned task is not pushed to server_tasks.                 *)
BuildServer_NotPushed(t) ==
  /\ call = "build" /\ todo > 0 /\ task[t] = "none"
  /\ task' = [task EXCEPT ![t] = "serving"]
  /\ todo' = todo - 1
  /\ UNCHANGED <<phase, call, run, graceful, server_tasks, taken, joined, first,
                 result, severed, axumVars, sigVars, unit, rt_metrics>>

(* start_server: the built server is spawned on the shared AxumHandle.     *)
BuildServer(t) ==
  /\ call = "build" /\ todo > 0 /\ task[t] = "none"
  /\ task' = [task EXCEPT ![t] = "serving"]
  /\ server_tasks' = server_tasks \cup {t}
  /\ todo' = todo - 1
  /\ UNCHANGED <<phase, call, run, graceful, taken, joined, first, result,
                 severed, axumVars, sigVars, unit, rt_metrics>>

(* start_server fails to build (resolve, bind, listen, TLS, ...): start    *)
(* returns the error; the servers already spawned stay in server_tasks.    *)
BuildFailed ==
  /\ call = "build" /\ todo > 0
  /\ Return("err")
  /\ UNCHANGED <<phase, graceful, server_tasks, severed, task, axumVars,
                 sigVars, unit, rt_metrics>>

(* wait: without server tasks there is nothing to wait for.                *)
EnterWait ==
  \/ /\ server_tasks = {} /\ Return("not_running") /\ UNCHANGED server_tasks
  \/ /\ server_tasks # {} /\ TakeTasks("wait_first")
     /\ run' = FALSE /\ todo' = 0

(* All servers are spawned: on_ready(); run() goes on into wait().         *)
Started ==
  /\ call = "build" /\ todo = 0
  /\ unit' = "ready"
  /\ \/ run /\ EnterWait
     \/ ~run /\ Return("ok") /\ UNCHANGED server_tasks
  /\ UNCHANGED <<phase, graceful, severed, task, axumVars, sigVars, rt_metrics>>

WaitCall(g) ==
  /\ phase = "live" /\ call = "idle"
  /\ graceful' = g
  /\ EnterWait
  /\ UNCHANGED <<phase, severed, task, axumVars, sigVars, unit, rt_metrics>>

(* Mutant: the other servers are not told to stop.                         *)
WaitFirst_NoGraceful(t) ==
  /\ call = "wait_first" /\ t \in taken /\ task[t] \in Finished
  /\ joined' = {t} /\ first' = task[t] /\ call' = "wait_rest"
  /\ UNCHANGED <<phase, run, todo, graceful, server_tasks, taken, result,
                 severed, task, axumVars, sigVars, unit, rt_metrics>>

(* The first of the tasks exits: the others are told to stop gracefully.   *)
WaitFirst(t) ==
  /\ call = "wait_first" /\ t \in taken /\ task[t] \in Finished
  /\ joined' = {t} /\ first' = task[t] /\ call' = "wait_rest"
  /\ soft' = TRUE /\ deadline' = graceful
  /\ UNCHANGED <<phase, run, todo, graceful, server_tasks, taken, result,
                 severed, task, hard, conns, sigVars, unit, rt_metrics>>

(* Another task exits.  Its own error is dropped (`let _ =`); a JoinError  *)
(* is returned at once, which leaves the tasks not seen yet to themselves. *)
WaitRest(t) ==
  /\ call = "wait_rest" /\ t \in taken \ joined
  /\ \/ /\ task[t] \in {"ok", "err"}
        /\ joined' = joined \cup {t}
        /\ UNCHANGED <<call, run, todo, taken, first, result, severed>>
     \/ /\ task[t] \in {"panicked", "aborted"}
        /\ Return("err") /\ severed' = TRUE
  /\ UNCHANGED <<phase, graceful, server_tasks, task, axumVars, sigVars, unit,
                 rt_metrics>>

(* All tasks were seen: wait returns how the first one exited.             *)
WaitDone ==
  /\ call = "wait_rest" /\ taken = joined
  /\ Return(IF first = "ok" THEN "ok" ELSE "err")
  /\ UNCHANGED <<phase, graceful, server_tasks, severed, task, axumVars,
                 sigVars, unit, rt_metrics>>

(* shutdown / graceful_shutdown: notify, signal axum, take, join_all.      *)
ShutdownCall ==
  /\ phase = "live" /\ call = "idle"
  /\ unit' = "stopping" /\ hard' = TRUE /\ TakeTasks("join")
  /\ UNCHANGED <<phase, run, todo, graceful, severed, task, soft, deadline,
                 conns, sigVars, rt_metrics>>

GracefulShutdownCall(g) ==
  /\ phase = "live" /\ call = "idle"
  /\ unit' = "stopping" /\ soft' = TRUE /\ deadline' = g /\ TakeTasks("join")
  /\ UNCHANGED <<phase, run, todo, graceful, severed, task, hard, conns,
                 sigVars, rt_metrics>>

(* Mutants: only the first exit is awaited; a JoinError is overlooked.     *)
JoinAll_First ==
  /\ call = "join" /\ (taken = {} \/ \E t \in taken : task[t] \in Finished)
  /\ Return("ok")
  /\ UNCHANGED <<phase, graceful, server_tasks, severed, task, axumVars,
                 sigVars, unit, rt_metrics>>

JoinAll_NoJoinError ==
  /\ call = "join" /\ \A t \in taken : task[t] \in Finished
  /\ Return(IF \E t \in taken : task[t] = "err" THEN "err" ELSE "ok")
  /\ UNCHANGED <<phase, graceful, server_tasks, severed, task, axumVars,
                 sigVars, unit, rt_metrics>>

JoinAll ==
  /\ call = "join" /\ \A t \in taken : task[t] \in Finished
  /\ Return(IF \E t \in taken : task[t] # "ok" THEN "err" ELSE "ok")
  /\ UNCHANGED <<phase, graceful, server_tasks, severed, task, axumVars,
                 sigVars, unit, rt_metrics>>

(* abort: asks the runtime to cancel every task, and does not wait.  The   *)
(* axum handle is not told: open connections are left alone.               *)
AbortCall ==
  /\ phase = "live" /\ call = "idle"
  /\ unit' = "stopping"
  /\ task' = [t \in Task |-> IF t \in server_tasks \cap Live THEN "aborting"
                                                             ELSE task[t]]
  /\ server_tasks' = {} /\ result' = "none"
  /\ severed' = (severed \/ server_tasks # {})
  /\ UNCHANGED <<phase, call, run, todo, graceful, taken, joined, first,
                 axumVars, sigVars, rt_metrics>>

(* The application drops the future of a call that awaits.  Join handles   *)
(* the call held are dropped with it; the tasks behind them go on.         *)
CancelCall ==
  /\ call # "idle"
  /\ Return("none")
  /\ severed' = (severed \/ taken # joined)
  /\ UNCHANGED <<phase, graceful, server_tasks, task, axumVars, sigVars, unit,
                 rt_metrics>>

(* Drop for Handle: cancels the token; server tasks and signal task go on. *)
DropHandle ==
  /\ phase = "live" /\ call = "idle"
  /\ phase' = "dropped" /\ server_tasks' = {}
  /\ severed' = (severed \/ server_tasks # {})
  /\ UNCHANGED <<call, run, todo, graceful, taken, joined, first, result, task,
                 axumVars, sigVars, unit, rt_metrics>>

-----------------------------------------------------------------------------
(* gather_runtime_metrics: leaves its loop once the token is cancelled.    *)
RtMetricsStop ==
  /\ phase = "dropped" /\ rt_metrics = "running"
  /\ rt_metrics' = "stopped"
  /\ UNCHANGED <<apiVars, task, axumVars, sigVars, unit>>

(* The signal task: the first shutdown signal starts a graceful shutdown   *)
(* of five seconds and ends the task; other signals are ignored.           *)
SignalReceived(s) ==
  /\ signal_handler = "listening" /\ s \in pending
  /\ pending' = pending \ {s}
  /\ IF is_shutdown(s)
     THEN soft' = TRUE /\ deadline' = "bounded" /\ signal_handler' = "done"
     ELSE UNCHANGED <<soft, deadline, signal_handler>>
  /\ UNCHANGED <<apiVars, task, hard, conns, unit, rt_metrics>>

(* A signal arrives once listeners exist; unreceived ones coalesce.        *)
SignalDelivered(s) ==
  /\ signal_handler # "absent" /\ s \notin pending
  /\ pending' = pending \cup {s}
  /\ UNCHANGED <<apiVars, task, axumVars, signal_handler, unit, rt_metrics>>

-----------------------------------------------------------------------------
(* External: axum_server's serve() under the shared AxumHandle.            *)
TaskGoes(t, s) ==
  /\ task' = [task EXCEPT ![t] = s]
  /\ UNCHANGED <<apiVars, sigVars, unit, rt_metrics>>

Accept(t) ==
  /\ task[t] = "serving" /\ conns < MaxConns
  /\ conns' = conns + 1
  /\ UNCHANGED <<apiVars, task, hard, soft, deadline, sigVars, unit, rt_metrics>>

ConnectionEnds ==
  /\ conns > 0 /\ conns' = conns - 1
  /\ UNCHANGED <<apiVars, task, hard, soft, deadline, sigVars, unit, rt_metrics>>

HardStop(t) ==
  /\ task[t] = "serving" /\ hard
  /\ TaskGoes(t, "ok") /\ UNCHANGED axumVars

(* The accept loop ends; the task then waits for open connections, with    *)
(* the deadline it finds at that moment.                                   *)
SoftStop(t) ==
  /\ task[t] = "serving" /\ soft
  /\ TaskGoes(t, IF conns = 0 THEN "ok"
                 ELSE IF deadline = "bounded" THEN "drain_bounded"
                 ELSE "drain_none")
  /\ UNCHANGED axumVars

Drained(t) ==
  /\ task[t] \in Draining /\ conns = 0
  /\ TaskGoes(t, "ok") /\ UNCHANGED axumVars

(* The deadline of a draining server closes every connection.              *)
DeadlinePasses(t) ==
  /\ task[t] = "drain_bounded"
  /\ hard' = TRUE
  /\ TaskGoes(t, "ok") /\ UNCHANGED <<soft, deadline, conns>>

AcceptFails(t)  == task[t] = "serving" /\ TaskGoes(t, "err") /\ UNCHANGED axumVars
TaskPanics(t)   == /\ task[t] \in {"serving"} \cup Draining
                   /\ TaskGoes(t, "panicked") /\ UNCHANGED axumVars
TaskAborted(t)  == task[t] = "aborting" /\ TaskGoes(t, "aborted") /\ UNCHANGED axumVars

-----------------------------------------------------------------------------
(* What the handle, the signal task and the runtime do of their own        *)
(* accord, against what the application and the environment may choose.    *)
CallStep     == Started \/ WaitDone \/ JoinAll
                \/ \E t \in Task : WaitFirst(t) \/ WaitRest(t)
TaskStep(t)  == HardStop(t) \/ SoftStop(t) \/ Drained(t) \/ DeadlinePasses(t)
                \/ TaskAborted(t)

Application ==
  \/ \E m \in Metrics, ok \in BOOLEAN : CreateHandle(m, ok)
  \/ \E n \in 0..MaxServers, r \in BOOLEAN, g \in Grace :
       StartCall(n, r, g)
  \/ \E g \in Grace : WaitCall(g) \/ GracefulShutdownCall(g)
  \/ ShutdownCall \/ AbortCall \/ CancelCall \/ DropHandle

Environment ==
  \/ BuildFailed \/ ConnectionEnds
  \/ \E s \in Signals : SignalDelivered(s)
  \/ \E t \in Task : BuildServer(t) \/ Accept(t) \/ AcceptFails(t) \/ TaskPanics(t)

Next ==
  \/ Application
  \/ Environment
  \/ CallStep \/ RtMetricsStop
  \/ \E s \in Signals : SignalReceived(s)
  \/ \E t \in Task : TaskStep(t)

(* The runtime polls every woken task, timers fire, and connections that   *)
(* axum has told to stop go away.                                          *)
Fairness ==
  /\ WF_vars(CallStep) /\ WF_vars(RtMetricsStop)
  /\ \A s \in Signals : WF_vars(SignalReceived(s))
  /\ \A t \in Task : WF_vars(TaskStep(t))
  /\ WF_vars(hard /\ ConnectionEnds)

Spec     == Init /\ [][Next]_vars
FairSpec == Spec /\ Fairness
-----------------------------------------------------------------------------
TaskState == {"none", "serving", "aborting"} \cup Draining \cup Finished

FlagsOK == /\ run \in BOOLEAN /\ severed \in BOOLEAN
           /\ hard \in BOOLEAN /\ soft \in BOOLEAN

DataOK ==
  /\ phase \in {"config", "live", "dropped"}
  /\ call \in {"idle", "build", "wait_first", "wait_rest", "join"}
  /\ todo \in Nat /\ graceful \in {"none", "bounded"}
  /\ server_tasks \subseteq Task /\ taken \subseteq Task /\ joined \subseteq taken
  /\ first \in Finished \cup {"none"}
  /\ result \in {"none", "ok", "err", "not_running"}
  /\ task \in [Task -> TaskState]
  /\ deadline \in {"none", "bounded"} /\ conns \in Nat
  /\ signal_handler \in {"absent", "listening", "done"}
  /\ pending \subseteq AllSignals
  /\ unit \in {"none", "ready", "stopping"}
  /\ rt_metrics \in {"absent", "running", "stopped"}

(* Every variable keeps its type; a call has joined only tasks it took.    *)
TypeOK == FlagsOK /\ DataOK

(* A server task that still runs is known to the handle: it is in          *)
(* server_tasks or is being awaited.  Only dropping a call or the handle,  *)
(* abort(), and the early return of wait() on a JoinError give up tasks;   *)
(* a failed start() in particular does not.                                *)
NoServerLost ==
  ~severed => Live \subseteq server_tasks \cup (taken \ joined)

(* When shutdown() or graceful_shutdown() returns and no task was given up *)
(* earlier, no server of this handle runs any more, whatever sequence of   *)
(* starts, failed starts and waits came before.                            *)
StopMeansStopped ==
  [][ (call = "join" /\ call' = "idle" /\ result' # "none" /\ ~severed)
      => Live' = {} ]_vars

(* A panic of a server task is never hidden: no method that awaited the    *)
(* task reports success.                                                   *)
PanicNeverHidden ==
  [][ (call \in {"join", "wait_rest"} /\ result' = "ok")
      => \A t \in taken : task[t] \notin {"panicked", "aborted"} ]_vars

(* The documentation of wait and run: Err if one of the server tasks       *)
(* finished with an error.                                                 *)
WaitReportsServerErrors ==
  [][ (call = "wait_rest" /\ result' = "ok") => \A t \in taken : task[t] = "ok" ]_vars

(* A stop was asked for: by shutdown, graceful_shutdown, the signal task,  *)
(* or wait() seeing the first server exit.                                 *)
StopAsked == \/ hard \/ soft
             \/ signal_handler = "done"
             \/ call \in {"wait_rest", "join"}

(* A shutdown signal delivered to the running service makes wait() return. *)
SignalEndsWait ==
  (call = "wait_first" /\ signal_handler = "listening" /\ "TERM" \in pending)
    ~> (call = "idle")

(* The handle keeps what ServiceLife promises: no server task is lost,     *)
(* restarted or revived, a stop is never taken back, and after one all the *)
(* servers end, those that a later start of the same handle spawns too.    *)
Life == INSTANCE ServiceLife WITH
          idle     <- {t \in Task : task[t] = "none"},
          running  <- Live,
          exited   <- {t \in Task : task[t] \in Finished},
          stopping <- StopAsked
ImplementsLife == Life!FairSpec
LifeSpec       == Life!Spec
=============================================================================
