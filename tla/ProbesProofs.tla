---------------------------- MODULE ProbesProofs ----------------------------
(***************************************************************************)
(* Theorems about Probes, for any clients, any interval and timeout of the *)
(* watchdog, and without a bound on how long the runtime stalls.           *)
(***************************************************************************)
EXTENDS Probes, TLAPS

ProbesOK ==
  /\ now \in Nat /\ in_maintenance \in BOOLEAN
  /\ watchdog \in {"off", "running", "aborted"}
  /\ probe \in [Client -> Answers \cup Asking \cup {"none"}]

(* How the watchdog's clock readings hang together: what it stored is when *)
(* its tick was due, `late` before it ran, and the next tick is due an     *)
(* interval after it ran.                                                  *)
WatchOK ==
  IF ran = None THEN timer = None /\ last = None /\ late = 0
  ELSE /\ watchdog # "off"
       /\ ran \in 0..now /\ late \in Nat
       /\ timer = ran + interval
       /\ last = ran - late

(* A client in `mute` met maintenance mode, which is still on: its         *)
(* readiness probe did not and will not get as far as the application.     *)
MuteOK ==
  \A c \in Client : c \in mute =>
    in_maintenance /\ probe[c] \notin {"app_ready", "ready"}

IInv == ProbesOK /\ WatchOK /\ MuteOK

USE ProbesAssumption

(* Initially nobody has asked and the watchdog has not run.                *)
LEMMA InitInv == Init => IInv
BY DEF Init, IInv, ProbesOK, WatchOK, MuteOK

(* The probes move between their values, and time goes on.                 *)
LEMMA ProbesStep == ASSUME ProbesOK, [Next]_vars PROVE ProbesOK'
<1> USE DEF ProbesOK, watched
<1>1. CASE UNCHANGED vars \/ Tick \/ watchdog_task
  BY <1>1 DEF vars, Tick, watchdog_task
<1>4. CASE maintenance_on \/ maintenance_off \/ DropRouter \/ DropWatchdog
  BY <1>4 DEF maintenance_on, maintenance_off, DropRouter, DropWatchdog
<1>2. ASSUME NEW c \in Client, NEW what \in {"asks_ready", "asks_alive"}, Ask(c, what)
      PROVE  ProbesOK'
  BY <1>2 DEF Ask, Asking
<1>3. ASSUME NEW c \in Client, readiness_probe(c) \/ liveness_probe(c) \/ BehaviorAnswers(c)
      PROVE  ProbesOK'
  BY <1>3 DEF readiness_probe, liveness_probe, BehaviorAnswers, Asking, Answers
<1> QED BY <1>1, <1>2, <1>3, <1>4 DEF Next

(* Only the watchdog writes its readings, and it writes them together.     *)
LEMMA WatchStep == ASSUME ProbesOK, WatchOK, [Next]_vars PROVE WatchOK'
<1>0. now \in Nat /\ None \notin Nat
  BY DEF ProbesOK
<1>1. CASE watchdog_task
  <2>1. now' = now /\ ran' = now /\ timer' = now + interval /\ watchdog' = "running"
    BY <1>1 DEF watchdog_task
  <2>2. late' = now - last' /\ last' \in Nat /\ last' <= now
    <3>1. CASE timer = None
      BY <1>0, <1>1, <3>1 DEF watchdog_task
    <3>2. CASE timer # None
      BY <1>0, <1>1, <3>2 DEF watchdog_task, Due, WatchOK
    <3> QED BY <3>1, <3>2
  <2>3. last' = now - late' /\ late' \in Nat
    <3>1. \A m, n \in Nat : m <= n => n - m \in Nat /\ m = n - (n - m)
      OBVIOUS
    <3>2. now - last' \in Nat /\ last' = now - (now - last')
      BY ONLY <1>0, <2>2, <3>1
    <3> QED BY ONLY <2>2, <3>2
  <2> QED BY <1>0, <2>1, <2>3 DEF WatchOK
<1>2. CASE Tick
  BY <1>0, <1>2 DEF Tick, watched, WatchOK
<1>3. CASE DropWatchdog
  BY <1>3 DEF DropWatchdog, WatchOK
<1>4. CASE UNCHANGED <<now, watched>>
  BY <1>4 DEF watched, WatchOK
<1>5. Next => watchdog_task \/ Tick \/ DropWatchdog \/ UNCHANGED <<now, watched>>
  BY Zenon DEF Next, maintenance_on, maintenance_off, DropRouter, Ask, readiness_probe,
         liveness_probe, BehaviorAnswers
<1>6. UNCHANGED vars => UNCHANGED <<now, watched>>
  BY DEF vars
<1> QED BY <1>1, <1>2, <1>3, <1>4, <1>5, <1>6

(* A client is muted by maintenance mode and stays so until it is off.     *)
LEMMA MuteStep == ASSUME ProbesOK, MuteOK, [Next]_vars PROVE MuteOK'
<1> USE DEF ProbesOK, MuteOK
<1>1. CASE UNCHANGED <<in_maintenance, probe, mute>>
  BY <1>1
<1>2. CASE maintenance_on
  BY <1>2 DEF maintenance_on
<1>3. CASE maintenance_off
  BY <1>3 DEF maintenance_off
<1>4. ASSUME NEW c \in Client, NEW what \in {"asks_ready", "asks_alive"}, Ask(c, what)
      PROVE  MuteOK'
  BY <1>4 DEF Ask
<1>5. ASSUME NEW c \in Client, readiness_probe(c) PROVE MuteOK'
  BY <1>5 DEF readiness_probe
<1>6. ASSUME NEW c \in Client, liveness_probe(c) PROVE MuteOK'
  BY <1>6 DEF liveness_probe
<1>7. ASSUME NEW c \in Client, BehaviorAnswers(c) PROVE MuteOK'
  BY <1>7 DEF BehaviorAnswers
<1>8. \/ UNCHANGED vars \/ Tick \/ watchdog_task \/ DropRouter \/ DropWatchdog
      => UNCHANGED <<in_maintenance, probe, mute>>
  BY DEF vars, Tick, watchdog_task, DropRouter, DropWatchdog
<1> QED BY <1>1, <1>2, <1>3, <1>4, <1>5, <1>6, <1>7, <1>8 DEF Next

(* The strengthened invariant holds from the first state on.               *)
LEMMA Invariance == Spec => []IInv
<1>1. IInv /\ [Next]_vars => IInv'
  BY ProbesStep, WatchStep, MuteStep DEF IInv
<1> QED BY <1>1, InitInv, PTL DEF Spec

(* Only the liveness probe itself answers a liveness probe.                *)
LEMMA AnsweredByProbe ==
  ASSUME ProbesOK, Next, NEW c \in Client, Asked(c)
  PROVE  probe'[c] = IF watchdog = "off" \/ is_alive THEN "app_alive" ELSE "not_alive"
<1> USE DEF ProbesOK, Asked
<1>1. ASSUME NEW d \in Client, liveness_probe(d) PROVE d = c
  BY <1>1 DEF liveness_probe
<1>2. ASSUME NEW d \in Client, NEW what, Ask(d, what) PROVE FALSE
  BY <1>2 DEF Ask, Asking
<1>3. ASSUME NEW d \in Client, readiness_probe(d) \/ BehaviorAnswers(d) PROVE FALSE
  BY <1>3 DEF readiness_probe, BehaviorAnswers
<1>4. ~(\/ Tick \/ watchdog_task \/ maintenance_on \/ maintenance_off
        \/ DropRouter \/ DropWatchdog)
  BY DEF Tick, watchdog_task, maintenance_on, maintenance_off, DropRouter, DropWatchdog
<1>5. liveness_probe(c)
  BY <1>1, <1>2, <1>3, <1>4 DEF Next
<1> QED BY <1>5 DEF liveness_probe

(* No readiness probe that met maintenance mode all along is answered 200. *)
THEOREM MaintenanceKept == Spec => []MaintenanceHonoured
<1>1. IInv => MaintenanceHonoured
  BY DEF IInv, MuteOK, MaintenanceHonoured
<1> QED BY <1>1, Invariance, PTL

(* A runtime that did not run the watchdog for the timeout is reported.    *)
THEOREM StuckReported == Spec => StuckIsReported
<1> DEFINE Reported ==
      \A c \in Client :
        Asked(c) /\ watchdog # "off" /\ ran # None /\ now - ran >= timeout
          => probe'[c] = "not_alive"
<1>1. ASSUME IInv, [Next]_vars PROVE [Reported]_vars
  <2> SUFFICES ASSUME Next, NEW c \in Client, Asked(c), watchdog # "off", ran # None,
                      now - ran >= timeout
               PROVE  probe'[c] = "not_alive"
    BY <1>1
  <2>1. now \in Nat /\ ran \in Nat /\ late \in Nat /\ last = ran - late
    BY <1>1 DEF IInv, ProbesOK, WatchOK
  <2>2. last # None /\ ~(now < last + timeout)
    BY <2>1
  <2> QED BY <1>1, <2>2, AnsweredByProbe DEF IInv, is_alive
<1> QED BY <1>1, Invariance, PTL DEF Spec, StuckIsReported

(* A runtime whose delays stay below timeout - interval is never reported. *)
THEOREM NoAlarmInVain == Spec => NoFalseAlarm
<1> DEFINE Spared ==
      \A c \in Client :
        Asked(c) /\ late + Overdue < timeout - interval => probe'[c] # "not_alive"
<1>1. ASSUME IInv, [Next]_vars PROVE [Spared]_vars
  <2> SUFFICES ASSUME Next, NEW c \in Client, Asked(c), late + Overdue < timeout - interval
               PROVE  probe'[c] # "not_alive"
    BY <1>1
  <2>1. CASE ran = None
    <3>1. is_alive
      BY <1>1, <2>1 DEF IInv, WatchOK, is_alive
    <3> QED BY <1>1, <3>1, AnsweredByProbe DEF IInv
  <2>2. CASE ran # None
    <3>1. /\ now \in Nat /\ ran \in Nat /\ late \in Nat /\ last = ran - late
          /\ timer = ran + interval
      BY <1>1, <2>2 DEF IInv, ProbesOK, WatchOK
    <3>2. Overdue \in Nat /\ now <= timer + Overdue
      BY <3>1 DEF Overdue
    <3>3. now < last + timeout
      BY <3>1, <3>2
    <3> QED BY <1>1, <3>3, AnsweredByProbe DEF IInv, is_alive
  <2> QED BY <2>1, <2>2
<1> QED BY <1>1, Invariance, PTL DEF Spec, NoFalseAlarm
=============================================================================
