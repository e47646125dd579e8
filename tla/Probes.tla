------------------------------- MODULE Probes -------------------------------
(***************************************************************************)
(* The probes of a service: readiness, which maintenance mode turns off,   *)
(* and liveness, which a watchdog task of the runtime turns off when it is *)
(* not run for too long.  The runtime may stall for any time.              *)
(***************************************************************************)
EXTENDS Integers

CONSTANTS
  Client,
  interval, timeout,  \* of the watchdog's configuration
  None,
  MaxTime             \* bound on the clock

ASSUME ProbesAssumption ==
  /\ interval \in Nat \ {0} /\ timeout \in Nat
  /\ MaxTime \in Nat
  /\ None \notin Int

VARIABLES
  now,
  in_maintenance,
  watchdog,           \* "off" if not configured, "running", or "aborted"
  timer,              \* when the watchdog's next tick is due; None before it ran
  last,               \* what it stored last
  ran, late,          \* when it really ran last, and how late for its tick
  probe,              \* what each client waits for, or was answered
  mute,               \* clients whose request met maintenance mode all along
  served              \* the router has not been dropped

watched == <<watchdog, timer, last, ran, late>>
vars    == <<now, in_maintenance, watched, probe, mute, served>>
-----------------------------------------------------------------------------
Answers == {"ready", "not_ready", "alive", "not_alive"}
Asking  == {"asks_ready", "asks_alive", "app_ready", "app_alive"}

Init ==
  /\ now = 0
  /\ in_maintenance \in BOOLEAN         \* start_in_maintenance
  /\ watchdog \in {"off", "running"}
  /\ timer = None /\ last = None /\ ran = None /\ late = 0
  /\ probe = [c \in Client |-> "none"]
  /\ mute = {}
  /\ served = TRUE

Due == IF timer = None THEN TRUE ELSE timer <= now

(* A late tick is followed by the next one an interval after it ran        *)
(* (MissedTickBehavior::Delay); tick() returns when it was due.            *)
watchdog_task ==
  /\ watchdog = "running"
  /\ Due
  /\ last' = IF timer = None THEN now ELSE timer
  /\ timer' = now + interval
  /\ ran' = now /\ late' = now - last'
  /\ UNCHANGED <<now, in_maintenance, watchdog, probe, mute, served>>

is_alive_Interval == last = None \/ now < last + interval
is_alive_TooLong == last = None \/ now <= last + timeout

is_alive == last = None \/ now < last + timeout

(* The request reaches the router.                                         *)
Ask(c, what) ==
  /\ served /\ probe[c] \notin Asking
  /\ probe' = [probe EXCEPT ![c] = what]
  /\ mute' = IF in_maintenance THEN mute \cup {c} ELSE mute \ {c}
  /\ UNCHANGED <<now, in_maintenance, watched, served>>

readiness_probe_NoFlag(c) ==
  /\ probe[c] = "asks_ready"
  /\ probe' = [probe EXCEPT ![c] = "app_ready"]
  /\ UNCHANGED <<now, in_maintenance, watched, mute, served>>

(* Maintenance mode answers at once; otherwise the application is asked,   *)
(* and the answer given when it has answered.                              *)
readiness_probe(c) ==
  /\ probe[c] = "asks_ready"
  /\ probe' = [probe EXCEPT ![c] = IF in_maintenance THEN "not_ready" ELSE "app_ready"]
  /\ UNCHANGED <<now, in_maintenance, watched, mute, served>>

liveness_probe(c) ==
  /\ probe[c] = "asks_alive"
  /\ probe' = [probe EXCEPT ![c] = IF watchdog = "off" \/ is_alive
                                   THEN "app_alive" ELSE "not_alive"]
  /\ UNCHANGED <<now, in_maintenance, watched, mute, served>>

(* External: AppBehavior, whose standard answer is 200.                    *)
BehaviorAnswers(c) ==
  /\ \/ probe[c] = "app_ready" /\ probe' = [probe EXCEPT ![c] = "ready"]
     \/ probe[c] = "app_alive" /\ probe' = [probe EXCEPT ![c] = "alive"]
  /\ UNCHANGED <<now, in_maintenance, watched, mute, served>>

(* The requests that the layer in front of the maintenance routes let      *)
(* through; those it refuses change nothing.                               *)
maintenance_on ==
  /\ served
  /\ in_maintenance' = TRUE
  /\ UNCHANGED <<now, watched, probe, mute, served>>

maintenance_off ==
  /\ served
  /\ in_maintenance' = FALSE
  /\ mute' = {}
  /\ UNCHANGED <<now, watched, probe, served>>

(* The state is shared with the requests in progress; the watchdog task is *)
(* aborted when the last of them ends.                                     *)
DropRouter ==
  /\ served
  /\ served' = FALSE
  /\ UNCHANGED <<now, in_maintenance, watched, probe, mute>>

DropWatchdog ==
  /\ ~served /\ \A c \in Client : probe[c] \notin Asking
  /\ watchdog = "running"
  /\ watchdog' = "aborted"
  /\ UNCHANGED <<now, in_maintenance, timer, last, ran, late, probe, mute, served>>

Tick ==
  /\ now < MaxTime
  /\ now' = now + 1
  /\ UNCHANGED <<in_maintenance, watched, probe, mute, served>>

Next ==
  \/ Tick
  \/ watchdog_task
  \/ maintenance_on \/ maintenance_off
  \/ DropRouter \/ DropWatchdog
  \/ \E c \in Client : \/ \E what \in {"asks_ready", "asks_alive"} : Ask(c, what)
                       \/ readiness_probe(c) \/ liveness_probe(c) \/ BehaviorAnswers(c)

Spec == Init /\ [][Next]_vars
-----------------------------------------------------------------------------
Asked(c) == probe[c] = "asks_alive" /\ probe'[c] # probe[c]

(* A runtime that does not run the watchdog for the timeout is reported    *)
(* (probes.rs of liveness_probe), though the watchdog stores times earlier *)
(* than it ran at and probes are answered in between its ticks.            *)
StuckIsReported ==
  [][\A c \in Client :
       Asked(c) /\ watchdog # "off" /\ ran # None /\ now - ran >= timeout
         => probe'[c] = "not_alive"]_vars

(* A runtime whose delays are short is never reported: only when the last  *)
(* tick and the one that is due are late by timeout - interval together.   *)
(* One interval after a stall, at most, the service is alive again.        *)
Overdue == IF timer # None /\ now > timer THEN now - timer ELSE 0
NoFalseAlarm ==
  [][\A c \in Client :
       Asked(c) /\ late + Overdue < timeout - interval
         => probe'[c] # "not_alive"]_vars

(* No readiness probe that comes after maintenance mode was turned on is   *)
(* answered 200, unless maintenance mode is turned off before the answer;  *)
(* one that came earlier may be.                                           *)
MaintenanceHonoured ==
  \A c \in Client : c \in mute => probe[c] # "ready"
=============================================================================
