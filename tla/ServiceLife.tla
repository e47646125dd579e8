----------------------------- MODULE ServiceLife -----------------------------
(***************************************************************************)
(* What the handle of a service promises, without calls, signals or axum:  *)
(* servers are launched and exit one at a time, none runs twice, a request *)
(* to stop is never taken back, and after one every server ends.           *)
(***************************************************************************)
CONSTANT Task
VARIABLES idle, running, exited, stopping

lifeVars == <<idle, running, exited, stopping>>

Init == idle = Task /\ running = {} /\ exited = {} /\ stopping = FALSE

Launch(t) ==
  /\ t \in idle
  /\ idle' = idle \ {t} /\ running' = running \cup {t}
  /\ UNCHANGED <<exited, stopping>>

Exit(t) ==
  /\ t \in running
  /\ running' = running \ {t} /\ exited' = exited \cup {t}
  /\ UNCHANGED <<idle, stopping>>

Stop == ~stopping /\ stopping' = TRUE /\ UNCHANGED <<idle, running, exited>>

Next == Stop \/ \E t \in Task : Launch(t) \/ Exit(t)

Spec     == Init /\ [][Next]_lifeVars
FairSpec == Spec /\ \A t \in Task : WF_lifeVars(stopping /\ Exit(t))
=============================================================================
