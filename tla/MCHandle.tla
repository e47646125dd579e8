------------------------------ MODULE MCHandle ------------------------------
(***************************************************************************)
(* Instances of Handle for TLC: two server tasks over the whole life of    *)
(* the handle, so that two servers of one start interleave, and a second   *)
(* start finds an axum handle that was already told to stop.               *)
(***************************************************************************)
EXTENDS Handle

CONSTANTS t1, t2

TwoTasks    == {t1, t2}
OneTerm     == {"TERM"}
TermAndHup  == {"TERM", "HUP"}
JustBounded == {"bounded"}
JustTrue    == {TRUE}
JustFalse   == {FALSE}
=============================================================================
