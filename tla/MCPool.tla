------------------------------- MODULE MCPool -------------------------------
(***************************************************************************)
(* An instance of Pool: two callers, two connections and a clone, over     *)
(* every library, and time for two gatherings.                             *)
(***************************************************************************)
EXTENDS Pool, TLC

CONSTANTS a, b, x, y, p, q

TwoCallers     == {a, b}
TwoConnections == {x, y}
PoolAndClone   == {p, q}
AllLibraries   == {"bb8", "deadpool", "r2d2", "other"}
PoolSymmetry   == Permutations(TwoCallers) \cup Permutations(TwoConnections)
                    \cup Permutations(PoolAndClone)

(* No step reads the values in the gauges, what a call was answered, or    *)
(* which method served it.                                                 *)
Steers(c) == [f \in {"pc", "on", "conn", "since"} |-> caller[c][f]]
Observed == <<now, lib, pool, last_gathered_at, operation, gauge.at, sums, missed,
  [c \in Caller |-> Steers(c)],
  [c \in Caller |-> IF caller[c].pc = "waiting" THEN caller[c].method ELSE "none"]>>
=============================================================================
