------------------------------ MODULE MCProbes ------------------------------
(***************************************************************************)
(* An instance of Probes: two clients, and the default configuration of    *)
(* the watchdog, 2 and 7 seconds, over more than two timeouts.             *)
(***************************************************************************)
EXTENDS Probes, TLC

CONSTANTS c1, c2

TwoClients == {c1, c2}
ClientSymmetry == Permutations(TwoClients)
=============================================================================
