---------------------------- MODULE MCHttpClient ----------------------------
(***************************************************************************)
(* An instance of HttpClient: two concurrent calls over a breaker that     *)
(* trips when more than half of the last three calls (two, half open)      *)
(* failed, and two retries.                                                *)
(***************************************************************************)
EXTENDS HttpClient

CONSTANTS c1, c2, c3

TwoCalls   == {c1, c2}
ThreeCalls == {c1, c2, c3}
Half       == <<1, 2>>
=============================================================================
