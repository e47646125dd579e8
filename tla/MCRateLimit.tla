----------------------------- MODULE MCRateLimit -----------------------------
(***************************************************************************)
(* Instances of RateLimit: the chains of limits that the documentation and *)
(* the tests of rate.rs talk about.  A second has two ticks.               *)
(***************************************************************************)
EXTENDS RateLimit, TLC

CONSTANTS alice1, alice2, bob, mapped

(* What a request was answered is read by no step: states that differ in   *)
(* it alone have the same successors and need exploring once.              *)
Observed == <<now, tat, checks, at, counted, evicting, log, kept>>

NoOverrides == [k \in {} |-> 0]
Limit(key, rps, dur) ==
  [key |-> key, rps |-> rps, burst_rps |-> Unset, burst_duration |-> dur,
   overrides |-> NoOverrides, require_key |-> FALSE]
Quota(rps, burst_rps, dur) ==
  [rps |-> rps, burst_rps |-> burst_rps, burst_duration |-> dur]

AllClients == {alice1, alice2, bob, mapped}
Named(name) == <<"user", name>>
Host(name)  == <<"v4", name>>
MCUser == [c \in AllClients |-> CASE c \in {alice1, alice2} -> Named("alice")
                                  [] c = bob  -> Named("bob")
                                  [] OTHER    -> NoKey]
MCPeer == [c \in AllClients |-> IF c = mapped THEN <<"mapped", "near">> ELSE Host("far")]
MCHeaders == [c \in AllClients |-> <<NoKey, IF c = bob THEN Host("near") ELSE NoKey, NoKey>>]

(* A user limit before a global one; alice sends two requests at a time.   *)
UserThenGlobal == <<Limit("user_id", 1, 4), Limit("global", 1, 4)>>
TwoAlicesAndBob == {alice1, alice2, bob}

(* A limit without rps, with an override that inherits and one that        *)
(* imposes nothing; a limit by address, whose override is not an address   *)
(* and where the proxied bob shares the bucket of an anonymous client; a   *)
(* global limit, one more that limits nothing and is left out of the       *)
(* chain; and one that only requires a key.                                *)
ManyKeys ==
  << [Limit("user_id", Unset, 2) EXCEPT !.burst_rps = 2,
        !.overrides = Named("alice") :> Quota(1, Unset, Unset)
                   @@ Named("bob")   :> Quota(Unset, 2, Unset)],
     [Limit("smart_ip", 1, 2) EXCEPT
        !.overrides = <<"text", "near">> :> Quota(2, Unset, Unset)],
     Limit("global", 1, 2),
     Limit("global", Unset, 2),
     [Limit("user_id", Unset, 1) EXCEPT !.require_key = TRUE] >>
AliceBobMapped == {alice1, bob, mapped}
=============================================================================
