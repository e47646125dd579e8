------------------------------ MODULE RateLimit ------------------------------
(***************************************************************************)
(* The rate limiting layer of one handler: src/layers/rate.rs, and the key *)
(* extractors of src/layers/util.rs.                                       *)
(*                                                                         *)
(* Every request goes through the limiters in order, on its own thread:    *)
(* requests interleave between limiters, and between the steps of one      *)
(* keyed limiter: counting the check, the eviction of full buckets that    *)
(* some counts owe, and the check itself.  The bucket is the governor      *)
(* crate's GCRA cell and the store its map (both external): `tat` is the   *)
(* time at which the bucket will be full.                                  *)
(***************************************************************************)
EXTENDS Integers, Sequences, FiniteSets

CONSTANTS
  Client,            \* who sends requests; one request of each is in flight
  User,              \* [Client -> key], the user id set by the auth layer
  Peer,              \* [Client -> key], the peer of the connection
  Headers,           \* [Client -> <<X-Forwarded-For, X-Real-IP, Forwarded>>]
  NoKey, Unset,      \* no key; an absent field of the configuration
  Configs,           \* the configured limits of the handler, in order
  TicksPerSec,       \* clock resolution: units of time in a second
  EvictionInterval,  \* EVICTION_INTERVAL
  MaxTime            \* bound on the clock

-----------------------------------------------------------------------------
(* Configuration, translated from HandlerRateLimitConfig.  A limit is a    *)
(* record [key, rps, burst_rps, burst_duration, overrides, require_key];   *)
(* `overrides` is a function from some keys to records of quota fields.    *)
Ceil(a, b) == (a + b - 1) \div b
Or(x, y)   == IF x = Unset THEN y ELSE x

burst_size(c) ==
  LET burst_rps == IF c.burst_rps # Unset /\ c.burst_rps > c.rps
                   THEN c.burst_rps ELSE c.rps
      size      == Ceil(c.burst_duration * burst_rps, TicksPerSec)
  IN  IF size = 0 THEN c.rps ELSE size

period(c) == TicksPerSec \div c.rps

quota(c) == IF c.rps = Unset THEN Unset
            ELSE [burst |-> burst_size(c), period |-> period(c)]

(* Mutant: burst_rps is not inherited.                                     *)
with_override_NoInherit(c, o) ==
  [c EXCEPT !.rps = Or(o.rps, c.rps), !.burst_rps = o.burst_rps,
            !.burst_duration = Or(o.burst_duration, c.burst_duration)]
with_override(c, o) ==
  [c EXCEPT !.rps            = Or(o.rps, c.rps),
            !.burst_rps      = Or(o.burst_rps, c.burst_rps),
            !.burst_duration = Or(o.burst_duration, c.burst_duration)]

(* A key is <<kind, name>>, the kind being "global", "user", "v4", "v6",   *)
(* "mapped" (an IPv4 address written as IPv6) or, for text that is no      *)
(* address, "text".  Any text is a user id.                                *)
Parses(kind, k) == kind # "user_id" => k[1] \in {"v4", "v6", "mapped"}

(* KeyedLimiter::new: overrides with an invalid key, and those that impose *)
(* nothing, are left out.                                                  *)
OverrideKeys(c) == {k \in DOMAIN c.overrides :
                      /\ Parses(c.key, k)
                      /\ quota(with_override(c, c.overrides[k])) # Unset}

(* make_limiter: a limit that would never reject has no limiter.           *)
MakesLimiter(c) ==
  \/ quota(c) # Unset
  \/ c.key # "global" /\ (OverrideKeys(c) # {} \/ c.require_key)

Limiters == SelectSeq(Configs, MakesLimiter)

-----------------------------------------------------------------------------
(* Key extraction.                                                         *)
to_canonical(a) == IF a # NoKey /\ a[1] = "mapped" THEN <<"v4", a[2]>> ELSE a

FirstKnown(keys) ==
  LET known == {i \in DOMAIN keys : keys[i] # NoKey}
  IN  IF known = {} THEN NoKey
      ELSE keys[CHOOSE i \in known : \A j \in known : i <= j]

extract(kind, c) ==
  CASE kind = "global"   -> <<"global", "global">>
    [] kind = "user_id"  -> User[c]
    [] kind = "peer_ip"  -> to_canonical(Peer[c])
    [] kind = "smart_ip" -> to_canonical(FirstKnown(Append(Headers[c], Peer[c])))

(* The bucket that client c draws from at limiter i, and its quota.        *)
KeyAt(i, c)     == extract(Limiters[i].key, c)
Overridden(i, k) == Limiters[i].key # "global" /\ k \in OverrideKeys(Limiters[i])
QuotaAt(i, k)   == IF Overridden(i, k)
                   THEN quota(with_override(Limiters[i], Limiters[i].overrides[k]))
                   ELSE quota(Limiters[i])

Bucket == {b \in UNION {{<<i, KeyAt(i, c)>> : c \in Client} : i \in 1..Len(Limiters)} :
             b[2] # NoKey /\ QuotaAt(b[1], b[2]) # Unset}
Burst  == [b \in Bucket |-> QuotaAt(b[1], b[2]).burst]
Period == [b \in Bucket |-> QuotaAt(b[1], b[2]).period]
Cap(b) == Burst[b] * Period[b]

(* Buckets of the keyed store: neither global nor those of overrides.      *)
Evictable(i) == {b \in Bucket : /\ b[1] = i /\ Limiters[i].key # "global"
                                /\ ~Overridden(i, b[2])}

(* Quota::with_period refuses a period of zero: a limit of more requests   *)
(* per second than the clock has units makes the layer panic when built.   *)
(* What SelectSeq selects from a list are members of the list.             *)
ASSUME RateLimitAssumption ==
  /\ TicksPerSec \in Nat \ {0} /\ EvictionInterval \in Nat \ {0}
  /\ MaxTime \in Nat
  /\ IsFiniteSet(Client)
  /\ Limiters \in Seq({Configs[i] : i \in DOMAIN Configs})
  /\ Burst \in [Bucket -> Nat \ {0}]
  /\ Period \in [Bucket -> Nat \ {0}]

(* The fields of limits and overrides (Option<NonZeroU32>, Duration), and  *)
(* what keys by address are made from.                                     *)
Rate      == (Nat \ {0}) \cup {Unset}
IsLimit(l) ==
  /\ {"rps", "burst_rps", "burst_duration"} \subseteq DOMAIN l
  /\ l.key \in {"global", "user_id", "peer_ip", "smart_ip"}
  /\ l.rps \in Rate /\ l.burst_rps \in Rate /\ l.burst_duration \in Nat
  /\ \A k \in DOMAIN l.overrides :
       l.overrides[k] \in [rps : Rate, burst_rps : Rate, burst_duration : Nat \cup {Unset}]
IsAddress(a) == a = NoKey \/ a[1] \in {"v4", "v6", "mapped"}
ASSUME ConfigAssumption ==
  /\ Unset \notin Nat \cup [burst : Nat, period : Nat]
  /\ \A i \in DOMAIN Configs : IsLimit(Configs[i])
  /\ \A c \in Client :
       /\ IsAddress(Peer[c])
       /\ Headers[c] = <<Headers[c][1], Headers[c][2], Headers[c][3]>>
       /\ \A h \in 1..3 : IsAddress(Headers[c][h])

-----------------------------------------------------------------------------
VARIABLES
  now,      \* the clock
  tat,      \* when each bucket will be full; 0 for a bucket not stored
  checks,   \* KeyedLimiter::checks, modulo the eviction interval
  at,       \* the limiter each request is at; 0: no request in flight
  counted,  \* the request has counted its check at this limiter
  evicting, \* its count was the one that starts an eviction, still to come
  outcome,  \* how the latest request of a client ended
  retry,    \* `remaining_seconds` of its rejection
  log,      \* history: when each bucket let a request through
  kept      \* history: keys each limiter kept at its last eviction, or was
            \* about to add for requests already counted

vars == <<now, tat, checks, at, counted, evicting, outcome, retry, log, kept>>

Max2(a, b)   == IF a > b THEN a ELSE b
BucketOf(c)  == <<at[c], KeyAt(at[c], c)>>
Counted(i)   == {c \in Client : at[c] = i /\ counted[c]}
Evicting(i)  == {c \in Client : at[c] = i /\ evicting[c]}
Stored(i, f) == {b \in Evictable(i) : f[b] > 0}

Init ==
  /\ now = 0
  /\ tat = [b \in Bucket |-> 0]
  /\ checks = [i \in 1..Len(Limiters) |-> 0]
  /\ at = [c \in Client |-> 0] /\ counted = [c \in Client |-> FALSE]
  /\ evicting = [c \in Client |-> FALSE]
  /\ outcome = [c \in Client |-> "none"] /\ retry = [c \in Client |-> 0]
  /\ log = [b \in Bucket |-> <<>>]
  /\ kept = [i \in 1..Len(Limiters) |-> 0]

Tick ==
  /\ now < MaxTime /\ now' = now + 1
  /\ UNCHANGED <<tat, checks, at, counted, evicting, outcome, retry, log, kept>>

(* The request leaves the layer, towards the handler or with an error.     *)
Leave(c, how) ==
  /\ at' = [at EXCEPT ![c] = 0]
  /\ outcome' = [outcome EXCEPT ![c] = how]

(* Mutant: the last limiter does not hand over to the inner service.       *)
Pass_NoEnd(c) ==
  /\ counted' = [counted EXCEPT ![c] = FALSE]
  /\ at' = [at EXCEPT ![c] = @ + 1] /\ UNCHANGED outcome
(* Past this limiter: on to the next, or to the inner service.             *)
Pass(c) ==
  /\ counted' = [counted EXCEPT ![c] = FALSE]
  /\ IF at[c] < Len(Limiters)
     THEN at' = [at EXCEPT ![c] = @ + 1] /\ UNCHANGED outcome
     ELSE Leave(c, "passed")

(* A request arrives; without limiters the layer passes it on at once.     *)
Arrive(c) ==
  /\ at[c] = 0
  /\ IF Limiters = <<>> THEN Leave(c, "passed")
     ELSE /\ at' = [at EXCEPT ![c] = 1]
          /\ outcome' = [outcome EXCEPT ![c] = "none"]
  /\ retry' = [retry EXCEPT ![c] = 0]
  /\ UNCHANGED <<now, tat, checks, counted, evicting, log, kept>>

(* No key: only a limit with require_key rejects the request.              *)
NoKeyFound(c) ==
  /\ at[c] # 0 /\ KeyAt(at[c], c) = NoKey
  /\ IF Limiters[at[c]].require_key
     THEN Leave(c, "bad_request") /\ UNCHANGED counted
     ELSE Pass(c)
  /\ UNCHANGED <<now, tat, checks, evicting, retry, log, kept>>

(* Neither an override nor a default quota for this key.                   *)
Unlimited(c) ==
  /\ at[c] # 0 /\ KeyAt(at[c], c) # NoKey /\ BucketOf(c) \notin Bucket
  /\ Pass(c)
  /\ UNCHANGED <<now, tat, checks, evicting, retry, log, kept>>

(* Mutant: an eviction forgets every key, full or not.                     *)
retain_recent_None(b) == FALSE
(* retain_recent: a key whose bucket is full is forgotten.                 *)
retain_recent(b) == tat[b] > now

(* Mutant: no check starts an eviction.                                    *)
CountCheck_NoEviction(c) ==
  /\ at[c] # 0 /\ BucketOf(c) \in Evictable(at[c]) /\ ~counted[c]
  /\ counted' = [counted EXCEPT ![c] = TRUE]
  /\ checks' = [checks EXCEPT ![at[c]] = (@ + 1) % EvictionInterval]
  /\ UNCHANGED <<now, tat, at, evicting, outcome, retry, log, kept>>

(* A check of the default quota is counted; every EVICTION_INTERVAL-th of  *)
(* them, the very first included, starts an eviction.                      *)
CountCheck(c) ==
  /\ at[c] # 0 /\ BucketOf(c) \in Evictable(at[c]) /\ ~counted[c]
  /\ counted' = [counted EXCEPT ![c] = TRUE]
  /\ evicting' = [evicting EXCEPT ![c] = checks[at[c]] = 0]
  /\ checks' = [checks EXCEPT ![at[c]] = (@ + 1) % EvictionInterval]
  /\ UNCHANGED <<now, tat, at, outcome, retry, log, kept>>

(* The thread that counted it evicts, before its own check: others count,  *)
(* store keys and even start evictions of their own in between.            *)
Evict(c) ==
  /\ evicting[c]
  /\ evicting' = [evicting EXCEPT ![c] = FALSE]
  /\ tat' = [b \in Bucket |-> IF b \in Evictable(at[c]) /\ ~retain_recent(b)
                              THEN 0 ELSE tat[b]]
  /\ kept' = [kept EXCEPT ![at[c]] =
                 Cardinality(Stored(at[c], tat')) + Cardinality(Counted(at[c]))]
  /\ UNCHANGED <<now, checks, at, counted, outcome, retry, log>>

MayCheck(c) ==
  /\ at[c] # 0 /\ BucketOf(c) \in Bucket
  /\ BucketOf(c) \in Evictable(at[c]) => counted[c]
  /\ ~evicting[c]

(* External, the governor cell: time at which the bucket would be full     *)
(* after one more request, against the latest it may be.                   *)
NextTat(b)  == Max2(tat[b], now) + Period[b]
(* Mutant: the burst allows one request too many.                          *)
Conforms_OneMore(b) == NextTat(b) <= now + Cap(b) + Period[b]
(* Mutant: the bucket never refills while it is in use.                    *)
Conforms_Strict(b)  == NextTat(b) < now + Cap(b)
Conforms(b) == NextTat(b) <= now + Cap(b)

(* check / check_key lets the request through and takes one from the       *)
(* bucket.  Nothing gives it back if a later limiter rejects.              *)
Admit(c) ==
  LET b == BucketOf(c) IN
  /\ MayCheck(c) /\ Conforms(b)
  /\ tat' = [tat EXCEPT ![b] = NextTat(b)]
  /\ log' = [log EXCEPT ![b] = Append(@, now)]
  /\ Pass(c)
  /\ UNCHANGED <<now, checks, evicting, retry, kept>>

(* Mutant: the chain goes on after a rejection (no short circuit).         *)
Reject_GoesOn(c) ==
  LET b == BucketOf(c) IN
  /\ MayCheck(c) /\ ~Conforms(b)
  /\ Pass(c)
  /\ retry' = [retry EXCEPT ![c] = (NextTat(b) - Cap(b) - now) \div TicksPerSec]
  /\ UNCHANGED <<now, tat, checks, evicting, log, kept>>

(* A rejected request takes nothing and reaches no later limiter; it tells *)
(* the client the whole seconds until the bucket holds a request again.    *)
Reject(c) ==
  LET b == BucketOf(c) IN
  /\ MayCheck(c) /\ ~Conforms(b)
  /\ Leave(c, "limited")
  /\ counted' = [counted EXCEPT ![c] = FALSE]
  /\ retry' = [retry EXCEPT ![c] = (NextTat(b) - Cap(b) - now) \div TicksPerSec]
  /\ UNCHANGED <<now, tat, checks, evicting, log, kept>>

Next ==
  \/ Tick
  \/ \E c \in Client : \/ Arrive(c) \/ NoKeyFound(c) \/ Unlimited(c)
                       \/ CountCheck(c) \/ Evict(c) \/ Admit(c) \/ Reject(c)

Spec == Init /\ [][Next]_vars

-----------------------------------------------------------------------------
(* Every variable keeps its type.                                          *)
TypeOK ==
  /\ now \in Nat
  /\ tat \in [Bucket -> Nat]
  /\ checks \in [1..Len(Limiters) -> 0..(EvictionInterval - 1)]
  /\ at \in [Client -> 0..Len(Limiters)]
  /\ counted \in [Client -> BOOLEAN] /\ evicting \in [Client -> BOOLEAN]
  /\ outcome \in [Client -> {"none", "passed", "limited", "bad_request"}]
  /\ retry \in [Client -> Nat]
  /\ log \in [Bucket -> Seq(Nat)]
  /\ kept \in [1..Len(Limiters) -> Nat]

(* The documented quota: no window between two admitted requests of one    *)
(* bucket holds more than the capacity and what was regained meanwhile,    *)
(* with evictions and other requests interleaved at will.                  *)
WindowBound ==
  \A b \in Bucket : \A l \in 1..Len(log[b]) : \A j \in 1..l :
    (l - j + 1) * Period[b] <= Cap(b) + (log[b][l] - log[b][j])

(* The other half: a request is rejected only if letting it through would  *)
(* have broken WindowBound.  No request is turned away for what another    *)
(* key did, for what was rejected before, or because of an eviction.       *)
RejectsOnlyExcess ==
  [][ \A c \in Client :
        (at[c] # 0 /\ outcome'[c] = "limited") =>
          LET b == BucketOf(c)
              n == Len(log[b])
          IN  \E j \in 1..n : (n - j + 2) * Period[b] > Cap(b) + (now - log[b][j])
    ]_vars

(* A client that is over a narrow limit does not drain the wider limits    *)
(* after it: what a later limiter let through, all the earlier ones that   *)
(* limit everybody let through before.                                     *)
Through(i) == UNION {{b} \X (1..Len(log[b])) : b \in {b \in Bucket : b[1] = i}}
NarrowLimitShieldsWide ==
  \A i, j \in 1..Len(Limiters) :
    (i < j /\ \A c \in Client : <<i, KeyAt(i, c)>> \in Bucket)
      => Cardinality(Through(j)) <= Cardinality(Through(i))

(* Keep state from growing forever: however threads interleave between     *)
(* counting a check and evicting, a keyed limiter holds no more keys than  *)
(* the last eviction left and the checks counted since, an interval's      *)
(* worth for each eviction begun and not done yet.                         *)
StoreBounded ==
  \A i \in 1..Len(Limiters) :
    Cardinality(Stored(i, tat)) <=
      kept[i] + EvictionInterval * Cardinality(Evicting(i))
              + (IF checks[i] = 0 THEN EvictionInterval ELSE checks[i])

(* The documented capacity, max(burst_rps, rps) * burst_duration rounded   *)
(* up, where a key with an override inherits the fields it leaves out: a   *)
(* request is rejected only after that many went through, and never when   *)
(* neither sets rps.                                                       *)
Documented(i, k, field) ==
  LET l == Limiters[i]
  IN  IF l.key # "global" /\ k \in DOMAIN l.overrides
      THEN Or(l.overrides[k][field], l[field]) ELSE l[field]
DocumentedBurst(i, k) ==
  LET rates == {Documented(i, k, "rps"), Documented(i, k, "burst_rps")} \ {Unset}
      fastest == CHOOSE r \in rates : \A s \in rates : s <= r
  IN  Ceil(fastest * Documented(i, k, "burst_duration"), TicksPerSec)
BurstHonoured ==
  [][ \A c \in Client :
        (at[c] # 0 /\ outcome'[c] = "limited") =>
          LET k == KeyAt(at[c], c)
          IN  /\ Documented(at[c], k, "rps") # Unset
              /\ Len(log[BucketOf(c)]) >= DocumentedBurst(at[c], k) ]_vars

(* rate.rs of remaining_seconds: the remaining seconds until the method    *)
(* becomes available again.                                                *)
RetryAfterSuffices ==
  [][ \A c \in Client :
        (at[c] # 0 /\ outcome'[c] = "limited") =>
          LET b == BucketOf(c)
          IN  NextTat(b) <= now + retry'[c] * TicksPerSec + Cap(b) ]_vars

(* The layer implements one ideal token bucket per key: forgetting keys is *)
(* lossless, and nothing but an admitted request takes from a bucket.      *)
Buckets == INSTANCE TokenBucket WITH
             debt <- [b \in Bucket |-> Max2(tat[b] - now, 0)]
ImplementsBuckets == Buckets!Spec
=============================================================================
