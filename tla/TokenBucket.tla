----------------------------- MODULE TokenBucket -----------------------------
(***************************************************************************)
(* What the documentation of src/layers/rate.rs promises of one quota: a   *)
(* bucket of Burst[b] requests that starts full and regains one request    *)
(* every Period[b] units of time.  `debt` is the time the bucket needs to  *)
(* be full again; a request is let through when the bucket holds one.      *)
(***************************************************************************)
EXTENDS Integers, Sequences

CONSTANTS Bucket, Burst, Period

(* What the buckets of the layer keep to.                                  *)
BucketAssumption ==
  /\ Burst  \in [Bucket -> Nat \ {0}]
  /\ Period \in [Bucket -> Nat \ {0}]

VARIABLES
  now,   \* the clock
  debt,  \* time until each bucket is full
  log    \* history: when each bucket let a request through

bucketVars == <<now, debt, log>>

Cap(b)    == Burst[b] * Period[b]
HasOne(b) == debt[b] + Period[b] <= Cap(b)

Init ==
  /\ now = 0
  /\ debt = [b \in Bucket |-> 0]
  /\ log = [b \in Bucket |-> <<>>]

Take(b) ==
  /\ HasOne(b)
  /\ debt' = [debt EXCEPT ![b] = @ + Period[b]]
  /\ log' = [log EXCEPT ![b] = Append(@, now)]
  /\ UNCHANGED now

Tick ==
  /\ now' = now + 1
  /\ debt' = [b \in Bucket |-> IF debt[b] > 0 THEN debt[b] - 1 ELSE 0]
  /\ UNCHANGED log

Next == Tick \/ \E b \in Bucket : Take(b)
Spec == Init /\ [][Next]_bucketVars
=============================================================================
