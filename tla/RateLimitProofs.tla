--------------------------- MODULE RateLimitProofs ---------------------------
(***************************************************************************)
(* Theorems about RateLimit, for every chain of limits, every set of       *)
(* clients, keys and overrides, and without a bound on time.               *)
(***************************************************************************)
EXTENDS RateLimit, FiniteSetTheorems, TLAPS

ClockInv ==
  /\ now \in Nat
  /\ tat \in [Bucket -> Nat]
  /\ log \in [Bucket -> Seq(Nat)]

(* A request is admitted only by a bucket that exists.                     *)
LEMMA PeriodType == ASSUME NEW b \in Bucket
                    PROVE  Period[b] \in Nat \ {0} /\ Burst[b] \in Nat \ {0}
BY RateLimitAssumption

(* The clock, the buckets and the history keep their types.                *)
LEMMA ClockInvInit == Init => ClockInv
BY DEF Init, ClockInv

(* Every step of the layer keeps the types of its clock and buckets.       *)
LEMMA ClockInvStep == ClockInv /\ [Next]_vars => ClockInv'
<1> SUFFICES ASSUME ClockInv, [Next]_vars PROVE ClockInv'
  OBVIOUS
<1>1. CASE UNCHANGED vars
  BY <1>1 DEF vars, ClockInv
<1>2. CASE Tick
  BY <1>2 DEF Tick, ClockInv
<1>3. ASSUME NEW c \in Client, Arrive(c) \/ NoKeyFound(c) \/ Unlimited(c) \/ Reject(c)
      PROVE  ClockInv'
  BY <1>3 DEF ClockInv, Arrive, NoKeyFound, Unlimited, Reject
<1>4. ASSUME NEW c \in Client, CountCheck(c) \/ Evict(c) PROVE ClockInv'
  BY <1>4 DEF ClockInv, CountCheck, Evict
<1>5. ASSUME NEW c \in Client, Admit(c) PROVE ClockInv'
  <2>1. BucketOf(c) \in Bucket
    BY <1>5 DEF Admit, MayCheck
  <2>2. Period[BucketOf(c)] \in Nat
    BY <2>1, PeriodType
  <2>3. NextTat(BucketOf(c)) \in Nat
    BY <2>1, <2>2 DEF NextTat, Max2, ClockInv
  <2> QED BY <1>5, <2>1, <2>3 DEF ClockInv, Admit
<1> QED BY <1>1, <1>2, <1>3, <1>4, <1>5 DEF Next

-----------------------------------------------------------------------------
(* The buckets of the layer as TokenBucket sees them: what each owes, and  *)
(* the two ways in which that changes.                                     *)

Debt(b) == Max2(tat[b] - now, 0)
debt    == [b \in Bucket |-> Debt(b)]
bucketState == <<now, debt, log>>

Full ==
  /\ now = 0
  /\ debt = [b \in Bucket |-> 0]
  /\ log = [b \in Bucket |-> <<>>]

TakeFrom(b) ==
  /\ debt[b] + Period[b] <= Cap(b)
  /\ debt' = [debt EXCEPT ![b] = @ + Period[b]]
  /\ log' = [log EXCEPT ![b] = Append(@, now)]
  /\ UNCHANGED now

Regain ==
  /\ now' = now + 1
  /\ debt' = [b \in Bucket |-> IF debt[b] > 0 THEN debt[b] - 1 ELSE 0]
  /\ UNCHANGED log

Move == Regain \/ \E b \in Bucket : TakeFrom(b)
BucketSpec == Full /\ [][Move]_bucketState

(* A step of the layer takes one request from one bucket that holds one,   *)
(* or lets time pass, or leaves every bucket as it was: an eviction and a  *)
(* rejection among them.                                                   *)
LEMMA StepIsMove ==
  ASSUME ClockInv, ClockInv', [Next]_vars
  PROVE  [Move]_bucketState
<1> USE DEF ClockInv
<1>1. CASE Tick
  <2>1. now' = now + 1 /\ tat' = tat /\ log' = log
    BY <1>1 DEF Tick
  <2>2. debt' = [b \in Bucket |-> IF debt[b] > 0 THEN debt[b] - 1 ELSE 0]
    BY <2>1 DEF debt, Debt, Max2
  <2> QED BY <2>1, <2>2 DEF Move, Regain
<1>2. ASSUME NEW c \in Client, Admit(c)
      PROVE  Move
  <2> DEFINE b == BucketOf(c)
  <2>1. /\ b \in Bucket /\ Conforms(b) /\ now' = now
        /\ tat' = [tat EXCEPT ![b] = NextTat(b)]
        /\ log' = [log EXCEPT ![b] = Append(@, now)]
    BY <1>2 DEF Admit, MayCheck
  <2>2. Period[b] \in Nat /\ Burst[b] \in Nat
    BY <2>1, PeriodType
  <2> HIDE DEF b
  <2>3. Cap(b) \in Nat
    BY <2>2 DEF Cap
  <2>4. debt[b] + Period[b] <= Cap(b)
    BY <2>1, <2>2, <2>3 DEF Conforms, NextTat, debt, Debt, Max2
  <2>5. debt' = [debt EXCEPT ![b] = @ + Period[b]]
    <3>1. \A d \in Bucket \ {b} : tat'[d] = tat[d]
      BY <2>1
    <3>2. tat'[b] = Max2(tat[b], now) + Period[b]
      BY <2>1 DEF NextTat
    <3>3. debt'[b] = debt[b] + Period[b]
      BY <2>1, <2>2, <3>2 DEF debt, Debt, Max2
    <3>4. \A d \in Bucket \ {b} : debt'[d] = debt[d]
      BY <2>1, <3>1 DEF debt, Debt
    <3> QED BY <3>3, <3>4 DEF debt
  <2>6. TakeFrom(b)
    BY <2>1, <2>4, <2>5 DEF TakeFrom
  <2> QED BY <2>1, <2>6 DEF Move
<1>3. ASSUME NEW c \in Client, Evict(c)
      PROVE  UNCHANGED bucketState
  <2>1. now' = now /\ log' = log
    BY <1>3 DEF Evict
  <2>2. \A b \in Bucket : tat'[b] = tat[b] \/ (tat[b] <= now /\ tat'[b] = 0)
    BY <1>3 DEF Evict, retain_recent
  <2>3. ASSUME NEW b \in Bucket
        PROVE  Max2(tat'[b] - now', 0) = Max2(tat[b] - now, 0)
    <3>1. tat[b] \in Nat /\ now \in Nat
      OBVIOUS
    <3>2. CASE tat'[b] = tat[b]
      BY <2>1, <3>2
    <3>3. CASE tat[b] <= now /\ tat'[b] = 0
      BY <2>1, <3>1, <3>3 DEF Max2
    <3> QED BY <2>2, <3>2, <3>3
  <2>4. debt' = debt
    BY <2>3 DEF debt, Debt, Max2
  <2> QED BY <2>1, <2>4 DEF bucketState
<1>4. CASE \/ UNCHANGED vars
           \/ \E c \in Client : \/ Arrive(c) \/ NoKeyFound(c) \/ Unlimited(c)
                                \/ CountCheck(c) \/ Reject(c)
  <2>1. now' = now /\ log' = log /\ tat' = tat
    BY <1>4 DEF vars, Arrive, NoKeyFound, Unlimited, CountCheck, Reject
  <2> QED BY <2>1 DEF bucketState, debt, Debt
<1> QED BY <1>1, <1>2, <1>3, <1>4 DEF Next

(* The buckets of the layer hold something and regain it.                  *)
LEMMA BucketsAreSound == Buckets!BucketAssumption
BY RateLimitAssumption DEF Buckets!BucketAssumption

(* To its buckets, the layer is nothing but such moves.                    *)
LEMMA LayerIsBuckets == Spec => BucketSpec
<1>1. Init => Full
  BY DEF Init, Full, debt, Debt, Max2
<1>2. ClockInv /\ ClockInv' /\ [Next]_vars => [Move]_bucketState
  BY StepIsMove
<1> QED BY <1>1, <1>2, ClockInvInit, ClockInvStep, PTL DEF Spec, BucketSpec

(* The layer implements one ideal token bucket per key: forgetting keys    *)
(* loses nothing, and nothing but an admitted request takes from a bucket. *)
THEOREM LayerImplementsBuckets == Spec => ImplementsBuckets
<1>1. Full => Buckets!Init
  BY DEF Full, Buckets!Init, debt, Debt
<1>2. [Move]_bucketState => [Buckets!Next]_(Buckets!bucketVars)
  BY DEF Move, Regain, TakeFrom, Cap, bucketState, debt, Debt,
         Buckets!Next, Buckets!Tick, Buckets!Take, Buckets!HasOne, Buckets!Cap,
         Buckets!bucketVars
<1> QED BY <1>1, <1>2, LayerIsBuckets, PTL
        DEF BucketSpec, ImplementsBuckets, Buckets!Spec

(* What a bucket owes is a time.                                           *)
BucketTypeOK ==
  /\ now \in Nat
  /\ debt \in [Bucket -> Nat]
  /\ log \in [Bucket -> Seq(Nat)]

(* A bucket never owes more than it holds when full.                       *)
DebtBounded == \A b \in Bucket : debt[b] <= Cap(b)

(* What was let through since the j-th request is still owed, up to the    *)
(* time that has passed since.                                             *)
OwesRecent ==
  \A b \in Bucket : \A j \in 1..Len(log[b]) :
    (Len(log[b]) - j + 1) * Period[b] <= debt[b] + (now - log[b][j])

BucketInv == BucketTypeOK /\ DebtBounded /\ OwesRecent /\ WindowBound

(* Arithmetic: one more request costs one more period.                     *)
LEMMA OneMore == \A n, p \in Int : n * p \in Int /\ (n + 1) * p = n * p + p
OBVIOUS

(* The capacity of a bucket is a number.                                   *)
LEMMA CapType == ASSUME NEW b \in Bucket
                 PROVE  Cap(b) \in Nat /\ Period[b] \in Nat
BY PeriodType DEF Cap

(* Full buckets owe nothing.                                               *)
LEMMA BucketInit == Full => BucketInv
BY CapType DEF Full, BucketInv, BucketTypeOK, DebtBounded, OwesRecent, WindowBound

(* A bucket that lets a request through stays within its bounds.           *)
LEMMA TakeInv ==
  ASSUME BucketInv, NEW b \in Bucket, TakeFrom(b)
  PROVE  BucketInv'
<1> USE CapType DEF BucketInv
<1> DEFINE n == Len(log[b])
<1>1. BucketTypeOK'
  BY DEF BucketTypeOK, TakeFrom
<1>2. DebtBounded'
  BY DEF BucketTypeOK, DebtBounded, TakeFrom, Cap
<1>3. /\ n \in Nat /\ Len(log'[b]) = n + 1 /\ log'[b][n + 1] = now
      /\ \A j \in 1..n : log'[b][j] = log[b][j] /\ log[b][j] \in Nat
      /\ \A d \in Bucket \ {b} : log'[d] = log[d] /\ debt'[d] = debt[d]
      /\ debt'[b] = debt[b] + Period[b] /\ now' = now
      /\ now \in Nat /\ debt[b] \in Nat
  BY DEF BucketTypeOK, TakeFrom
<1>p. Period[b] \in Int /\ Cap(b) \in Int
  BY CapType
<1>4. ASSUME NEW j \in 1..(n + 1)
      PROVE  (n + 1 - j + 1) * Period[b] <= debt'[b] + (now - log'[b][j])
  <2>1. CASE j = n + 1
    <3>1. n + 1 - j + 1 = 1
      BY <1>3, <2>1
    <3>2. (n + 1 - j + 1) * Period[b] = Period[b]
      BY <1>p, <3>1
    <3> QED BY <1>3, <1>p, <2>1, <3>2
  <2>2. CASE j \in 1..n
    <3>1. (n - j + 1) * Period[b] <= debt[b] + (now - log[b][j])
      BY <2>2, <1>3 DEF OwesRecent
    <3> DEFINE k == n - j + 1
    <3>2. k \in Int /\ n + 1 - j + 1 = k + 1
      BY <1>3, <2>2
    <3>3. k * Period[b] \in Int /\ (k + 1) * Period[b] = k * Period[b] + Period[b]
      <4> HIDE DEF k
      <4> QED BY <1>p, <3>2, OneMore
    <3>4. debt'[b] = debt[b] + Period[b] /\ log'[b][j] \in Int /\ log[b][j] = log'[b][j]
      BY <1>3, <2>2
    <3>5. k * Period[b] <= debt[b] + (now - log'[b][j])
      BY <3>1, <3>4
    <3>6. (k + 1) * Period[b] <= debt'[b] + (now - log'[b][j])
      <4> HIDE DEF k
      <4> DEFINE owed == k * Period[b]
      <4>1. owed \in Int /\ (k + 1) * Period[b] = owed + Period[b]
        BY <3>3
      <4>2. owed <= debt[b] + (now - log'[b][j])
        BY <3>5
      <4>3. \A o, p, d, s \in Int : o <= d + s => o + p <= (d + p) + s
        OBVIOUS
      <4>4. debt[b] \in Int /\ now - log'[b][j] \in Int
        BY <1>3, <3>4
      <4> HIDE DEF owed
      <4>5. owed + Period[b] <= (debt[b] + Period[b]) + (now - log'[b][j])
        BY ONLY <1>p, <4>1, <4>2, <4>3, <4>4
      <4> QED BY ONLY <3>4, <4>1, <4>5
    <3> QED BY <3>2, <3>6
  <2> QED BY <1>3, <2>1, <2>2
<1>5. OwesRecent'
  <2> SUFFICES ASSUME NEW d \in Bucket, NEW j \in 1..Len(log'[d])
               PROVE  (Len(log'[d]) - j + 1) * Period[d] <= debt'[d] + (now' - log'[d][j])
    BY DEF OwesRecent
  <2>1. CASE d = b
    <3>1. j \in 1..(n + 1) /\ Len(log'[d]) = n + 1 /\ now' = now
      BY <1>3, <2>1
    <3>2. (n + 1 - j + 1) * Period[b] <= debt'[b] + (now - log'[b][j])
      BY <1>4, <3>1
    <3> QED BY ONLY <2>1, <3>1, <3>2
  <2>2. CASE d # b
    BY <1>3, <2>2 DEF OwesRecent
  <2> QED BY <2>1, <2>2
<1>6. ASSUME NEW l \in 1..(n + 1), NEW j \in 1..l
      PROVE  (l - j + 1) * Period[b] <= Cap(b) + (log'[b][l] - log'[b][j])
  <2>1. CASE l = n + 1
    <3> DEFINE owed == (n + 1 - j + 1) * Period[b]
    <3>1. owed \in Int /\ owed <= debt'[b] + (now - log'[b][j])
      BY <1>3, <1>4, <1>p, <2>1, OneMore
    <3>2. debt'[b] <= Cap(b) /\ debt'[b] \in Int /\ now = log'[b][l]
      BY <1>1, <1>2, <1>3, <2>1 DEF DebtBounded, BucketTypeOK, Cap
    <3>3. log'[b][j] \in Int /\ log'[b][l] \in Int
      <4>1. j \in 1..n \/ j = n + 1
        BY <1>3, <2>1
      <4>2. \A i \in 1..n : log'[b][i] \in Int
        BY <1>3
      <4>3. log'[b][n + 1] \in Int
        BY <1>3
      <4> QED BY ONLY <2>1, <4>1, <4>2, <4>3
    <3>4. owed <= Cap(b) + (log'[b][l] - log'[b][j])
      <4> HIDE DEF owed
      <4> QED BY <1>p, <3>1, <3>2, <3>3
    <3> QED BY <2>1, <3>4
  <2>2. CASE l \in 1..n
    <3>1. (l - j + 1) * Period[b] <= Cap(b) + (log[b][l] - log[b][j])
      BY <1>3, <2>2 DEF WindowBound
    <3>2. j \in 1..n /\ log'[b][l] = log[b][l] /\ log'[b][j] = log[b][j]
      BY <1>3, <2>2
    <3> QED BY <3>1, <3>2
  <2> QED BY <1>3, <2>1, <2>2
<1>7. WindowBound'
  BY <1>3, <1>6 DEF WindowBound, Cap
<1> QED BY <1>1, <1>2, <1>5, <1>7

(* Time gives back at most what it takes from the age of a request.        *)
LEMMA TickInv ==
  ASSUME BucketInv, Regain
  PROVE  BucketInv'
<1> USE CapType DEF BucketInv
<1>1. BucketTypeOK'
  BY DEF BucketTypeOK, Regain
<1>2. DebtBounded'
  BY DEF BucketTypeOK, DebtBounded, Regain, Cap
<1>3. ASSUME NEW b \in Bucket, NEW j \in 1..Len(log[b])
      PROVE  (Len(log[b]) - j + 1) * Period[b] <= debt'[b] + (now' - log[b][j])
  <2>1. (Len(log[b]) - j + 1) * Period[b] <= debt[b] + (now - log[b][j])
    BY DEF OwesRecent
  <2>2. /\ log[b][j] \in Int /\ Period[b] \in Int /\ now \in Int
        /\ Len(log[b]) - j + 1 \in Int
    BY DEF BucketTypeOK
  <2>3. now' = now + 1 /\ debt'[b] >= debt[b] - 1 /\ debt'[b] \in Nat /\ debt[b] \in Nat
    BY <1>1 DEF BucketTypeOK, Regain
  <2> DEFINE owed == (Len(log[b]) - j + 1) * Period[b]
  <2>4. owed \in Int
    BY <2>2, OneMore
  <2> HIDE DEF owed
  <2>5. /\ now \in Int /\ debt[b] \in Int /\ debt'[b] \in Int /\ log[b][j] \in Int
        /\ now' = now + 1 /\ debt[b] - 1 <= debt'[b]
    BY <2>2, <2>3
  <2>6. owed <= debt[b] + (now - log[b][j])
    BY <2>1 DEF owed
  <2>7. owed <= debt'[b] + (now' - log[b][j])
    BY ONLY <2>4, <2>5, <2>6
  <2> QED BY <2>7 DEF owed
<1>4. OwesRecent'
  BY <1>3 DEF OwesRecent, Regain
<1>5. WindowBound'
  BY DEF WindowBound, Regain, Cap
<1> QED BY <1>1, <1>2, <1>4, <1>5

(* Each step keeps the invariant.                                          *)
LEMMA BucketStep ==
  ASSUME BucketInv, [Move]_bucketState PROVE BucketInv'
<1>1. CASE UNCHANGED bucketState
  BY <1>1 DEF BucketInv, BucketTypeOK, DebtBounded, OwesRecent, WindowBound,
              bucketState, Cap
<1>2. CASE Regain
  BY <1>2, TickInv
<1>3. CASE \E b \in Bucket : TakeFrom(b)
  BY <1>3, TakeInv
<1> QED BY <1>1, <1>2, <1>3 DEF Move

(* Between any two requests it let through, a bucket let through no more   *)
(* than its capacity plus what it regained meanwhile: the quota of the     *)
(* documentation of rate.rs.                                               *)
THEOREM WindowBounded == BucketSpec => []WindowBound
<1>1. Full => BucketInv
  BY BucketInit
<1>2. BucketInv /\ [Move]_bucketState => BucketInv'
  BY BucketStep
<1>3. BucketInv => WindowBound
  BY DEF BucketInv
<1> QED BY <1>1, <1>2, <1>3, PTL DEF BucketSpec

(* Whatever the chain of limits and the interleaving of requests, no       *)
(* bucket lets through more than its capacity and what it regained.        *)
THEOREM QuotaHolds == Spec => []WindowBound
BY LayerIsBuckets, WindowBounded

(* A bucket that owes anything has been busy since one of its requests:    *)
(* all it let through since then is still owed, but for the time passed.   *)
BusySince(b, j) ==
  (Len(log[b]) - j + 1) * Period[b] = debt[b] + (now - log[b][j])
OwesOnlyRecent ==
  \A b \in Bucket : debt[b] > 0 => \E j \in 1..Len(log[b]) : BusySince(b, j)

(* One request more: the busy time goes on, or begins with it.             *)
LEMMA TakeBusy ==
  ASSUME BucketTypeOK, OwesOnlyRecent, NEW b \in Bucket, TakeFrom(b)
  PROVE  OwesOnlyRecent'
<1> DEFINE n == Len(log[b])
<1>1. /\ n \in Nat /\ Len(log'[b]) = n + 1 /\ log'[b][n + 1] = now
      /\ \A j \in 1..n : log'[b][j] = log[b][j] /\ log[b][j] \in Nat
      /\ \A d \in Bucket \ {b} : log'[d] = log[d] /\ debt'[d] = debt[d]
      /\ debt'[b] = debt[b] + Period[b] /\ now' = now
      /\ now \in Nat /\ debt[b] \in Nat
  BY DEF BucketTypeOK, TakeFrom
<1>2. Period[b] \in Int
  BY CapType
<1> HIDE DEF n
<1>3. CASE debt[b] = 0
  <2>1. Len(log'[b]) - (n + 1) + 1 = 1 /\ 1 * Period[b] = Period[b]
    BY <1>1, <1>2
  <2>2. debt'[b] + (now' - log'[b][n + 1]) = Period[b]
    BY <1>1, <1>2, <1>3
  <2>3. (Len(log'[b]) - (n + 1) + 1) * Period[b] = debt'[b] + (now' - log'[b][n + 1])
    BY ONLY <2>1, <2>2, Zenon
  <2>4. \E j \in 1..Len(log'[b]) : BusySince(b, j)'
    <3>1. n + 1 \in 1..Len(log'[b])
      BY <1>1
    <3> QED BY <2>3, <3>1 DEF BusySince
  <2>5. ASSUME NEW d \in Bucket \ {b}, debt'[d] > 0
        PROVE  \E j \in 1..Len(log'[d]) : BusySince(d, j)'
    BY <1>1, <2>5 DEF OwesOnlyRecent, BusySince
  <2> QED BY <2>4, <2>5 DEF OwesOnlyRecent
<1>4. CASE debt[b] > 0
  <2>1. PICK j \in 1..n : (n - j + 1) * Period[b] = debt[b] + (now - log[b][j])
    BY <1>4 DEF OwesOnlyRecent, BusySince, n
  <2> DEFINE k == n - j + 1
  <2>2. k \in Int /\ n + 1 - j + 1 = k + 1
    BY <1>1
  <2>3. (k + 1) * Period[b] = k * Period[b] + Period[b]
    <3> HIDE DEF k
    <3> QED BY <1>2, <2>2, OneMore
  <2>4. k * Period[b] = debt[b] + (now - log[b][j])
    BY <2>1
  <2> HIDE DEF k
  <2>5. log'[b][j] = log[b][j] /\ log[b][j] \in Nat /\ j \in 1..(n + 1)
    BY <1>1
  <2>6. (k + 1) * Period[b] = debt[b] + Period[b] + (now - log[b][j])
    BY <1>1, <1>2, <2>3, <2>4, <2>5
  <2>7. (Len(log'[b]) - j + 1) * Period[b] = debt'[b] + (now' - log'[b][j])
    BY <1>1, <2>2, <2>5, <2>6
  <2> QED BY <1>1, <2>5, <2>7 DEF OwesOnlyRecent, BusySince
<1> QED BY <1>1, <1>3, <1>4

(* Time pays off what is owed and ages what was let through, alike.        *)
LEMMA TickBusy ==
  ASSUME BucketTypeOK, OwesOnlyRecent, Regain
  PROVE  OwesOnlyRecent'
<1> SUFFICES ASSUME NEW b \in Bucket, debt'[b] > 0
             PROVE  \E j \in 1..Len(log'[b]) : BusySince(b, j)'
  BY DEF OwesOnlyRecent
<1>1. /\ debt'[b] = debt[b] - 1 /\ debt[b] > 0 /\ debt[b] \in Nat
      /\ now' = now + 1 /\ now \in Nat /\ log' = log
  BY DEF BucketTypeOK, Regain
<1>2. PICK j \in 1..Len(log[b]) : (Len(log[b]) - j + 1) * Period[b] = debt[b] + (now - log[b][j])
  BY <1>1 DEF OwesOnlyRecent, BusySince
<1>3. log[b][j] \in Nat
  BY DEF BucketTypeOK
<1>4. debt[b] + (now - log[b][j]) = debt'[b] + (now' - log[b][j])
  <2>1. \A d, t, l \in Int : d + (t - l) = (d - 1) + ((t + 1) - l)
    OBVIOUS
  <2>2. debt[b] \in Int /\ now \in Int /\ log[b][j] \in Int
    BY <1>1, <1>3
  <2>3. debt[b] + (now - log[b][j]) = (debt[b] - 1) + ((now + 1) - log[b][j])
    BY ONLY <2>1, <2>2
  <2> QED BY ONLY <1>1, <2>3
<1> QED BY <1>1, <1>2, <1>4 DEF BusySince

(* A bucket owes nothing for requests that came before it was last full.   *)
THEOREM OwesForRecent == BucketSpec => []OwesOnlyRecent
<1>1. Full => BucketInv /\ OwesOnlyRecent
  BY BucketInit DEF Full, OwesOnlyRecent
<1>2. BucketInv /\ [Move]_bucketState => BucketInv'
  BY BucketStep
<1>3. ASSUME BucketTypeOK, OwesOnlyRecent, [Move]_bucketState PROVE OwesOnlyRecent'
  <2>1. CASE UNCHANGED bucketState
    BY <1>3, <2>1 DEF OwesOnlyRecent, BusySince, bucketState
  <2>2. CASE Regain
    BY <1>3, <2>2, TickBusy
  <2>3. CASE \E b \in Bucket : TakeFrom(b)
    BY <1>3, <2>3, TakeBusy
  <2> QED BY <1>3, <2>1, <2>2, <2>3 DEF Move
<1>4. BucketInv => BucketTypeOK
  BY DEF BucketInv
<1> QED BY <1>1, <1>2, <1>3, <1>4, PTL DEF BucketSpec

(* A bucket owes no more than it let through in all its life.              *)
OwesOnlyLet == \A b \in Bucket : debt[b] <= Len(log[b]) * Period[b]

(* Each request let through is one period more, on both sides.             *)
LEMMA LetStep ==
  ASSUME BucketTypeOK, OwesOnlyLet, [Move]_bucketState
  PROVE  OwesOnlyLet'
<1>1. ASSUME NEW b \in Bucket
      PROVE  /\ Len(log[b]) \in Nat /\ Period[b] \in Int /\ debt[b] \in Nat
             /\ Len(log[b]) * Period[b] \in Int
             /\ debt[b] <= Len(log[b]) * Period[b]
  BY CapType, OneMore DEF BucketTypeOK, OwesOnlyLet
<1>2. CASE UNCHANGED bucketState
  BY <1>2 DEF OwesOnlyLet, bucketState
<1>3. CASE Regain
  <2> SUFFICES ASSUME NEW b \in Bucket PROVE debt'[b] <= Len(log'[b]) * Period[b]
    BY DEF OwesOnlyLet
  <2>1. debt'[b] <= debt[b] /\ debt'[b] \in Int /\ log' = log
    BY <1>1, <1>3 DEF Regain
  <2> DEFINE m == Len(log[b]) * Period[b]
  <2>2. debt'[b] <= m
    <3>1. m \in Int /\ debt[b] \in Int /\ debt[b] <= m
      BY <1>1
    <3> HIDE DEF m
    <3> QED BY <2>1, <3>1
  <2> QED BY <2>1, <2>2
<1>4. ASSUME NEW b \in Bucket, TakeFrom(b) PROVE OwesOnlyLet'
  <2> DEFINE n == Len(log[b])
  <2>1. /\ debt'[b] = debt[b] + Period[b] /\ Len(log'[b]) = n + 1
        /\ \A d \in Bucket \ {b} : debt'[d] = debt[d] /\ log'[d] = log[d]
    BY <1>4 DEF TakeFrom, BucketTypeOK
  <2>2. (n + 1) * Period[b] = n * Period[b] + Period[b] /\ n * Period[b] \in Int
    <3>1. n \in Int /\ Period[b] \in Int
      BY <1>1
    <3> HIDE DEF n
    <3> QED BY <3>1, OneMore
  <2>3. debt[b] <= n * Period[b] /\ debt[b] \in Int /\ Period[b] \in Int
    BY <1>1
  <2>4. debt'[b] <= Len(log'[b]) * Period[b]
    <3> DEFINE m == n * Period[b]
    <3>1. Len(log'[b]) * Period[b] = m + Period[b] /\ m \in Int /\ debt[b] <= m
      BY <2>1, <2>2, <2>3
    <3> HIDE DEF m
    <3> QED BY <2>1, <2>3, <3>1
  <2>5. ASSUME NEW d \in Bucket PROVE debt'[d] <= Len(log'[d]) * Period[d]
    <3>1. CASE d = b
      BY <2>4, <3>1
    <3>2. CASE d # b
      BY <1>1, <2>1, <3>2
    <3> QED BY <3>1, <3>2
  <2> QED BY <2>5 DEF OwesOnlyLet
<1> QED BY <1>2, <1>3, <1>4 DEF Move

(* The debt of a bucket never exceeds the requests it ever let through.    *)
THEOREM OwesWhatItLet == BucketSpec => []OwesOnlyLet
<1>1. Full => BucketInv /\ OwesOnlyLet
  <2>1. ASSUME Full, NEW b \in Bucket PROVE debt[b] <= Len(log[b]) * Period[b]
    <3>1. debt[b] = 0 /\ Len(log[b]) = 0 /\ Period[b] \in Int
      BY <2>1, CapType DEF Full
    <3>2. 0 * Period[b] = 0
      BY <3>1
    <3> QED BY <3>1, <3>2
  <2> QED BY <2>1, BucketInit DEF OwesOnlyLet
<1>2. BucketInv /\ [Move]_bucketState => BucketInv'
  BY BucketStep
<1>3. BucketInv /\ OwesOnlyLet /\ [Move]_bucketState => OwesOnlyLet'
  BY LetStep DEF BucketInv
<1> QED BY <1>1, <1>2, <1>3, PTL DEF BucketSpec

-----------------------------------------------------------------------------
(* The requests on their way through the chain.                            *)

N == Len(Limiters)
PlacesOK ==
  /\ checks \in [1..N -> 0..(EvictionInterval - 1)]
  /\ at \in [Client -> 0..N]
  /\ counted \in [Client -> BOOLEAN] /\ evicting \in [Client -> BOOLEAN]
  /\ outcome \in [Client -> {"none", "passed", "limited", "bad_request"}]
  /\ retry \in [Client -> Nat]
  /\ kept \in [1..N -> Nat]

(* A check is counted at the limiter and for the bucket the request is at, *)
(* and who owes an eviction has counted.                                   *)
CountedHere ==
  \A c \in Client : /\ counted[c] => at[c] # 0 /\ BucketOf(c) \in Evictable(at[c])
                    /\ evicting[c] => counted[c]

(* Each key stored since the last eviction was counted; those counted and  *)
(* not yet stored are still at the limiter.  The count that starts an      *)
(* eviction opens an interval, which stands for itself until it is done.   *)
Since(i) == IF checks[i] = 0 THEN EvictionInterval ELSE checks[i]
Room(i)  == EvictionInterval * Cardinality(Evicting(i)) + Since(i)
StoreAt(i) ==
  /\ IsFiniteSet(Stored(i, tat))
  /\ Cardinality(Stored(i, tat)) + Cardinality(Counted(i)) <= kept[i] + Room(i)
StoreInv == \A i \in 1..Len(Limiters) : StoreAt(i)

(* Who is between two limiters was let through by the first, if that one   *)
(* limits everybody.                                                       *)
LimitsAll(i)  == \A c \in Client : <<i, KeyAt(i, c)>> \in Bucket
Between(i, j) == {c \in Client : i < at[c] /\ at[c] <= j}
Shields(i, j) ==
  Cardinality(Through(j)) + Cardinality(Between(i, j)) <= Cardinality(Through(i))
ThroughInv ==
  /\ \A i \in 1..Len(Limiters) : IsFiniteSet(Through(i))
  /\ \A i, j \in 1..Len(Limiters) : i < j /\ LimitsAll(i) => Shields(i, j)

(* Nothing is said of a request that is still in the chain.                *)
Undecided == \A c \in Client : at[c] # 0 => outcome[c] = "none"

LayerInv == ClockInv /\ PlacesOK /\ CountedHere /\ StoreInv /\ ThroughInv /\ Undecided

(* There is a number of limiters.                                          *)
LEMMA ChainType == N \in Nat /\ (Limiters = <<>> <=> N = 0)
BY RateLimitAssumption DEF N

(* Passing a limiter leads to the next one, or out of the chain.           *)
LEMMA PassCases ==
  ASSUME PlacesOK, NEW c \in Client, Pass(c)
  PROVE  /\ counted' = [counted EXCEPT ![c] = FALSE]
         /\ \/ /\ at[c] < N /\ at' = [at EXCEPT ![c] = at[c] + 1] /\ outcome' = outcome
            \/ /\ at[c] = N /\ at' = [at EXCEPT ![c] = 0]
               /\ outcome' = [outcome EXCEPT ![c] = "passed"]
<1>1. at[c] \in 0..N /\ N \in Nat
  BY ChainType DEF PlacesOK
<1>2. CASE at[c] < N
  BY <1>1, <1>2 DEF Pass, N
<1>3. CASE at[c] = N
  BY <1>1, <1>3 DEF Pass, Leave, N
<1> QED BY <1>1, <1>2, <1>3

(* Passing a limiter takes back the count, and moves no other request.     *)
LEMMA PassOthers ==
  ASSUME PlacesOK, NEW c \in Client, Pass(c)
  PROVE  ~counted'[c] /\ \A d \in Client \ {c} : at'[d] = at[d] /\ counted'[d] = counted[d]
<1>1. counted' = [counted EXCEPT ![c] = FALSE]
  BY PassCases
<1>2. \/ at' = [at EXCEPT ![c] = at[c] + 1]
      \/ at' = [at EXCEPT ![c] = 0]
  BY PassCases
<1>3. at \in [Client -> 0..N] /\ counted \in [Client -> BOOLEAN]
  BY DEF PlacesOK
<1> QED BY <1>1, <1>2, <1>3

(* When a bucket will be full, and what it holds then, are numbers.        *)
LEMMA CellType == ASSUME ClockInv, NEW b \in Bucket
                  PROVE  /\ NextTat(b) \in Nat /\ NextTat(b) > 0 /\ Cap(b) \in Nat
                         /\ now \in Nat /\ tat[b] \in Nat
<1>1. Period[b] \in Nat \ {0} /\ Burst[b] \in Nat
  BY PeriodType
<1>2. now \in Nat /\ tat[b] \in Nat
  BY DEF ClockInv
<1>3. NextTat(b) \in Nat /\ NextTat(b) > 0
  BY <1>1, <1>2 DEF NextTat, Max2
<1>4. Cap(b) \in Nat
  BY <1>1 DEF Cap
<1> QED BY <1>2, <1>3, <1>4

(* The remaining whole seconds are a number.                               *)
LEMMA SecondsType == ASSUME NEW x \in Nat PROVE x \div TicksPerSec \in Nat
BY RateLimitAssumption

(* An eviction stores no key.                                              *)
LEMMA EvictForgets == ASSUME NEW c \in Client, Evict(c)
                      PROVE  \A b \in Bucket : tat'[b] > 0 => tat[b] > 0
<1>1. tat' = [b \in Bucket |-> IF b \in Evictable(at[c]) /\ ~retain_recent(b)
                              THEN 0 ELSE tat[b]]
  BY DEF Evict
<1>2. ASSUME NEW b \in Bucket, tat'[b] > 0 PROVE tat[b] > 0
  <2>1. CASE tat'[b] = tat[b]
    BY <1>2, <2>1
  <2>2. CASE tat'[b] = 0
    BY <1>2, <2>2
  <2> QED BY <1>1, <2>1, <2>2
<1> QED BY <1>2

(* Requests move along the chain.                                          *)
LEMMA PlacesStep ==
  ASSUME ClockInv, PlacesOK, CountedHere, StoreInv, [Next]_vars PROVE PlacesOK'
<1> USE ChainType, RateLimitAssumption DEF PlacesOK
<1>1. CASE UNCHANGED vars
  BY <1>1 DEF vars
<1>2. CASE Tick
  BY <1>2 DEF Tick
<1>3. ASSUME NEW c \in Client, Arrive(c) PROVE PlacesOK'
  <2>1. 0 \in 0..N /\ (Limiters # <<>> => 1 \in 0..N)
    BY ChainType
  <2>2. UNCHANGED <<checks, counted, evicting, kept>> /\ retry' = [retry EXCEPT ![c] = 0]
    BY <1>3 DEF Arrive
  <2>3. \/ /\ at' = [at EXCEPT ![c] = 0]
           /\ outcome' = [outcome EXCEPT ![c] = "passed"]
        \/ /\ at' = [at EXCEPT ![c] = 1] /\ 1 \in 0..N
           /\ outcome' = [outcome EXCEPT ![c] = "none"]
    BY <1>3, <2>1 DEF Arrive, Leave
  <2> QED BY <2>1, <2>2, <2>3
<1>4. ASSUME NEW c \in Client, Pass(c), UNCHANGED <<checks, evicting, retry, kept>>
      PROVE  PlacesOK'
  <2>1. N \in Nat /\ at[c] \in 0..N /\ 0 \in 0..N
    BY ChainType
  <2>2. CASE at[c] < N /\ at' = [at EXCEPT ![c] = at[c] + 1] /\ outcome' = outcome
    <3>1. at[c] + 1 \in 0..N
      BY <2>1, <2>2
    <3> QED BY <1>4, <2>2, <3>1, PassCases
  <2>3. CASE at' = [at EXCEPT ![c] = 0] /\ outcome' = [outcome EXCEPT ![c] = "passed"]
    BY <1>4, <2>1, <2>3, PassCases
  <2> QED BY <1>4, <2>2, <2>3, PassCases
<1>5. ASSUME NEW c \in Client, NoKeyFound(c) PROVE PlacesOK'
  <2>1. CASE Pass(c)
    BY <1>4, <1>5, <2>1 DEF NoKeyFound
  <2>2. CASE Leave(c, "bad_request") /\ UNCHANGED counted
    BY <1>5, <2>2 DEF NoKeyFound, Leave
  <2> QED BY <1>5, <2>1, <2>2 DEF NoKeyFound
<1>6. ASSUME NEW c \in Client, Unlimited(c) \/ Admit(c) PROVE PlacesOK'
  BY <1>4, <1>6 DEF Unlimited, Admit
<1>7. ASSUME NEW c \in Client, CountCheck(c) PROVE PlacesOK'
  <2>1. /\ at[c] \in 1..N /\ counted' = [counted EXCEPT ![c] = TRUE]
        /\ checks' = [checks EXCEPT ![at[c]] = (@ + 1) % EvictionInterval]
        /\ evicting' = [evicting EXCEPT ![c] = checks[at[c]] = 0]
        /\ UNCHANGED <<at, outcome, retry, kept>>
    BY <1>7 DEF CountCheck
  <2>2. (checks[at[c]] + 1) % EvictionInterval \in 0..(EvictionInterval - 1)
    BY <2>1
  <2>3. evicting' \in [Client -> BOOLEAN]
    BY ONLY PlacesOK, <2>1 DEF PlacesOK
  <2>4. counted' \in [Client -> BOOLEAN]
    BY ONLY PlacesOK, <2>1 DEF PlacesOK
  <2>5. checks' \in [1..N -> 0..(EvictionInterval - 1)]
    BY <2>1, <2>2
  <2> QED BY <2>1, <2>3, <2>4, <2>5
<1>9. ASSUME NEW c \in Client, Evict(c) PROVE PlacesOK'
  <2>1. /\ evicting' = [evicting EXCEPT ![c] = FALSE]
        /\ UNCHANGED <<checks, at, counted, outcome, retry>>
        /\ kept' = [kept EXCEPT ![at[c]] =
                       Cardinality(Stored(at[c], tat')) + Cardinality(Counted(at[c]))]
    BY <1>9 DEF Evict
  <2>2. at[c] \in 1..N
    BY <1>9 DEF Evict, CountedHere
  <2>3. \A b \in Bucket : tat'[b] > 0 => tat[b] > 0
    BY <1>9, EvictForgets
  <2>4. Stored(at[c], tat') \subseteq Stored(at[c], tat)
    BY <2>3 DEF Stored, Evictable
  <2>5. IsFiniteSet(Stored(at[c], tat)) /\ IsFiniteSet(Counted(at[c]))
    BY <2>2, FS_Subset DEF StoreInv, StoreAt, Counted, N
  <2>6. Cardinality(Stored(at[c], tat')) \in Nat /\ Cardinality(Counted(at[c])) \in Nat
    BY <2>4, <2>5, FS_Subset, FS_CardinalityType
  <2>7. kept' \in [1..N -> Nat]
    BY <2>1, <2>2, <2>6
  <2>8. evicting' \in [Client -> BOOLEAN]
    BY <2>1
  <2> QED BY <2>1, <2>7, <2>8
<1>8. ASSUME NEW c \in Client, Reject(c) PROVE PlacesOK'
  <2> DEFINE b == BucketOf(c)
             over == NextTat(b) - Cap(b) - now
  <2>1. /\ b \in Bucket /\ ~(NextTat(b) <= now + Cap(b)) /\ Leave(c, "limited")
        /\ counted' = [counted EXCEPT ![c] = FALSE]
        /\ retry' = [retry EXCEPT ![c] = over \div TicksPerSec]
        /\ UNCHANGED <<checks, evicting, kept>>
    BY <1>8 DEF Reject, MayCheck, Conforms
  <2> HIDE DEF b
  <2>2. NextTat(b) \in Nat /\ Cap(b) \in Nat /\ now \in Nat
    BY <2>1, CellType
  <2>3. ~(NextTat(b) <= now + Cap(b))
    BY <2>1
  <2>4. ASSUME NEW x \in Nat, NEW y \in Nat, NEW z \in Nat, ~(x <= z + y)
        PROVE  x - y - z \in Nat
    BY ONLY <2>4
  <2>5. over \in Nat
    BY ONLY <2>2, <2>3, <2>4
  <2> HIDE DEF over
  <2>6. over \div TicksPerSec \in Nat
    BY <2>5, SecondsType
  <2>7. retry' \in [Client -> Nat]
    BY <2>1, <2>6
  <2>8. at' \in [Client -> 0..N] /\ outcome' \in [Client -> {"none", "passed", "limited", "bad_request"}]
    BY <2>1 DEF Leave
  <2>9. counted' \in [Client -> BOOLEAN]
    BY <2>1
  <2> QED BY <2>1, <2>7, <2>8, <2>9
<1> QED BY <1>1, <1>2, <1>3, <1>5, <1>6, <1>7, <1>8, <1>9 DEF Next

(* Who comes to a limiter or leaves one owes no eviction.                  *)
LEMMA NoneOwed ==
  ASSUME CountedHere, NEW c \in Client,
         Arrive(c) \/ NoKeyFound(c) \/ Unlimited(c) \/ Admit(c) \/ Reject(c)
  PROVE  ~evicting[c] /\ evicting' = evicting
<1>1. CASE Admit(c) \/ Reject(c)
  BY <1>1 DEF Admit, Reject, MayCheck
<1>2. CASE Arrive(c)
  BY <1>2 DEF Arrive, CountedHere
<1>3. CASE NoKeyFound(c) \/ Unlimited(c)
  <2>1. BucketOf(c) \notin Bucket /\ evicting' = evicting
    BY <1>3 DEF NoKeyFound, Unlimited, BucketOf, Bucket
  <2> QED BY <2>1 DEF CountedHere, Evictable
<1> QED BY <1>1, <1>2, <1>3

(* A count is taken back when the request leaves the limiter.              *)
LEMMA CountedStep == ASSUME PlacesOK, CountedHere, [Next]_vars PROVE CountedHere'
<1> USE ChainType DEF PlacesOK
<1>1. ASSUME NEW c \in Client, ~counted'[c], ~evicting[c], evicting' = evicting,
             \A d \in Client \ {c} : at'[d] = at[d] /\ counted'[d] = counted[d]
      PROVE  CountedHere'
  BY <1>1 DEF CountedHere, BucketOf
<1>2. ASSUME UNCHANGED <<at, counted, evicting>> PROVE CountedHere'
  BY <1>2 DEF CountedHere, BucketOf
<1>3. ASSUME NEW c \in Client, Arrive(c) PROVE CountedHere'
  <2>1. ~counted[c]
    BY <1>3 DEF Arrive, CountedHere
  <2>2. counted' = counted /\ \A d \in Client \ {c} : at'[d] = at[d]
    BY <1>3 DEF Arrive, Leave
  <2> QED BY <1>1, <1>3, <2>1, <2>2, NoneOwed
<1>4. ASSUME NEW c \in Client, Pass(c), ~evicting[c], evicting' = evicting
      PROVE  CountedHere'
  <2>1. ~counted'[c] /\ \A d \in Client \ {c} : at'[d] = at[d] /\ counted'[d] = counted[d]
    BY <1>4, PassOthers
  <2> QED BY <1>1, <1>4, <2>1
<1>5. ASSUME NEW c \in Client, NoKeyFound(c) PROVE CountedHere'
  <2>1. ~evicting[c] /\ evicting' = evicting
    BY <1>5, NoneOwed
  <2>2. CASE Leave(c, "bad_request") /\ UNCHANGED counted
    <3>1. BucketOf(c) \notin Bucket
      BY <1>5 DEF NoKeyFound, BucketOf, Bucket
    <3>2. ~counted[c]
      BY <3>1 DEF CountedHere, Evictable
    <3> QED BY <1>1, <2>1, <2>2, <3>2 DEF Leave
  <2> QED BY <1>4, <1>5, <2>1, <2>2 DEF NoKeyFound
<1>6. ASSUME NEW c \in Client, Unlimited(c) \/ Admit(c) PROVE CountedHere'
  <2>1. Pass(c) /\ ~evicting[c] /\ evicting' = evicting
    BY <1>6, NoneOwed DEF Unlimited, Admit
  <2> QED BY <1>4, <2>1
<1>7. ASSUME NEW c \in Client, CountCheck(c) PROVE CountedHere'
  <2>1. /\ at' = at /\ counted' = [counted EXCEPT ![c] = TRUE]
        /\ at[c] # 0 /\ BucketOf(c) \in Evictable(at[c])
        /\ \A d \in Client \ {c} : evicting'[d] = evicting[d]
    BY <1>7 DEF CountCheck
  <2> QED BY <2>1 DEF CountedHere, BucketOf
<1>8. ASSUME NEW c \in Client, Reject(c) PROVE CountedHere'
  BY <1>1, <1>8, NoneOwed DEF Reject, Leave
<1>9. ASSUME NEW c \in Client, Evict(c) PROVE CountedHere'
  <2>1. /\ at' = at /\ counted' = counted
        /\ \A d \in Client : evicting'[d] => evicting[d]
    BY <1>9 DEF Evict
  <2> QED BY <2>1 DEF CountedHere, BucketOf
<1>10. UNCHANGED vars \/ Tick => UNCHANGED <<at, counted, evicting>>
  BY DEF vars, Tick
<1> QED BY <1>2, <1>3, <1>5, <1>6, <1>7, <1>8, <1>9, <1>10 DEF Next

(* Sets of requests at a limiter are finite.                               *)
LEMMA CountedFinite == \A i : IsFiniteSet(Counted(i))
                              /\ Cardinality(Counted(i)) \in Nat
<1> SUFFICES ASSUME NEW i PROVE IsFiniteSet(Counted(i)) /\ Cardinality(Counted(i)) \in Nat
  OBVIOUS
<1>1. Counted(i) \in SUBSET Client /\ IsFiniteSet(Client)
  BY RateLimitAssumption DEF Counted
<1> QED BY <1>1, FS_Subset, FS_CardinalityType

(* The same, after a step.                                                 *)
LEMMA CountedFiniteNext == \A i : IsFiniteSet(Counted(i)')
                                  /\ Cardinality(Counted(i)') \in Nat
<1> SUFFICES ASSUME NEW i
             PROVE  IsFiniteSet(Counted(i)') /\ Cardinality(Counted(i)') \in Nat
  OBVIOUS
<1>1. Counted(i)' \in SUBSET Client /\ IsFiniteSet(Client)
  BY RateLimitAssumption DEF Counted
<1> QED BY <1>1, FS_Subset, FS_CardinalityType

(* The checks since an eviction, and those of the evictions still owed,    *)
(* are counted.                                                            *)
LEMMA RoomType ==
  ASSUME PlacesOK, NEW i \in 1..N
  PROVE  /\ Since(i) \in Nat /\ kept[i] \in Nat /\ Room(i) \in Nat
         /\ IsFiniteSet(Evicting(i)) /\ Cardinality(Evicting(i)) \in Nat
<1>1. checks[i] \in 0..(EvictionInterval - 1) /\ EvictionInterval \in Nat
  BY RateLimitAssumption DEF PlacesOK
<1>2. Since(i) \in Nat /\ kept[i] \in Nat
  <2>1. Since(i) \in Nat
    BY <1>1 DEF Since
  <2>2. kept[i] \in Nat
    BY DEF PlacesOK
  <2> QED BY <2>1, <2>2
<1>3. Evicting(i) \in SUBSET Client /\ IsFiniteSet(Client)
  BY RateLimitAssumption DEF Evicting
<1>4. IsFiniteSet(Evicting(i)) /\ Cardinality(Evicting(i)) \in Nat
  BY <1>3, FS_Subset, FS_CardinalityType
<1>5. \A e, n, r \in Nat : e * n + r \in Nat
  OBVIOUS
<1>6. Room(i) \in Nat
  BY <1>1, <1>2, <1>4, <1>5 DEF Room
<1> QED BY <1>2, <1>4, <1>6

(* A smaller set holds no more.                                            *)
LEMMA Smaller == ASSUME NEW S, NEW T, IsFiniteSet(S), T \subseteq S
                 PROVE  /\ IsFiniteSet(T) /\ Cardinality(T) <= Cardinality(S)
                        /\ Cardinality(T) \in Nat /\ Cardinality(S) \in Nat
<1>1. T \in SUBSET S
  OBVIOUS
<1> QED BY <1>1, FS_Subset, FS_CardinalityType

(* A set with one member more holds at most one more.                      *)
LEMMA OneMoreMember ==
  ASSUME NEW S, NEW T, NEW x, IsFiniteSet(S), T \subseteq S \cup {x}
  PROVE  /\ IsFiniteSet(T) /\ Cardinality(T) <= Cardinality(S) + 1
         /\ Cardinality(T) \in Nat /\ Cardinality(S) \in Nat
<1>1. IsFiniteSet(S \cup {x}) /\ Cardinality(S) \in Nat
      /\ Cardinality(S \cup {x}) = IF x \in S THEN Cardinality(S) ELSE Cardinality(S) + 1
  BY FS_AddElement, FS_CardinalityType
<1>2. IsFiniteSet(T) /\ Cardinality(T) <= Cardinality(S \cup {x}) /\ Cardinality(T) \in Nat
  BY <1>1, Smaller
<1> QED BY <1>1, <1>2

(* A set without one of its members holds one less.                        *)
LEMMA OneMemberLess ==
  ASSUME NEW S, NEW T, NEW x \in S, IsFiniteSet(S), T \subseteq S \ {x}
  PROVE  /\ IsFiniteSet(T) /\ Cardinality(T) + 1 <= Cardinality(S)
         /\ Cardinality(T) \in Nat /\ Cardinality(S) \in Nat
<1>1. IsFiniteSet(S \ {x}) /\ Cardinality(S) \in Nat
      /\ Cardinality(S \ {x}) = Cardinality(S) - 1
  BY FS_RemoveElement, FS_CardinalityType
<1>2. IsFiniteSet(T) /\ Cardinality(T) <= Cardinality(S \ {x}) /\ Cardinality(T) \in Nat
  BY <1>1, Smaller
<1> QED BY <1>1, <1>2

(* Fewer keys and fewer requests about to add one.                         *)
LEMMA StoreShrinks ==
  ASSUME NEW i \in 1..N, PlacesOK, StoreAt(i),
         Stored(i, tat)' \subseteq Stored(i, tat), Counted(i)' \subseteq Counted(i),
         Evicting(i)' = Evicting(i), kept'[i] = kept[i], checks'[i] = checks[i]
  PROVE  StoreAt(i)'
<1>1. /\ IsFiniteSet(Stored(i, tat)')
      /\ Cardinality(Stored(i, tat)') <= Cardinality(Stored(i, tat))
      /\ Cardinality(Stored(i, tat)') \in Nat /\ Cardinality(Stored(i, tat)) \in Nat
  BY Smaller DEF StoreAt
<1>2. /\ Cardinality(Counted(i)') <= Cardinality(Counted(i))
      /\ Cardinality(Counted(i)') \in Nat /\ Cardinality(Counted(i)) \in Nat
  BY CountedFinite, Smaller
<1>3. Room(i)' = Room(i) /\ kept'[i] = kept[i] /\ Room(i) \in Nat /\ kept[i] \in Nat
  BY RoomType DEF Room, Since
<1>4. \A a, b, c, d, k, n \in Nat : a <= b /\ c <= d /\ b + d <= k + n => a + c <= k + n
  OBVIOUS
<1>5. Cardinality(Stored(i, tat)) + Cardinality(Counted(i)) <= kept[i] + Room(i)
  BY DEF StoreAt
<1>6. Cardinality(Stored(i, tat)') + Cardinality(Counted(i)') <= kept[i] + Room(i)
  BY ONLY <1>1, <1>2, <1>3, <1>4, <1>5
<1> QED BY <1>1, <1>3, <1>6 DEF StoreAt

(* A counted request that is let through adds at most the key it was       *)
(* counted for.                                                            *)
LEMMA StoreAdmit ==
  ASSUME NEW i \in 1..N, NEW c \in Client,
         ClockInv, PlacesOK, CountedHere, StoreAt(i), Admit(c)
  PROVE  StoreAt(i)'
<1> DEFINE b == BucketOf(c)
<1>1. /\ b \in Bucket /\ tat' = [tat EXCEPT ![b] = NextTat(b)] /\ Pass(c)
      /\ kept' = kept /\ checks' = checks
      /\ b \in Evictable(at[c]) => counted[c]
  BY DEF Admit, MayCheck
<1>2. b[1] = at[c]
  BY DEF BucketOf
<1>3. /\ ~counted'[c] /\ ~evicting[c] /\ evicting' = evicting
      /\ \A d \in Client \ {c} : at'[d] = at[d] /\ counted'[d] = counted[d]
  BY <1>1, PassOthers, NoneOwed
<1> HIDE DEF b
<1>4. \A d \in Bucket \ {b} : tat'[d] = tat[d]
  BY <1>1 DEF ClockInv
<1>5. Counted(i)' \subseteq Counted(i) \ {c} /\ Evicting(i)' = Evicting(i)
  BY <1>3 DEF Counted, Evicting
<1>6. CASE b \in Evictable(i)
  <2>1. i = at[c] /\ c \in Counted(i)
    BY <1>1, <1>2, <1>6 DEF Evictable, Counted
  <2>2. Stored(i, tat)' \subseteq Stored(i, tat) \cup {b}
    BY <1>4 DEF Stored, Evictable
  <2>3. /\ IsFiniteSet(Stored(i, tat)')
        /\ Cardinality(Stored(i, tat)') <= Cardinality(Stored(i, tat)) + 1
        /\ Cardinality(Stored(i, tat)') \in Nat /\ Cardinality(Stored(i, tat)) \in Nat
    BY <2>2, OneMoreMember DEF StoreAt
  <2>4. /\ Cardinality(Counted(i)') + 1 <= Cardinality(Counted(i))
        /\ Cardinality(Counted(i)') \in Nat /\ Cardinality(Counted(i)) \in Nat
    BY <1>5, <2>1, CountedFinite, OneMemberLess
  <2>5. Room(i)' = Room(i) /\ kept'[i] = kept[i] /\ Room(i) \in Nat /\ kept[i] \in Nat
    BY <1>1, <1>5, RoomType DEF Room, Since
  <2>6. \A s, t, x, y, k, n \in Nat :
          s <= t + 1 /\ x + 1 <= y /\ t + y <= k + n => s + x <= k + n
    OBVIOUS
  <2>7. Cardinality(Stored(i, tat)) + Cardinality(Counted(i)) <= kept[i] + Room(i)
    BY DEF StoreAt
  <2>8. Cardinality(Stored(i, tat)') + Cardinality(Counted(i)') <= kept[i] + Room(i)
    BY ONLY <2>3, <2>4, <2>5, <2>6, <2>7
  <2> QED BY <2>3, <2>5, <2>8 DEF StoreAt
<1>7. CASE b \notin Evictable(i)
  <2>1. Stored(i, tat)' \subseteq Stored(i, tat)
    BY <1>4, <1>7 DEF Stored, Evictable
  <2> QED BY <1>1, <1>5, <2>1, StoreShrinks
<1> QED BY <1>6, <1>7

(* Every check counted makes room for the key it may add: in the current   *)
(* interval, or in the one that its own eviction opens.                    *)
LEMMA StoreCount ==
  ASSUME NEW i \in 1..N, NEW c \in Client,
         PlacesOK, CountedHere, StoreAt(i), CountCheck(c)
  PROVE  StoreAt(i)'
<1> DEFINE x == at[c]
<1>1. /\ x \in 1..N /\ at' = at /\ tat' = tat /\ kept' = kept
      /\ counted' = [counted EXCEPT ![c] = TRUE]
      /\ evicting' = [evicting EXCEPT ![c] = checks[x] = 0]
      /\ checks' = [checks EXCEPT ![x] = (@ + 1) % EvictionInterval]
      /\ ~counted[c] /\ ~evicting[c]
  BY DEF CountCheck, PlacesOK, CountedHere
<1>2. Stored(i, tat)' = Stored(i, tat)
  BY <1>1 DEF Stored
<1>3. CASE i # x
  <2>1. Counted(i)' \subseteq Counted(i) /\ Evicting(i)' = Evicting(i)
    BY <1>1, <1>3 DEF Counted, Evicting, PlacesOK
  <2>2. checks'[i] = checks[i] /\ kept'[i] = kept[i]
    BY <1>1, <1>3 DEF PlacesOK
  <2> QED BY <1>2, <2>1, <2>2, StoreShrinks
<1>4. CASE i = x
  <2> DEFINE C  == Cardinality(Counted(i))
             C1 == Cardinality(Counted(i)')
             V  == Cardinality(Evicting(i))
             V1 == Cardinality(Evicting(i)')
             S  == Cardinality(Stored(i, tat))
             E  == EvictionInterval
  <2>1. C1 <= C + 1 /\ C1 \in Nat /\ C \in Nat
    <3>1. Counted(i)' \subseteq Counted(i) \cup {c}
      BY <1>1, <1>4 DEF Counted, PlacesOK
    <3> QED BY <3>1, CountedFinite, OneMoreMember
  <2>2. /\ S \in Nat /\ E \in Nat \ {0} /\ V \in Nat /\ kept[i] \in Nat
        /\ checks[i] \in 0..(E - 1) /\ checks'[i] = (checks[i] + 1) % E
    BY <1>1, <1>4, RoomType, RateLimitAssumption, FS_CardinalityType DEF PlacesOK, StoreAt
  <2>3. Since(i)' = checks[i] + 1
    <3>1. Since(i)' = IF checks'[i] = 0 THEN E ELSE checks'[i]
      BY DEF Since
    <3>2. CASE checks[i] + 1 = E
      <4>1. checks'[i] = 0
        BY <2>2, <3>2
      <4> QED BY <3>1, <3>2, <4>1
    <3>3. CASE checks[i] + 1 < E
      <4>1. checks'[i] = checks[i] + 1 /\ checks[i] + 1 # 0
        BY <2>2, <3>3
      <4> QED BY <3>1, <4>1
    <3> QED BY <2>2, <3>2, <3>3
  <2>4. Room(i)' = Room(i) + 1
    <3>1. CASE checks[i] = 0
      <4>1. Evicting(i)' = Evicting(i) \cup {c} /\ c \notin Evicting(i)
        BY <1>1, <1>4, <3>1 DEF Evicting, PlacesOK
      <4>2. V1 = V + 1
        BY <4>1, RoomType, FS_AddElement
      <4>3. Room(i)' = E * (V + 1) + 1 /\ Room(i) = E * V + E
        BY <2>3, <3>1, <4>2 DEF Room, Since
      <4> HIDE DEF V
      <4>4. \A e, v \in Nat : e * (v + 1) + 1 = (e * v + e) + 1
        OBVIOUS
      <4> QED BY <2>2, <4>3, <4>4
    <3>2. CASE checks[i] # 0
      <4>1. Evicting(i)' = Evicting(i)
        BY <1>1, <1>4, <3>2 DEF Evicting, PlacesOK
      <4>2. Room(i)' = E * V + (checks[i] + 1) /\ Room(i) = E * V + checks[i]
        BY <2>3, <3>2, <4>1 DEF Room, Since
      <4> HIDE DEF V
      <4>3. \A e, v, k \in Nat : e * v + (k + 1) = (e * v + k) + 1
        OBVIOUS
      <4> QED BY <2>2, <4>2, <4>3
    <3> QED BY <3>1, <3>2
  <2>5. S + C <= kept[i] + Room(i) /\ Room(i) \in Nat
    BY RoomType DEF StoreAt
  <2>6. S + C1 <= kept'[i] + Room(i)'
    <3> HIDE DEF S, C, C1
    <3>1. \A a, b, d, k, n \in Nat : b <= d + 1 /\ a + d <= k + n => a + b <= k + (n + 1)
      OBVIOUS
    <3>2. kept'[i] = kept[i]
      BY <1>1
    <3> QED BY ONLY <2>1, <2>2, <2>4, <2>5, <3>1, <3>2
  <2> QED BY <1>2, <2>6 DEF StoreAt
<1> QED BY <1>3, <1>4

(* What an eviction leaves is kept, with the keys already counted that are *)
(* still to come; what the other evictions stand for is room to spare.     *)
LEMMA StoreEvict ==
  ASSUME NEW i \in 1..N, NEW c \in Client,
         ClockInv, PlacesOK, PlacesOK', CountedHere, StoreAt(i), Evict(c)
  PROVE  StoreAt(i)'
<1> DEFINE x == at[c]
<1>1. /\ evicting[c] /\ x \in 1..N /\ at' = at /\ counted' = counted /\ checks' = checks
      /\ evicting' = [evicting EXCEPT ![c] = FALSE]
      /\ kept' = [kept EXCEPT ![x] =
                     Cardinality(Stored(x, tat')) + Cardinality(Counted(x))]
  BY DEF Evict, PlacesOK, CountedHere
<1>2. Stored(i, tat)' \subseteq Stored(i, tat)
  BY EvictForgets DEF Stored, Evictable
<1>3. Counted(i)' = Counted(i)
  BY <1>1 DEF Counted
<1>4. CASE i # x
  <2>1. Evicting(i)' = Evicting(i)
    BY <1>1, <1>4 DEF Evicting, PlacesOK
  <2> QED BY <1>1, <1>2, <1>3, <1>4, <2>1, StoreShrinks DEF PlacesOK
<1>5. CASE i = x
  <2>1. kept'[i] = Cardinality(Stored(i, tat)') + Cardinality(Counted(i)')
    BY <1>1, <1>3, <1>5 DEF PlacesOK, Stored
  <2>2. /\ IsFiniteSet(Stored(i, tat)') /\ Cardinality(Stored(i, tat)') \in Nat
    BY <1>2, Smaller DEF StoreAt
  <2>3. Cardinality(Counted(i)') \in Nat
    BY CountedFiniteNext
  <2>4. Room(i)' \in Nat
    <3>1. checks'[i] \in Nat /\ EvictionInterval \in Nat
      BY RateLimitAssumption DEF PlacesOK
    <3>2. Evicting(i)' \subseteq Evicting(i)
      BY <1>1 DEF Evicting, PlacesOK
    <3>3. Cardinality(Evicting(i)') \in Nat
      BY <3>2, RoomType, Smaller
    <3>4. Since(i)' \in Nat
      BY <3>1 DEF Since
    <3>5. \A e, n, k \in Nat : e * n + k \in Nat
      OBVIOUS
    <3> QED BY <3>1, <3>3, <3>4, <3>5 DEF Room
  <2>5. \A a, b, k \in Nat : a + b <= (a + b) + k
    OBVIOUS
  <2>6. Cardinality(Stored(i, tat)') + Cardinality(Counted(i)') <= kept'[i] + Room(i)'
    BY ONLY <2>1, <2>2, <2>3, <2>4, <2>5
  <2> QED BY <2>2, <2>6 DEF StoreAt
<1> QED BY <1>4, <1>5

(* Every step keeps the bound on the stored keys.                          *)
LEMMA StoreStep ==
  ASSUME ClockInv, PlacesOK, PlacesOK', CountedHere, StoreInv, [Next]_vars
  PROVE  StoreInv'
<1> SUFFICES ASSUME NEW i \in 1..N, StoreAt(i) PROVE StoreAt(i)'
  BY DEF StoreInv, N
<1>1. ASSUME tat' = tat, kept' = kept, checks' = checks,
             Counted(i)' \subseteq Counted(i), Evicting(i)' = Evicting(i)
      PROVE  StoreAt(i)'
  <2>1. Stored(i, tat)' \subseteq Stored(i, tat)
    BY <1>1 DEF Stored
  <2> QED BY <1>1, <2>1, StoreShrinks
<1>2. CASE UNCHANGED vars \/ Tick
  <2>1. Counted(i)' \subseteq Counted(i) /\ Evicting(i)' = Evicting(i)
    BY <1>2 DEF vars, Tick, Counted, Evicting
  <2> QED BY <1>1, <1>2, <2>1 DEF vars, Tick
<1>3. ASSUME NEW c \in Client, tat' = tat, kept' = kept, checks' = checks, ~counted'[c],
             ~evicting[c], evicting' = evicting,
             \A d \in Client \ {c} : at'[d] = at[d] /\ counted'[d] = counted[d]
      PROVE  StoreAt(i)'
  <2>1. Counted(i)' \subseteq Counted(i) /\ Evicting(i)' = Evicting(i)
    BY <1>3 DEF Counted, Evicting
  <2> QED BY <1>1, <1>3, <2>1
<1>4. ASSUME NEW c \in Client, Arrive(c) PROVE StoreAt(i)'
  <2>1. ~counted[c]
    BY <1>4 DEF Arrive, CountedHere
  <2> QED BY <1>3, <1>4, <2>1, NoneOwed DEF Arrive, Leave, PlacesOK
<1>5. ASSUME NEW c \in Client, Pass(c), tat' = tat, kept' = kept, checks' = checks,
             ~evicting[c], evicting' = evicting
      PROVE  StoreAt(i)'
  <2>1. ~counted'[c] /\ \A d \in Client \ {c} : at'[d] = at[d] /\ counted'[d] = counted[d]
    BY <1>5, PassOthers
  <2> QED BY <1>3, <1>5, <2>1
<1>6. ASSUME NEW c \in Client, NoKeyFound(c) PROVE StoreAt(i)'
  <2>1. ~evicting[c] /\ evicting' = evicting
    BY <1>6, NoneOwed
  <2>2. CASE Leave(c, "bad_request") /\ UNCHANGED counted
    <3>1. BucketOf(c) \notin Bucket
      BY <1>6 DEF NoKeyFound, BucketOf, Bucket
    <3>2. ~counted[c]
      BY <3>1 DEF CountedHere, Evictable
    <3> QED BY <1>3, <1>6, <2>1, <2>2, <3>2 DEF Leave, NoKeyFound, PlacesOK
  <2> QED BY <1>5, <1>6, <2>1, <2>2 DEF NoKeyFound
<1>7. ASSUME NEW c \in Client, Unlimited(c) PROVE StoreAt(i)'
  BY <1>5, <1>7, NoneOwed DEF Unlimited
<1>8. ASSUME NEW c \in Client, Reject(c) PROVE StoreAt(i)'
  BY <1>3, <1>8, NoneOwed DEF Reject, Leave, PlacesOK
<1>9. ASSUME NEW c \in Client, CountCheck(c) \/ Evict(c) \/ Admit(c) PROVE StoreAt(i)'
  BY <1>9, StoreAdmit, StoreCount, StoreEvict
<1> QED BY <1>2, <1>4, <1>6, <1>7, <1>8, <1>9 DEF Next

-----------------------------------------------------------------------------
(* What went through a limiter is what its buckets let through.            *)
LEMMA ThroughMember ==
  \A i, t : t \in Through(i) <=>
    \E b \in Bucket : b[1] = i /\ \E n \in 1..Len(log[b]) : t = <<b, n>>
BY DEF Through

(* The same, after a step.                                                 *)
LEMMA ThroughMemberNext ==
  \A i, t : t \in Through(i)' <=>
    \E b \in Bucket : b[1] = i /\ \E n \in 1..Len(log'[b]) : t = <<b, n>>
BY DEF Through

(* The requests between two limiters are finitely many.                    *)
LEMMA BetweenFinite == \A i, j : IsFiniteSet(Between(i, j))
<1> SUFFICES ASSUME NEW i, NEW j PROVE IsFiniteSet(Between(i, j))
  OBVIOUS
<1>1. Between(i, j) \in SUBSET Client /\ IsFiniteSet(Client)
  BY RateLimitAssumption DEF Between
<1> QED BY <1>1, FS_Subset

(* A request let through is one more through its own limiter only.         *)
LEMMA AdmitThrough ==
  ASSUME ClockInv, PlacesOK, NEW c \in Client, Admit(c), NEW k, k = at[c]
  PROVE  /\ \A i : i # k => Through(i)' = Through(i)
         /\ \E t : t \notin Through(k) /\ Through(k)' = Through(k) \cup {t}
<1> DEFINE b == BucketOf(c)
           n == Len(log[b])
<1>1. b \in Bucket /\ b[1] = k /\ log' = [log EXCEPT ![b] = Append(@, now)]
  BY DEF Admit, MayCheck, BucketOf
<1> HIDE DEF b
<1>2. n \in Nat /\ Len(log'[b]) = n + 1 /\ \A d \in Bucket \ {b} : log'[d] = log[d]
  BY <1>1 DEF ClockInv
<1>3. /\ 1..Len(log[b]) = 1..n /\ 1..Len(log'[b]) = (1..n) \cup {n + 1}
      /\ n + 1 \notin 1..n
  BY <1>2
<1> HIDE DEF n
<1>4. ASSUME NEW i, i # k PROVE Through(i)' = Through(i)
  <2>1. ASSUME NEW t PROVE t \in Through(i)' <=> t \in Through(i)
    BY <1>1, <1>2, <1>4, ThroughMember, ThroughMemberNext
  <2> QED BY <2>1
<1>5. <<b, n + 1>> \notin Through(k)
  <2> SUFFICES ASSUME <<b, n + 1>> \in Through(k) PROVE FALSE
    OBVIOUS
  <2>1. PICK d \in Bucket : \E m \in 1..Len(log[d]) : <<b, n + 1>> = <<d, m>>
    BY ThroughMember
  <2>2. d = b /\ n + 1 \in 1..Len(log[d])
    BY <2>1
  <2> QED BY <1>3, <2>2
<1>6. Through(k)' = Through(k) \cup {<<b, n + 1>>}
  <2>1. ASSUME NEW t \in Through(k)' PROVE t \in Through(k) \cup {<<b, n + 1>>}
    <3>1. PICK d \in Bucket : d[1] = k /\ \E m \in 1..Len(log'[d]) : t = <<d, m>>
      BY ThroughMemberNext
    <3>2. CASE d = b
      <4>1. PICK m \in 1..Len(log'[b]) : t = <<b, m>>
        BY <3>1, <3>2
      <4>2. m \in 1..Len(log[b]) \/ m = n + 1
        BY <1>3
      <4> QED BY <1>1, <4>1, <4>2, ThroughMember
    <3>3. CASE d # b
      BY <1>2, <3>1, <3>3, ThroughMember
    <3> QED BY <3>2, <3>3
  <2>2. ASSUME NEW t \in Through(k) PROVE t \in Through(k)'
    <3>1. PICK d \in Bucket : d[1] = k /\ \E m \in 1..Len(log[d]) : t = <<d, m>>
      BY ThroughMember
    <3>2. 1..Len(log[d]) \subseteq 1..Len(log'[d])
      <4>1. CASE d = b
        BY <1>3, <4>1
      <4>2. CASE d # b
        BY <1>2, <4>2
      <4> QED BY <4>1, <4>2
    <3> QED BY <3>1, <3>2, ThroughMemberNext
  <2>3. <<b, n + 1>> \in Through(k)'
    BY <1>1, <1>3, ThroughMemberNext
  <2> QED BY <2>1, <2>2, <2>3
<1> QED BY <1>4, <1>5, <1>6

(* A request past a limiter that limits everybody was let through by it.   *)
LEMMA BetweenPass ==
  ASSUME PlacesOK, NEW i \in 1..N, NEW j \in 1..N, NEW c \in Client, Pass(c)
  PROVE  /\ at[c] # i => Between(i, j)' \subseteq Between(i, j)
         /\ Between(i, j)' \subseteq Between(i, j) \cup {c}
         /\ at[c] = j => Between(i, j)' \subseteq Between(i, j) \ {c}
<1>1. /\ at[c] \in 0..N /\ N \in Nat
      /\ at'[c] = at[c] + 1 \/ at'[c] = 0
      /\ \A d \in Client \ {c} : at'[d] = at[d]
  BY PassCases, PassOthers, ChainType DEF PlacesOK
<1>2. \A d \in Client : d \in Between(i, j)' <=> i < at'[d] /\ at'[d] <= j
  BY DEF Between
<1>3. \A d \in Client : d \in Between(i, j) <=> i < at[d] /\ at[d] <= j
  BY DEF Between
<1>4. Between(i, j)' \subseteq Client
  BY DEF Between
<1>5. Between(i, j)' \subseteq Between(i, j) \cup {c}
  BY <1>1, <1>2, <1>3, <1>4
<1>6. at[c] # i /\ c \in Between(i, j)' => c \in Between(i, j)
  BY <1>1, <1>2, <1>3
<1>7. at[c] = j => c \notin Between(i, j)'
  BY <1>1, <1>2
<1> QED BY <1>5, <1>6, <1>7

(* Fewer requests in between, and as many through.                         *)
LEMMA ShieldsKept ==
  ASSUME NEW i, NEW j, IsFiniteSet(Through(i)), IsFiniteSet(Through(j)), Shields(i, j),
         Through(i)' = Through(i), Through(j)' = Through(j),
         Between(i, j)' \subseteq Between(i, j)
  PROVE  Shields(i, j)'
<1>1. /\ Cardinality(Between(i, j)') <= Cardinality(Between(i, j))
      /\ Cardinality(Between(i, j)') \in Nat /\ Cardinality(Between(i, j)) \in Nat
  BY BetweenFinite, Smaller
<1>2. Cardinality(Through(i)) \in Nat /\ Cardinality(Through(j)) \in Nat
  BY FS_CardinalityType
<1>3. \A a, b, x, y \in Nat : x <= y /\ a + y <= b => a + x <= b
  OBVIOUS
<1>4. Cardinality(Through(j)) + Cardinality(Between(i, j)) <= Cardinality(Through(i))
  BY DEF Shields
<1>5. Cardinality(Through(j)) + Cardinality(Between(i, j)') <= Cardinality(Through(i))
  BY ONLY <1>1, <1>2, <1>3, <1>4
<1> QED BY <1>5 DEF Shields

(* Let through by the first of two limiters, a request is between them;    *)
(* let through by the second, it no longer is.                             *)
LEMMA ShieldsAdmit ==
  ASSUME ClockInv, PlacesOK, ThroughInv, NEW c \in Client, Admit(c),
         NEW i \in 1..N, NEW j \in 1..N, i < j, Shields(i, j)
  PROVE  Shields(i, j)'
<1> DEFINE ti == Cardinality(Through(i))   ti1 == Cardinality(Through(i)')
           tj == Cardinality(Through(j))   tj1 == Cardinality(Through(j)')
           m  == Cardinality(Between(i, j)) m1 == Cardinality(Between(i, j)')
<1>1. IsFiniteSet(Through(i)) /\ IsFiniteSet(Through(j)) /\ ti \in Nat /\ tj \in Nat
  BY FS_CardinalityType DEF ThroughInv, N
<1>2. Pass(c)
  BY DEF Admit
<1>3. tj + m <= ti
  BY DEF Shields
<1>4. CASE at[c] = i
  <2>1. PICK t : t \notin Through(i) /\ Through(i)' = Through(i) \cup {t}
    BY <1>4, AdmitThrough
  <2>2. ti1 = ti + 1
    BY <1>1, <2>1, FS_AddElement
  <2>3. tj1 = tj
    BY <1>4, AdmitThrough
  <2>4. m1 <= m + 1 /\ m1 \in Nat /\ m \in Nat
    <3>1. Between(i, j)' \subseteq Between(i, j) \cup {c}
      BY <1>2, BetweenPass
    <3>2. IsFiniteSet(Between(i, j))
      BY BetweenFinite
    <3> QED BY <3>1, <3>2, OneMoreMember
  <2>5. tj1 + m1 <= ti1
    <3> HIDE DEF ti, ti1, tj, tj1, m, m1
    <3> QED BY <1>1, <1>3, <2>2, <2>3, <2>4
  <2> QED BY <2>5 DEF Shields
<1>5. CASE at[c] = j
  <2>1. PICK t : t \notin Through(j) /\ Through(j)' = Through(j) \cup {t}
    BY <1>5, AdmitThrough
  <2>2. tj1 = tj + 1
    BY <1>1, <2>1, FS_AddElement
  <2>3. ti1 = ti
    BY <1>5, AdmitThrough
  <2>4. c \in Between(i, j)
    BY <1>5 DEF Between
  <2>5. m1 + 1 <= m /\ m1 \in Nat /\ m \in Nat
    BY <1>2, <1>5, <2>4, BetweenPass, BetweenFinite, OneMemberLess
  <2>6. tj1 + m1 <= ti1
    <3> HIDE DEF ti, ti1, tj, tj1, m, m1
    <3> QED BY <1>1, <1>3, <2>2, <2>3, <2>5
  <2> QED BY <2>6 DEF Shields
<1>6. CASE at[c] # i /\ at[c] # j
  <2>1. Through(i)' = Through(i) /\ Through(j)' = Through(j)
    BY <1>6, AdmitThrough
  <2>2. Between(i, j)' \subseteq Between(i, j)
    BY <1>2, <1>6, BetweenPass
  <2> QED BY <1>1, <2>1, <2>2, ShieldsKept
<1> QED BY <1>4, <1>5, <1>6

(* Every step keeps what went through the limiters in proportion.          *)
LEMMA ThroughStep ==
  ASSUME ClockInv, PlacesOK, ThroughInv, [Next]_vars
  PROVE  ThroughInv'
<1>1. ASSUME NEW c \in Client, Admit(c) PROVE ThroughInv'
  <2>1. ASSUME NEW i \in 1..N PROVE IsFiniteSet(Through(i)')
    <3>1. IsFiniteSet(Through(i))
      BY DEF ThroughInv, N
    <3>2. Through(i)' = Through(i) \/ \E t : Through(i)' = Through(i) \cup {t}
      BY <1>1, AdmitThrough
    <3> QED BY <3>1, <3>2, FS_AddElement
  <2>2. ASSUME NEW i \in 1..N, NEW j \in 1..N, i < j /\ LimitsAll(i)
        PROVE  Shields(i, j)'
    BY <1>1, <2>2, ShieldsAdmit DEF ThroughInv, N
  <2> QED BY <2>1, <2>2 DEF ThroughInv, N, LimitsAll
<1>2. ASSUME log' = log,
             \A i, j \in 1..N : i < j /\ LimitsAll(i) => Between(i, j)' \subseteq Between(i, j)
      PROVE  ThroughInv'
  <2>1. \A i : Through(i)' = Through(i)
    BY <1>2 DEF Through
  <2>2. ASSUME NEW i \in 1..N, NEW j \in 1..N, i < j /\ LimitsAll(i)
        PROVE  Shields(i, j)'
    BY <1>2, <2>1, <2>2, ShieldsKept DEF ThroughInv, N
  <2> QED BY <2>1, <2>2 DEF ThroughInv, N, LimitsAll
<1>3. ASSUME at' = at PROVE \A i, j : Between(i, j)' = Between(i, j)
  BY <1>3 DEF Between
<1>4. ASSUME NEW c \in Client, at'[c] \in {0, 1}, \A d \in Client \ {c} : at'[d] = at[d]
      PROVE  \A i, j \in 1..N : Between(i, j)' \subseteq Between(i, j)
  <2> SUFFICES ASSUME NEW i \in 1..N, NEW j \in 1..N, NEW d \in Between(i, j)'
               PROVE  d \in Between(i, j)
    OBVIOUS
  <2>1. d \in Client /\ i < at'[d] /\ at'[d] <= j
    BY DEF Between
  <2>2. d # c
    BY <1>4, <2>1
  <2> QED BY <1>4, <2>1, <2>2 DEF Between
<1>5. ASSUME NEW c \in Client, Pass(c), BucketOf(c) \notin Bucket,
             NEW i \in 1..N, NEW j \in 1..N, LimitsAll(i)
      PROVE  Between(i, j)' \subseteq Between(i, j)
  <2>1. at[c] # i
    BY <1>5 DEF LimitsAll, BucketOf
  <2> QED BY <1>5, <2>1, BetweenPass
<1>6. CASE UNCHANGED vars \/ Tick \/ \E c \in Client : CountCheck(c) \/ Evict(c)
  BY <1>2, <1>3, <1>6 DEF vars, Tick, CountCheck, Evict
<1>7. ASSUME NEW c \in Client, Arrive(c) \/ Reject(c) PROVE ThroughInv'
  <2>1. log' = log /\ at'[c] \in {0, 1} /\ \A d \in Client \ {c} : at'[d] = at[d]
    BY <1>7 DEF Arrive, Reject, Leave, PlacesOK
  <2> QED BY <1>2, <1>4, <2>1
<1>8. ASSUME NEW c \in Client, NoKeyFound(c) \/ Unlimited(c) PROVE ThroughInv'
  <2>1. log' = log /\ BucketOf(c) \notin Bucket
    BY <1>8 DEF NoKeyFound, Unlimited, BucketOf, Bucket
  <2>2. CASE Pass(c)
    BY <1>2, <1>5, <2>1, <2>2
  <2>3. CASE Leave(c, "bad_request")
    <3>1. at'[c] \in {0, 1} /\ \A d \in Client \ {c} : at'[d] = at[d]
      BY <2>3 DEF Leave, PlacesOK
    <3> QED BY <1>2, <1>4, <2>1, <3>1
  <2> QED BY <1>8, <2>2, <2>3 DEF NoKeyFound, Unlimited
<1> QED BY <1>1, <1>6, <1>7, <1>8 DEF Next

(* The outcome of a request is known when it leaves.                       *)
LEMMA UndecidedStep == ASSUME PlacesOK, Undecided, [Next]_vars PROVE Undecided'
<1> USE DEF Undecided
<1>1. ASSUME UNCHANGED <<at, outcome>> PROVE Undecided'
  BY <1>1
<1>2. ASSUME NEW c \in Client, at'[c] # 0 => outcome'[c] = "none",
             \A d \in Client \ {c} : at'[d] = at[d] /\ outcome'[d] = outcome[d]
      PROVE  Undecided'
  BY <1>2
<1>3. ASSUME NEW c \in Client, NEW how, Leave(c, how) PROVE Undecided'
  <2>1. at'[c] = 0 /\ \A d \in Client \ {c} : at'[d] = at[d] /\ outcome'[d] = outcome[d]
    BY <1>3 DEF Leave, PlacesOK
  <2> QED BY <1>2, <2>1
<1>4. ASSUME NEW c \in Client, Pass(c), at[c] # 0 PROVE Undecided'
  <2>1. CASE Leave(c, "passed")
    BY <1>3, <2>1
  <2>2. CASE at' = [at EXCEPT ![c] = @ + 1] /\ outcome' = outcome
    <3>1. at'[c] = at[c] + 1 /\ \A d \in Client \ {c} : at'[d] = at[d]
      BY <2>2 DEF PlacesOK
    <3> QED BY <1>2, <1>4, <2>2, <3>1
  <2> QED BY <1>4, <2>1, <2>2 DEF Pass
<1>5. ASSUME NEW c \in Client, Arrive(c) PROVE Undecided'
  <2>1. CASE Leave(c, "passed")
    BY <1>3, <2>1
  <2>2. CASE at' = [at EXCEPT ![c] = 1] /\ outcome' = [outcome EXCEPT ![c] = "none"]
    <3>1. /\ outcome'[c] = "none"
          /\ \A d \in Client \ {c} : at'[d] = at[d] /\ outcome'[d] = outcome[d]
      BY <2>2 DEF PlacesOK
    <3> QED BY <1>2, <3>1
  <2> QED BY <1>5, <2>1, <2>2 DEF Arrive
<1>6. ASSUME NEW c \in Client,
             NoKeyFound(c) \/ Unlimited(c) \/ Admit(c) \/ Reject(c)
      PROVE  Undecided'
  BY <1>3, <1>4, <1>6 DEF NoKeyFound, Unlimited, Admit, Reject, MayCheck
<1>7. UNCHANGED vars \/ Tick \/ (\E c \in Client : CountCheck(c) \/ Evict(c)) => UNCHANGED <<at, outcome>>
  BY DEF vars, Tick, CountCheck, Evict
<1> QED BY <1>1, <1>5, <1>6, <1>7 DEF Next

(* At the start nothing is stored, counted or let through.                 *)
LEMMA LayerInit == Init => LayerInv
<1> SUFFICES ASSUME Init PROVE LayerInv
  OBVIOUS
<1>1. PlacesOK
  BY ChainType, RateLimitAssumption DEF Init, PlacesOK, N
<1>2. CountedHere /\ Undecided
  BY DEF Init, CountedHere, Undecided
<1>3. ASSUME NEW i \in 1..N PROVE StoreAt(i)
  <2>1. Stored(i, tat) = {} /\ Counted(i) = {}
    BY DEF Init, Stored, Evictable, Counted
  <2>2. 0 <= kept[i] + Room(i)
    BY <1>1, RoomType
  <2> QED BY <2>1, <2>2, FS_EmptySet DEF StoreAt
<1>4. ASSUME NEW i \in 1..N PROVE Through(i) = {}
  BY DEF Init, Through
<1>5. ASSUME NEW i \in 1..N, NEW j \in 1..N PROVE Between(i, j) = {}
  BY DEF Init, Between
<1>6. ThroughInv
  <2>1. ASSUME NEW i \in 1..N, NEW j \in 1..N PROVE Shields(i, j)
    <3>1. Through(i) = {} /\ Through(j) = {} /\ Between(i, j) = {}
      BY <1>4, <1>5
    <3> QED BY <3>1, FS_EmptySet DEF Shields
  <2>2. \A i \in 1..N : IsFiniteSet(Through(i))
    BY <1>4, FS_EmptySet
  <2> QED BY <2>1, <2>2 DEF ThroughInv, N
<1> QED BY <1>1, <1>2, <1>3, <1>6, ClockInvInit DEF LayerInv, StoreInv, N

(* Every step keeps the invariant.                                         *)
LEMMA LayerStep == LayerInv /\ [Next]_vars => LayerInv'
BY ClockInvStep, PlacesStep, CountedStep, StoreStep, ThroughStep, UndecidedStep
   DEF LayerInv

(* Every variable of the layer keeps its type, whatever the configured     *)
(* chain, the clients and the interval of evictions.                       *)
THEOREM TypeCorrect == Spec => []TypeOK
<1>1. LayerInv => TypeOK
  BY DEF LayerInv, ClockInv, PlacesOK, TypeOK, N
<1> QED BY <1>1, LayerInit, LayerStep, PTL DEF Spec

(* However requests interleave, between the count that starts an eviction  *)
(* and the eviction too, the store of a keyed limiter holds no more keys   *)
(* than the last eviction left and the checks counted since, an interval's *)
(* worth for each eviction begun and not done.                             *)
THEOREM StoreStaysBounded == Spec => []StoreBounded
<1>1. ASSUME LayerInv PROVE StoreBounded
  <2> SUFFICES ASSUME NEW i \in 1..Len(Limiters)
               PROVE  Cardinality(Stored(i, tat)) <= kept[i] + Room(i)
    <3>1. \A k, e, n, r \in Nat : k + e * n + r = k + (e * n + r)
      OBVIOUS
    <3>2. \A j \in 1..N : kept[j] + EvictionInterval * Cardinality(Evicting(j)) + Since(j)
                             = kept[j] + Room(j)
      BY <1>1, <3>1, RoomType, RateLimitAssumption DEF LayerInv, Room
    <3> QED BY <3>2 DEF StoreBounded, Since, N
  <2>1. /\ IsFiniteSet(Stored(i, tat))
        /\ Cardinality(Stored(i, tat)) + Cardinality(Counted(i)) <= kept[i] + Room(i)
    BY <1>1 DEF LayerInv, StoreInv, StoreAt
  <2>2. Cardinality(Stored(i, tat)) \in Nat /\ Cardinality(Counted(i)) \in Nat
    BY <2>1, CountedFinite, FS_CardinalityType
  <2>3. Room(i) \in Nat /\ kept[i] \in Nat
    BY <1>1, RoomType DEF LayerInv, N
  <2> QED BY <2>1, <2>2, <2>3
<1> QED BY <1>1, LayerInit, LayerStep, PTL DEF Spec

(* What a limiter let through, each earlier limiter that limits everybody  *)
(* let through before: a client over a narrow limit does not drain the     *)
(* wide ones behind it.                                                    *)
THEOREM NarrowShields == Spec => []NarrowLimitShieldsWide
<1>1. ASSUME LayerInv PROVE NarrowLimitShieldsWide
  <2> SUFFICES ASSUME NEW i \in 1..Len(Limiters), NEW j \in 1..Len(Limiters),
                      i < j, LimitsAll(i)
               PROVE  Cardinality(Through(j)) <= Cardinality(Through(i))
    BY DEF NarrowLimitShieldsWide, LimitsAll
  <2>1. IsFiniteSet(Through(i)) /\ IsFiniteSet(Through(j)) /\ Shields(i, j)
    BY <1>1 DEF LayerInv, ThroughInv
  <2>2. /\ Cardinality(Through(i)) \in Nat /\ Cardinality(Through(j)) \in Nat
        /\ Cardinality(Between(i, j)) \in Nat
    BY <2>1, BetweenFinite, FS_CardinalityType
  <2> QED BY <2>1, <2>2 DEF Shields
<1> QED BY <1>1, LayerInit, LayerStep, PTL DEF Spec

-----------------------------------------------------------------------------
(* A request in the chain is told of a limit only by a rejection.          *)
LEMMA LimitedByReject ==
  ASSUME PlacesOK, Undecided, [Next]_vars, NEW c \in Client,
         at[c] # 0, outcome'[c] = "limited"
  PROVE  Reject(c)
<1>1. outcome[c] = "none"
  BY DEF Undecided
<1>2. outcome' # outcome
  BY <1>1
<1>3. ASSUME NEW d \in Client, NEW how, how # "limited" PROVE ~Leave(d, how)
  BY <1>1, <1>3 DEF Leave, PlacesOK
<1>4. ASSUME NEW d \in Client PROVE ~Pass(d)
  BY <1>2, <1>3 DEF Pass
<1>5. ASSUME NEW d \in Client PROVE ~Arrive(d)
  <2>1. outcome' # [outcome EXCEPT ![d] = "none"]
    BY <1>1 DEF PlacesOK
  <2> QED BY <1>3, <2>1 DEF Arrive
<1>6. ASSUME NEW d \in Client
      PROVE  ~NoKeyFound(d) /\ ~Unlimited(d) /\ ~Admit(d) /\ ~CountCheck(d) /\ ~Evict(d)
  BY <1>2, <1>3, <1>4 DEF NoKeyFound, Unlimited, Admit, CountCheck, Evict
<1>7. ASSUME NEW d \in Client, Reject(d) PROVE d = c
  BY <1>1, <1>7 DEF Reject, Leave, PlacesOK
<1>8. ~Tick /\ ~(UNCHANGED vars)
  BY <1>2 DEF Tick, vars
<1> QED BY <1>5, <1>6, <1>7, <1>8 DEF Next

(* Arithmetic of whole periods.                                            *)
LEMMA Periods ==
  /\ \A n, p \in Int : n * p \in Int /\ (n + 1) * p = n * p + p
  /\ \A n \in Nat \ {0}, p \in Nat : p <= n * p
  /\ \A m, n, p \in Nat : m <= n => m * p <= n * p
<1>1. \A n, p \in Int : n * p \in Int /\ (n + 1) * p = n * p + p
  OBVIOUS
<1>2. \A d, p \in Nat : d * p >= 0
  OBVIOUS
<1>3. ASSUME NEW m \in Nat, NEW n \in Nat, NEW p \in Nat, m <= n PROVE m * p <= n * p
  <2> DEFINE d == n - m
  <2>1. d \in Nat /\ n = m + d
    BY <1>3
  <2>2. (m + d) * p = m * p + d * p
    BY <2>1
  <2>3. d * p >= 0 /\ d * p \in Int /\ m * p \in Int
    BY <1>1, <1>2, <2>1
  <2> HIDE DEF d
  <2> QED BY <2>1, <2>2, <2>3
<1>4. ASSUME NEW n \in Nat \ {0}, NEW p \in Nat PROVE p <= n * p
  <2>1. 1 * p <= n * p /\ 1 * p = p
    BY <1>3
  <2> QED BY <2>1
<1> QED BY <1>1, <1>3, <1>4

(* What a bucket owes when it turns a request away.                        *)
LEMMA OwesAtReject ==
  ASSUME ClockInv, NEW b \in Bucket, ~Conforms(b)
  PROVE  /\ Debt(b) \in Nat /\ Debt(b) > 0
         /\ Debt(b) + Period[b] > Cap(b)
<1>1. Period[b] \in Nat \ {0} /\ Burst[b] \in Nat \ {0}
  BY PeriodType
<1>2. NextTat(b) > now + Cap(b) /\ Cap(b) \in Nat /\ now \in Nat /\ tat[b] \in Nat
  BY CellType DEF Conforms
<1>3. Debt(b) \in Nat /\ NextTat(b) = now + Debt(b) + Period[b]
  BY <1>1, <1>2 DEF NextTat, Debt, Max2
<1>4. Period[b] <= Cap(b)
  BY <1>1, Periods DEF Cap
<1> QED BY <1>1, <1>2, <1>3, <1>4

(* A bucket turns a request away only for what it let through recently.    *)
LEMMA RejectIsExcess ==
  ASSUME ClockInv, OwesOnlyRecent, NEW b \in Bucket, ~Conforms(b)
  PROVE  \E j \in 1..Len(log[b]) :
           (Len(log[b]) - j + 2) * Period[b] > Cap(b) + (now - log[b][j])
<1> DEFINE n == Len(log[b])
<1>1. Debt(b) \in Nat /\ Debt(b) > 0 /\ Debt(b) + Period[b] > Cap(b)
  BY OwesAtReject
<1>2. PICK j \in 1..n : (n - j + 1) * Period[b] = Debt(b) + (now - log[b][j])
  BY <1>1 DEF OwesOnlyRecent, BusySince, debt
<1>3. n \in Nat /\ log[b][j] \in Nat /\ now \in Nat
  BY DEF ClockInv
<1>4. Period[b] \in Nat /\ Cap(b) \in Nat
  BY PeriodType, CellType
<1> DEFINE k == n - j + 1
<1>5. k \in Int /\ n - j + 2 = k + 1
  BY <1>3
<1>6. (k + 1) * Period[b] = k * Period[b] + Period[b]
  <2> HIDE DEF k
  <2> QED BY <1>4, <1>5, Periods
<1>7. k * Period[b] = Debt(b) + (now - log[b][j])
  BY <1>2
<1>8. (k + 1) * Period[b] > Cap(b) + (now - log[b][j])
  <2> HIDE DEF k, n
  <2> QED BY <1>1, <1>3, <1>4, <1>6, <1>7
<1> QED BY <1>2, <1>5, <1>8

(* The buckets of the layer owe nothing but what was let through since     *)
(* they were last full.                                                    *)
LEMMA LayerOwes == Spec => []OwesOnlyRecent
BY LayerIsBuckets, OwesForRecent

(* No bucket turns a request away for what other keys did, for what was    *)
(* rejected before, or because of an eviction: only when letting it        *)
(* through would have broken the quota.                                    *)
THEOREM RejectsExcess == Spec => RejectsOnlyExcess
<1> DEFINE Excess ==
      \A c \in Client :
        (at[c] # 0 /\ outcome'[c] = "limited") =>
          LET b == BucketOf(c)
              n == Len(log[b])
          IN  \E j \in 1..n : (n - j + 2) * Period[b] > Cap(b) + (now - log[b][j])
<1>1. LayerInv /\ OwesOnlyRecent /\ [Next]_vars => [Excess]_vars
  <2> SUFFICES ASSUME LayerInv, OwesOnlyRecent, [Next]_vars,
                      NEW c \in Client, at[c] # 0, outcome'[c] = "limited"
               PROVE  LET b == BucketOf(c)
                          n == Len(log[b])
                      IN  \E j \in 1..n :
                            (n - j + 2) * Period[b] > Cap(b) + (now - log[b][j])
    OBVIOUS
  <2>1. Reject(c)
    BY LimitedByReject DEF LayerInv
  <2>2. BucketOf(c) \in Bucket /\ ~Conforms(BucketOf(c))
    BY <2>1 DEF Reject, MayCheck
  <2> QED BY <2>2, RejectIsExcess DEF LayerInv
<1>2. Spec => [][Excess]_vars
  <2> HIDE DEF Excess
  <2> QED BY <1>1, LayerInit, LayerStep, LayerOwes, PTL DEF Spec
<1> QED BY <1>2 DEF RejectsOnlyExcess

-----------------------------------------------------------------------------
(* The configured burst.                                                   *)

(* A limiter is one of the configured limits.                              *)
LEMMA LimiterIsLimit == ASSUME NEW i \in 1..N PROVE IsLimit(Limiters[i])
<1>1. Limiters[i] \in {Configs[j] : j \in DOMAIN Configs}
  BY RateLimitAssumption DEF N
<1> QED BY <1>1, ConfigAssumption

(* Three and one make four.                                                *)
LEMMA AppendFourth ==
  ASSUME NEW u, NEW v, NEW w, NEW x
  PROVE  Append(<<u, v, w>>, x) = <<u, v, w, x>>
<1> DEFINE S == {u, v, w, x}
           s == <<u, v, w>>
           t == <<u, v, w, x>>
<1>1. s \in Seq(S) /\ Len(s) = 3 /\ s[1] = u /\ s[2] = v /\ s[3] = w
  OBVIOUS
<1>2. t \in Seq(S) /\ Len(t) = 4 /\ t[1] = u /\ t[2] = v /\ t[3] = w /\ t[4] = x
  OBVIOUS
<1> HIDE DEF s, t
<1>3. x \in S
  OBVIOUS
<1> HIDE DEF S
<1>4. /\ Append(s, x) \in Seq(S) /\ Len(Append(s, x)) = 4 /\ Append(s, x)[4] = x
      /\ \A i \in 1..3 : Append(s, x)[i] = s[i]
  BY <1>1, <1>3
<1>5. \A i \in 1..4 : i = 4 \/ (i \in 1..3 /\ (i = 1 \/ i = 2 \/ i = 3))
  OBVIOUS
<1>6. \A i \in 1..4 : Append(s, x)[i] = t[i]
  BY <1>1, <1>2, <1>4, <1>5
<1>7. Append(s, x) = t
  BY <1>2, <1>4, <1>6
<1> QED BY <1>7 DEF s, t

(* The first known of four addresses is an address.                        *)
LEMMA FirstKnownIsAddress ==
  ASSUME NEW c \in Client
  PROVE  IsAddress(FirstKnown(Append(Headers[c], Peer[c])))
<1> DEFINE keys == Append(Headers[c], Peer[c])
           known == {i \in DOMAIN keys : keys[i] # NoKey}
<1>1. /\ Headers[c] = <<Headers[c][1], Headers[c][2], Headers[c][3]>>
      /\ IsAddress(Headers[c][1]) /\ IsAddress(Headers[c][2]) /\ IsAddress(Headers[c][3])
      /\ IsAddress(Peer[c])
  BY ConfigAssumption
<1>2. keys = <<Headers[c][1], Headers[c][2], Headers[c][3], Peer[c]>>
  <2> DEFINE h1 == Headers[c][1]  h2 == Headers[c][2]  h3 == Headers[c][3]
  <2>1. keys = Append(<<h1, h2, h3>>, Peer[c])
    BY <1>1
  <2> HIDE DEF h1, h2, h3, keys
  <2>2. keys = <<h1, h2, h3, Peer[c]>>
    BY <2>1, AppendFourth
  <2> QED BY <2>2 DEF h1, h2, h3
<1> HIDE DEF keys
<1>3. DOMAIN keys = 1..4 /\ \A i \in 1..4 : IsAddress(keys[i])
  <2>1. DOMAIN keys = 1..4
    BY <1>2
  <2>2. /\ keys[1] = Headers[c][1] /\ keys[2] = Headers[c][2]
        /\ keys[3] = Headers[c][3] /\ keys[4] = Peer[c]
    BY <1>2
  <2>3. \A i \in 1..4 : i = 1 \/ i = 2 \/ i = 3 \/ i = 4
    OBVIOUS
  <2>4. IsAddress(keys[1]) /\ IsAddress(keys[2]) /\ IsAddress(keys[3]) /\ IsAddress(keys[4])
    BY <1>1, <2>2
  <2>5. ASSUME NEW i \in 1..4 PROVE IsAddress(keys[i])
    BY <2>3, <2>4
  <2> QED BY <2>1, <2>5
<1>4. CASE known = {}
  BY <1>4 DEF FirstKnown, IsAddress, keys
<1>5. CASE known # {}
  <2>1. known \subseteq 1..4
    BY <1>3
  <2>2. \E i \in known : \A j \in known : i <= j
    <3> HIDE DEF known
    <3>1. 1 \in known \/ 2 \in known \/ 3 \in known \/ 4 \in known
      <4>1. PICK j \in known : TRUE
        BY <1>5 DEF known
      <4>2. j = 1 \/ j = 2 \/ j = 3 \/ j = 4
        BY <2>1, <4>1
      <4> QED BY <4>1, <4>2
    <3>2. \A j \in known : j = 1 \/ j = 2 \/ j = 3 \/ j = 4
      BY <2>1
    <3> QED BY <3>1, <3>2
  <2>3. (CHOOSE i \in known : \A j \in known : i <= j) \in known
    BY <2>2
  <2>4. FirstKnown(keys) = keys[CHOOSE i \in known : \A j \in known : i <= j]
    BY <1>5 DEF FirstKnown
  <2> QED BY <1>3, <2>1, <2>3, <2>4 DEF keys
<1> QED BY <1>4, <1>5

(* A key taken from a request is one that an override may name.            *)
LEMMA KeyParses ==
  ASSUME NEW i \in 1..N, NEW c \in Client, Limiters[i].key # "global",
         KeyAt(i, c) # NoKey
  PROVE  Parses(Limiters[i].key, KeyAt(i, c))
<1>1. Limiters[i].key \in {"user_id", "peer_ip", "smart_ip"}
  BY LimiterIsLimit DEF IsLimit
<1>2. ASSUME NEW a, IsAddress(a), to_canonical(a) # NoKey
      PROVE  to_canonical(a)[1] \in {"v4", "v6", "mapped"}
  BY <1>2 DEF IsAddress, to_canonical
<1>3. CASE Limiters[i].key = "user_id"
  BY <1>3 DEF Parses
<1>4. CASE Limiters[i].key = "peer_ip"
  <2>1. KeyAt(i, c) = to_canonical(Peer[c])
    BY <1>4 DEF KeyAt, extract
  <2> QED BY <1>2, <2>1, ConfigAssumption DEF Parses
<1>5. CASE Limiters[i].key = "smart_ip"
  <2>1. KeyAt(i, c) = to_canonical(FirstKnown(Append(Headers[c], Peer[c])))
    BY <1>5 DEF KeyAt, extract
  <2> QED BY <1>2, <2>1, FirstKnownIsAddress DEF Parses
<1> QED BY <1>1, <1>3, <1>4, <1>5

(* The fields of a limit that a bucket is made from.                       *)
IsFields(m) == /\ m.rps \in Nat \ {0} /\ m.burst_rps \in Rate
               /\ m.burst_duration \in Nat

(* A rounded up quotient is a number.                                      *)
LEMMA CeilType == ASSUME NEW a \in Nat PROVE Ceil(a, TicksPerSec) \in Nat
<1>1. a + TicksPerSec - 1 \in Nat /\ TicksPerSec \in Nat \ {0}
  BY RateLimitAssumption
<1>2. \A x \in Nat, y \in Nat \ {0} : x \div y \in Nat
  OBVIOUS
<1> QED BY <1>1, <1>2 DEF Ceil

(* A limit with rps has a quota; one without has none.                     *)
LEMMA QuotaSet ==
  /\ \A m : IsFields(m) => quota(m) # Unset /\ quota(m).burst = burst_size(m)
  /\ \A m : quota(m) # Unset => m.rps # Unset
<1>1. ASSUME NEW m, IsFields(m) PROVE quota(m) # Unset /\ quota(m).burst = burst_size(m)
  <2>1. m.rps \in Nat \ {0} /\ Unset \notin Nat
    BY <1>1, ConfigAssumption DEF IsFields
  <2>2. quota(m) = [burst |-> burst_size(m), period |-> period(m)]
    BY <2>1 DEF quota
  <2>3. burst_size(m) \in Nat
    <3> DEFINE r == IF m.burst_rps # Unset /\ m.burst_rps > m.rps
                    THEN m.burst_rps ELSE m.rps
    <3>1. r \in Nat /\ m.burst_duration \in Nat
      BY <1>1 DEF IsFields, Rate
    <3> HIDE DEF r
    <3>2. m.burst_duration * r \in Nat
      BY <3>1
    <3>3. Ceil(m.burst_duration * r, TicksPerSec) \in Nat
      BY <3>2, CeilType
    <3> QED BY <2>1, <3>3 DEF burst_size, r
  <2>4. period(m) \in Nat
    <3>1. \A x, y \in Nat \ {0} : x \div y \in Nat
      OBVIOUS
    <3>2. TicksPerSec \in Nat \ {0}
      BY RateLimitAssumption
    <3> QED BY <2>1, <3>1, <3>2 DEF period
  <2>5. quota(m) \in [burst : Nat, period : Nat]
    BY <2>2, <2>3, <2>4
  <2> QED BY <2>2, <2>5, ConfigAssumption
<1> QED BY <1>1 DEF quota

(* The burst of a quota is what the documentation says, unless that is     *)
(* nothing.                                                                *)
LEMMA BurstIsDocumented ==
  ASSUME NEW m, IsFields(m)
  PROVE  LET rates == {m.rps, m.burst_rps} \ {Unset}
             fastest == CHOOSE r \in rates : \A s \in rates : s <= r
         IN  /\ burst_size(m) >= Ceil(fastest * m.burst_duration, TicksPerSec)
             /\ Ceil(fastest * m.burst_duration, TicksPerSec) \in Nat
<1> DEFINE rates == {m.rps, m.burst_rps} \ {Unset}
           fastest == CHOOSE r \in rates : \A s \in rates : s <= r
           fast == IF m.burst_rps # Unset /\ m.burst_rps > m.rps
                   THEN m.burst_rps ELSE m.rps
           size == Ceil(m.burst_duration * fast, TicksPerSec)
<1>1. m.rps \in Nat /\ m.rps # Unset /\ (m.burst_rps = Unset \/ m.burst_rps \in Nat)
      /\ m.burst_duration \in Nat
  BY ConfigAssumption DEF IsFields, Rate
<1>2. fast \in rates /\ \A s \in rates : s <= fast
  BY <1>1
<1>3. \A r \in rates : r \in Nat
  BY <1>1
<1>4. fastest \in rates /\ \A s \in rates : s <= fastest
  <2> HIDE DEF rates, fast
  <2> QED BY <1>2
<1>5. fastest = fast
  <2> HIDE DEF rates, fast, fastest
  <2>1. fast <= fastest /\ fastest <= fast /\ fast \in Nat /\ fastest \in Nat
    BY <1>2, <1>3, <1>4
  <2> QED BY <2>1
<1>6. fast \in Nat
  BY <1>2, <1>3
<1>7. size = Ceil(fastest * m.burst_duration, TicksPerSec)
  <2> HIDE DEF fast, fastest, rates
  <2>1. m.burst_duration * fast = fastest * m.burst_duration
    BY <1>1, <1>5, <1>6
  <2> QED BY <2>1
<1>8. size \in Nat
  <2> HIDE DEF fast
  <2>1. m.burst_duration * fast \in Nat
    BY <1>1, <1>6
  <2> QED BY <2>1, CeilType
<1>9. burst_size(m) = IF size = 0 THEN m.rps ELSE size
  BY DEF burst_size
<1>10. burst_size(m) >= size
  <2> HIDE DEF size
  <2> QED BY <1>1, <1>8, <1>9
<1> QED BY <1>7, <1>8, <1>10

(* The bucket of a key has the burst documented for it.                    *)
LEMMA BucketIsDocumented ==
  ASSUME NEW i \in 1..N, NEW c \in Client, <<i, KeyAt(i, c)>> \in Bucket
  PROVE  /\ Documented(i, KeyAt(i, c), "rps") # Unset
         /\ Burst[<<i, KeyAt(i, c)>>] >= DocumentedBurst(i, KeyAt(i, c))
         /\ DocumentedBurst(i, KeyAt(i, c)) \in Nat
<1> DEFINE k == KeyAt(i, c)
           l == Limiters[i]
           o == l.overrides[k]
<1>1. IsLimit(l) /\ k # NoKey /\ QuotaAt(i, k) # Unset
      /\ Burst[<<i, k>>] = QuotaAt(i, k).burst
  BY LimiterIsLimit DEF Bucket, Burst
<1>2. CASE l.key # "global" /\ k \in DOMAIN l.overrides
  <2> DEFINE m == with_override(l, o)
  <2>1. o \in [rps : Rate, burst_rps : Rate, burst_duration : Nat \cup {Unset}]
    BY <1>1, <1>2 DEF IsLimit
  <2>2. /\ l.rps \in Rate /\ l.burst_rps \in Rate /\ l.burst_duration \in Nat
        /\ {"rps", "burst_rps", "burst_duration"} \subseteq DOMAIN l
    BY <1>1 DEF IsLimit
  <2>3. /\ m.rps = Or(o.rps, l.rps) /\ m.burst_rps = Or(o.burst_rps, l.burst_rps)
        /\ m.burst_duration = Or(o.burst_duration, l.burst_duration)
    <3> HIDE DEF l, o
    <3> QED BY <2>2 DEF with_override
  <2>4. /\ Documented(i, k, "rps") = m.rps /\ Documented(i, k, "burst_rps") = m.burst_rps
        /\ Documented(i, k, "burst_duration") = m.burst_duration
    BY <1>2, <2>3 DEF Documented
  <2>5. m.rps # Unset => IsFields(m)
    <3> HIDE DEF l, o, m
    <3> QED BY <2>1, <2>2, <2>3 DEF IsFields, Or, Rate
  <2>6. m.rps # Unset /\ QuotaAt(i, k) = quota(m)
    <3>1. CASE k \in OverrideKeys(l)
      <4>1. QuotaAt(i, k) = quota(m)
        BY <1>2, <3>1 DEF QuotaAt, Overridden
      <4> QED BY <1>1, <4>1, QuotaSet
    <3>2. CASE k \notin OverrideKeys(l)
      <4>1. quota(m) = Unset
        BY <1>1, <1>2, <3>2, KeyParses DEF OverrideKeys
      <4>2. quota(l) # Unset
        BY <1>1, <3>2 DEF QuotaAt, Overridden
      <4>3. l.rps # Unset
        BY <4>2, QuotaSet
      <4>4. m.rps # Unset
        BY <2>3, <4>3 DEF Or
      <4> QED BY <2>5, <4>1, <4>4, QuotaSet
    <3> QED BY <3>1, <3>2
  <2>7. Burst[<<i, k>>] = burst_size(m)
    <3>1. quota(m).burst = burst_size(m)
      BY <2>5, <2>6, QuotaSet
    <3> QED BY <1>1, <2>6, <3>1
  <2>8. DocumentedBurst(i, k) =
          LET rates == {m.rps, m.burst_rps} \ {Unset}
              fastest == CHOOSE r \in rates : \A s \in rates : s <= r
          IN  Ceil(fastest * m.burst_duration, TicksPerSec)
    <3> HIDE DEF k, m
    <3> QED BY <2>4 DEF DocumentedBurst
  <2> HIDE DEF m, l, o
  <2>9. /\ burst_size(m) >= DocumentedBurst(i, k)
       /\ DocumentedBurst(i, k) \in Nat
    BY <2>5, <2>6, <2>8, BurstIsDocumented
  <2> QED BY <2>4, <2>6, <2>7, <2>9
<1>3. CASE ~(l.key # "global" /\ k \in DOMAIN l.overrides)
  <2>1. /\ Documented(i, k, "rps") = l.rps /\ Documented(i, k, "burst_rps") = l.burst_rps
        /\ Documented(i, k, "burst_duration") = l.burst_duration
    BY <1>3 DEF Documented
  <2>2. QuotaAt(i, k) = quota(l)
    BY <1>3 DEF QuotaAt, Overridden, OverrideKeys
  <2>3. l.rps # Unset
    BY <1>1, <2>2, QuotaSet
  <2>4. IsFields(l)
    <3> HIDE DEF l
    <3> QED BY <1>1, <2>3 DEF IsFields, IsLimit, Rate
  <2>5. Burst[<<i, k>>] = burst_size(l)
    <3>1. quota(l).burst = burst_size(l)
      BY <2>4, QuotaSet
    <3> QED BY <1>1, <2>2, <3>1
  <2>6. DocumentedBurst(i, k) =
          LET rates == {l.rps, l.burst_rps} \ {Unset}
              fastest == CHOOSE r \in rates : \A s \in rates : s <= r
          IN  Ceil(fastest * l.burst_duration, TicksPerSec)
    <3> HIDE DEF k, l
    <3> QED BY <2>1 DEF DocumentedBurst
  <2> HIDE DEF l
  <2>7. /\ burst_size(l) >= DocumentedBurst(i, k)
       /\ DocumentedBurst(i, k) \in Nat
    BY <2>4, <2>6, BurstIsDocumented
  <2> QED BY <2>1, <2>3, <2>5, <2>7
<1> QED BY <1>2, <1>3

(* A bucket that turns a request away let its burst through before.        *)
LEMMA BurstSpent ==
  ASSUME ClockInv, OwesOnlyLet, NEW b \in Bucket, ~Conforms(b)
  PROVE  Len(log[b]) >= Burst[b]
<1> DEFINE n == Len(log[b])
<1>1. Debt(b) \in Nat /\ Debt(b) + Period[b] > Cap(b)
  BY OwesAtReject
<1>2. Debt(b) <= n * Period[b]
  BY DEF OwesOnlyLet, debt
<1>3. n \in Nat /\ Period[b] \in Nat /\ Burst[b] \in Nat /\ Cap(b) \in Nat
  BY PeriodType, CellType DEF ClockInv
<1> HIDE DEF n
<1>4. (n + 1) * Period[b] = n * Period[b] + Period[b] /\ n * Period[b] \in Int
  BY <1>3, Periods
<1>5. (n + 1) * Period[b] > Burst[b] * Period[b]
  BY <1>1, <1>2, <1>3, <1>4 DEF Cap
<1>6. CASE n < Burst[b]
  <2>1. n + 1 \in Nat /\ n + 1 <= Burst[b]
    BY <1>3, <1>6
  <2>2. (n + 1) * Period[b] <= Burst[b] * Period[b]
    BY <1>3, <2>1, Periods
  <2>3. (n + 1) * Period[b] \in Int /\ Burst[b] * Period[b] \in Int
    BY <1>3, Periods
  <2> QED BY <1>5, <2>2, <2>3
<1> QED BY <1>3, <1>6 DEF n

(* The buckets of the layer owe no more than they let through.             *)
LEMMA LayerOwesLet == Spec => []OwesOnlyLet
BY LayerIsBuckets, OwesWhatItLet

(* For every configuration: a key with an override that inherits what it   *)
(* leaves out is rejected only after the documented burst went through,    *)
(* and never when neither the limit nor the override sets rps.             *)
THEOREM BurstGranted == Spec => BurstHonoured
<1> DEFINE Granted ==
      \A c \in Client :
        (at[c] # 0 /\ outcome'[c] = "limited") =>
          LET k == KeyAt(at[c], c)
          IN  /\ Documented(at[c], k, "rps") # Unset
              /\ Len(log[BucketOf(c)]) >= DocumentedBurst(at[c], k)
<1>1. LayerInv /\ OwesOnlyLet /\ [Next]_vars => [Granted]_vars
  <2> SUFFICES ASSUME LayerInv, OwesOnlyLet, [Next]_vars,
                      NEW c \in Client, at[c] # 0, outcome'[c] = "limited"
               PROVE  /\ Documented(at[c], KeyAt(at[c], c), "rps") # Unset
                      /\ Len(log[BucketOf(c)]) >= DocumentedBurst(at[c], KeyAt(at[c], c))
    OBVIOUS
  <2>1. Reject(c)
    BY LimitedByReject DEF LayerInv
  <2>2. BucketOf(c) \in Bucket /\ ~Conforms(BucketOf(c))
    BY <2>1 DEF Reject, MayCheck
  <2>3. at[c] \in 1..N
    BY ChainType DEF LayerInv, PlacesOK
  <2>4. /\ Documented(at[c], KeyAt(at[c], c), "rps") # Unset
        /\ Burst[BucketOf(c)] >= DocumentedBurst(at[c], KeyAt(at[c], c))
        /\ DocumentedBurst(at[c], KeyAt(at[c], c)) \in Nat
    BY <2>2, <2>3, BucketIsDocumented DEF BucketOf
  <2>5. Len(log[BucketOf(c)]) >= Burst[BucketOf(c)]
    BY <2>2, BurstSpent DEF LayerInv
  <2>6. Len(log[BucketOf(c)]) \in Nat /\ Burst[BucketOf(c)] \in Nat
    BY <2>2, PeriodType DEF LayerInv, ClockInv
  <2> HIDE DEF LayerInv
  <2> QED BY <2>4, <2>5, <2>6
<1>2. Spec => [][Granted]_vars
  <2> HIDE DEF Granted
  <2> QED BY <1>1, LayerInit, LayerStep, LayerOwesLet, PTL DEF Spec
<1> QED BY <1>2 DEF BurstHonoured
=============================================================================
