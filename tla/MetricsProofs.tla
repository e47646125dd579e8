---------------------------- MODULE MetricsProofs ----------------------------
(***************************************************************************)
(* A scrape tells what was recorded, and no text has a series twice, for   *)
(* all requests, scrapes, exporters, resources and labels, if no key that  *)
(* is configured takes the name of another one.                            *)
(***************************************************************************)
EXTENDS Metrics, TLAPS, FiniteSetTheorems, SequenceTheorems, WellFoundedInduction

(* The first of some positions: every set of naturals has a least element. *)
(* (By the well-founded ordering of finite sets, here of initial segments: *)
(* it is the one the library states without an operator parameter.)        *)
LEMMA LeastNatural ==
  ASSUME NEW S, S \subseteq Nat, S # {}
  PROVE  \E i \in S : \A j \in S : i <= j
<1> DEFINE UpTo == {0..i : i \in S}
<1>1. UpTo \subseteq FiniteSubsetsOf(Nat)
  <2>1. ASSUME NEW i \in S PROVE IsFiniteSet(0..i) /\ 0..i \subseteq Nat
    BY FS_Interval
  <2> QED BY <2>1 DEF FiniteSubsetsOf
<1>2. PICK B \in UpTo : \A C \in UpTo : ~(<<C, B>> \in StrictSubsetOrdering(Nat))
  <2>1. UpTo # {}
    OBVIOUS
  <2> HIDE DEF UpTo
  <2> QED BY <1>1, <2>1, FS_StrictSubsetOrderingWellFounded, WFMin
<1>3. PICK i \in S : B = 0..i
  OBVIOUS
<1>4. ASSUME NEW j \in S, ~(i <= j) PROVE FALSE
  <2>1. 0..j \subseteq 0..i /\ i \in 0..i /\ i \notin 0..j
    BY <1>4
  <2>2. 0..j \in SUBSET Nat /\ 0..i \in SUBSET Nat
    OBVIOUS
  <2>3. <<0..j, 0..i>> \in StrictSubsetOrdering(Nat)
    BY <2>1, <2>2 DEF StrictSubsetOrdering
  <2> QED BY <1>2, <1>3, <2>3
<1> QED BY <1>4


-----------------------------------------------------------------------------
(* Sequences of which some elements are kept.                              *)

(* As many elements are kept up to some position as one asks for.          *)
LEMMA RankReached ==
  ASSUME NEW N \in Nat, NEW K \in SUBSET (1..N), NEW k \in 1..Cardinality(K)
  PROVE  \E i \in K : Cardinality({j \in K : j <= i}) = k
<1> DEFINE UpTo(m) == {j \in K : j <= m}
           reached == {m \in 0..N : Cardinality(UpTo(m)) >= k}
<1>0. K \subseteq 1..N /\ \A j \in K : j \in Int /\ 1 <= j /\ j <= N
  OBVIOUS
<1>1. IsFiniteSet(K) /\ Cardinality(K) \in Nat
  <2>1. IsFiniteSet(1..N)
    BY FS_Interval
  <2> QED BY <1>0, <2>1, FS_Subset, FS_CardinalityType
<1>2. ASSUME NEW m \in Int PROVE IsFiniteSet(UpTo(m)) /\ Cardinality(UpTo(m)) \in Nat
  BY <1>1, FS_Subset, FS_CardinalityType
<1>3. UpTo(N) = K
  BY ONLY <1>0
<1>4. N \in reached
  <2>1. Cardinality(UpTo(N)) >= k
    BY <1>1, <1>3
  <2> QED BY <2>1
<1>5. PICK m \in reached : \A l \in reached : m <= l
  <2>1. reached \subseteq Nat
    OBVIOUS
  <2> HIDE DEF reached
  <2> QED BY <1>4, <2>1, LeastNatural
<1>6. m # 0
  <2>0. \A j \in K : ~(j <= 0)
    BY ONLY <1>0
  <2>1. UpTo(0) = {}
    BY ONLY <2>0
  <2>2. Cardinality(UpTo(0)) = 0
    BY <2>1, FS_EmptySet
  <2>3. 0 \notin reached
    BY <2>2
  <2> QED BY <1>5, <2>3
<1>7. m \in 1..N /\ m - 1 \in 0..N /\ m - 1 \notin reached
  <2>1. m \in 0..N
    BY <1>5
  <2>2. m \in 1..N /\ m - 1 \in 0..N /\ ~(m <= m - 1)
    BY <1>6, <2>1
  <2> HIDE DEF reached
  <2> QED BY <1>5, <2>2
<1>8. Cardinality(UpTo(m - 1)) < k /\ Cardinality(UpTo(m)) >= k
  <2>1. Cardinality(UpTo(m)) >= k
    BY <1>5
  <2>2. ~(Cardinality(UpTo(m - 1)) >= k)
    BY <1>7
  <2> HIDE DEF UpTo
  <2>3. Cardinality(UpTo(m - 1)) \in Nat
    BY <1>2, <1>7
  <2> QED BY <2>1, <2>2, <2>3
<1>9. UpTo(m) = (IF m \in K THEN UpTo(m - 1) \cup {m} ELSE UpTo(m - 1)) /\ m \notin UpTo(m - 1)
  <2>1. m \in Int
    BY <1>7
  <2>2. \A j \in K : j <= m <=> (j = m \/ j <= m - 1)
    BY ONLY <1>0, <2>1
  <2>3. ~(m <= m - 1)
    BY ONLY <2>1
  <2> QED BY ONLY <2>2, <2>3
<1> HIDE DEF UpTo, reached
<1>10. /\ Cardinality(UpTo(m)) \in Nat /\ Cardinality(UpTo(m - 1)) \in Nat
       /\ IsFiniteSet(UpTo(m - 1))
  <2>1. m \in Int /\ m - 1 \in Int
    BY <1>7
  <2> QED BY <1>2, <2>1
<1>11. m \in K
  BY <1>8, <1>9, <1>10
<1>12. Cardinality(UpTo(m)) = Cardinality(UpTo(m - 1)) + 1
  BY <1>9, <1>10, <1>11, FS_AddElement
<1>13. Cardinality(UpTo(m)) = k
  BY <1>8, <1>10, <1>12
<1> QED BY <1>11, <1>13 DEF UpTo

(* What is kept are elements of the sequence at different positions.       *)
LEMMA KeepKeeps ==
  ASSUME NEW S, NEW s \in Seq(S), NEW K \in SUBSET DOMAIN s
  PROVE  /\ Cardinality(K) \in Nat
         /\ Keep(s, K) \in Seq(S)
         /\ Len(Keep(s, K)) = Cardinality(K)
         /\ \E at \in [1..Cardinality(K) -> K] :
              /\ \A j, k \in 1..Cardinality(K) : at[j] = at[k] => j = k
              /\ \A k \in 1..Cardinality(K) : Keep(s, K)[k] = s[at[k]]
<1> DEFINE rank == [i \in K |-> Cardinality({j \in K : j <= i})]
           n  == Cardinality(K)
           at == [k \in 1..n |-> CHOOSE i \in K : rank[i] = k]
<1>1. Len(s) \in Nat /\ DOMAIN s = 1..Len(s)
  OBVIOUS
<1>2. n \in Nat
  <2>1. K \subseteq 1..Len(s) /\ IsFiniteSet(1..Len(s))
    BY <1>1, FS_Interval
  <2> QED BY <2>1, FS_Subset, FS_CardinalityType
<1>3. ASSUME NEW k \in 1..n PROVE at[k] \in K /\ rank[at[k]] = k
  <2>1. \E i \in K : rank[i] = k
    BY <1>1, RankReached
  <2> HIDE DEF rank
  <2> QED BY <2>1
<1>4. Keep(s, K) = [k \in 1..n |-> s[at[k]]]
  BY DEF Keep
<1> HIDE DEF n, rank, at
<1>5. at \in [1..n -> K]
  BY <1>3 DEF at
<1>6. \A k \in 1..n : s[at[k]] \in S
  BY <1>1, <1>3
<1>7. Keep(s, K) \in Seq(S) /\ Len(Keep(s, K)) = n
  BY <1>2, <1>4, <1>6
<1>8. \A j, k \in 1..n : at[j] = at[k] => j = k
  BY <1>3
<1>9. \A k \in 1..n : Keep(s, K)[k] = s[at[k]]
  BY <1>4
<1> QED BY <1>2, <1>5, <1>7, <1>8, <1>9 DEF n

(* How many the first n numbers are.                                       *)
LEMMA FirstN == ASSUME NEW n \in Nat PROVE IsFiniteSet(1..n) /\ Cardinality(1..n) = n
<1>1. Cardinality(1..n) = IF 1 > n THEN 0 ELSE n - 1 + 1
  BY FS_Interval
<1>2. IsFiniteSet(1..n)
  BY FS_Interval
<1> HIDE DEF Cardinality
<1> QED BY <1>1, <1>2

(* To keep all is to leave the sequence as it is.                          *)
LEMMA KeepAll ==
  ASSUME NEW S, NEW s \in Seq(S)
  PROVE  Keep(s, DOMAIN s) = s
<1> DEFINE n == Len(s)   rank == [i \in 1..n |-> Cardinality({j \in 1..n : j <= i})]
<1>1. n \in Nat /\ DOMAIN s = 1..n
  OBVIOUS
<1>2. ASSUME NEW i \in 1..n PROVE rank[i] = i
  <2>1. {j \in 1..n : j <= i} = 1..i
    OBVIOUS
  <2>2. i \in Nat
    BY <1>1
  <2> QED BY <2>1, <2>2, FirstN
<1>3. Cardinality(1..n) = n
  BY <1>1, FirstN
<1>4. Keep(s, DOMAIN s) = [k \in 1..n |-> s[CHOOSE i \in 1..n : rank[i] = k]]
  BY <1>1, <1>3 DEF Keep
<1> HIDE DEF rank
<1>5. \A k \in 1..n : (CHOOSE i \in 1..n : rank[i] = k) = k
  BY <1>2
<1>6. Keep(s, DOMAIN s) = [k \in 1..n |-> s[k]]
  BY <1>4, <1>5
<1> QED BY <1>1, <1>6

-----------------------------------------------------------------------------
(* Sums.                                                                   *)

(* What is not above a boundary: what is not above the one before, and     *)
(* what is between the two.                                                *)
Below(P, k) == {p \in P : p.value <= Bounds[k]}

(* The next bucket adds what falls into it.                                *)
LEMMA BelowNext ==
  ASSUME MeasuresAssumption, NEW P, IsFiniteSet(P), \A p \in P : p.value \in Int,
         NEW k \in DOMAIN Bounds
  PROVE  /\ Cardinality(Below(P, k)) \in Nat /\ Cardinality(Within(P, k)) \in Nat
         /\ k = 1 => Cardinality(Below(P, k)) = Cardinality(Within(P, k))
         /\ k # 1 => Cardinality(Below(P, k))
                       = Cardinality(Below(P, k - 1)) + Cardinality(Within(P, k))
<1>1. /\ IsFiniteSet(Below(P, k)) /\ IsFiniteSet(Within(P, k))
      /\ Cardinality(Below(P, k)) \in Nat /\ Cardinality(Within(P, k)) \in Nat
  <2>1. Below(P, k) \subseteq P /\ Within(P, k) \subseteq P
    BY DEF Below, Within
  <2> QED BY <2>1, FS_Subset, FS_CardinalityType
<1>2. CASE k = 1
  <2>1. Below(P, k) = Within(P, k)
    BY <1>2 DEF Below, Within
  <2> QED BY <1>1, <1>2, <2>1
<1>3. CASE k # 1
  <2>1. k \in Nat /\ k - 1 \in DOMAIN Bounds /\ Bounds[k] \in Int /\ Bounds[k - 1] \in Int
        /\ Bounds[k - 1] < Bounds[k]
    BY <1>3 DEF MeasuresAssumption
  <2>2. Below(P, k - 1) \cap Within(P, k) = {}
    BY <1>3, <2>1 DEF Below, Within
  <2>3. \A p \in P : p.value <= Bounds[k] <=>
                     p.value <= Bounds[k - 1] \/ (p.value <= Bounds[k] /\ p.value > Bounds[k - 1])
    BY <2>1
  <2>4. Below(P, k) = Below(P, k - 1) \cup Within(P, k)
    BY <1>3, <2>3 DEF Below, Within
  <2>5. IsFiniteSet(Below(P, k - 1)) /\ Cardinality(Below(P, k - 1)) \in Nat
    <3>1. Below(P, k - 1) \subseteq P
      BY DEF Below
    <3> QED BY <3>1, FS_Subset, FS_CardinalityType
  <2>6. Cardinality(Below(P, k))
          = Cardinality(Below(P, k - 1)) + Cardinality(Within(P, k)) - Cardinality({})
    BY <1>1, <2>2, <2>4, <2>5, FS_Union
  <2>7. Cardinality({}) = 0
    BY FS_EmptySet
  <2> QED BY <1>1, <1>3, <2>5, <2>6, <2>7
<1> QED BY <1>2, <1>3

(* The running sum of the buckets is what is not above the boundary.       *)
LEMMA CumulativeCounts ==
  ASSUME MeasuresAssumption, NEW P, IsFiniteSet(P), \A p \in P : p.value \in Int,
         NEW k \in DOMAIN Bounds
  PROVE  Cumulative(P, k) = Cardinality(Below(P, k))
<1> DEFINE Sums(f) == f = [j \in 0..k |-> IF j = 0 THEN 0 ELSE f[j - 1] + Cardinality(Within(P, j))]
           upTo == CHOOSE f : Sums(f)
           count == [j \in 0..k |-> IF j = 0 THEN 0 ELSE Cardinality(Below(P, j))]
<1>1. Cumulative(P, k) = upTo[k]
  BY DEF Cumulative
<1>2. k \in Nat /\ k >= 1 /\ \A j \in 1..k : j \in DOMAIN Bounds
  BY DEF MeasuresAssumption
<1>3. \A j \in 1..k : count[j] = count[j - 1] + Cardinality(Within(P, j))
  <2> SUFFICES ASSUME NEW j \in 1..k
               PROVE  count[j] = count[j - 1] + Cardinality(Within(P, j))
    OBVIOUS
  <2>1. count[j] = Cardinality(Below(P, j))
    BY <1>2
  <2>2. j = 1 => count[j - 1] = 0
    BY <1>2
  <2>3. j # 1 => count[j - 1] = Cardinality(Below(P, j - 1))
    BY <1>2
  <2> HIDE DEF count
  <2> QED BY <1>2, <2>1, <2>2, <2>3, BelowNext
<1>4. Sums(count)
  <2> DEFINE next == [j \in 0..k |-> IF j = 0 THEN 0 ELSE count[j - 1] + Cardinality(Within(P, j))]
  <2>1. ASSUME NEW j \in 0..k PROVE count[j] = next[j]
    <3>1. CASE j = 0
      BY <3>1
    <3>2. CASE j # 0
      <4>1. j \in 1..k
        BY <3>2, <1>2
      <4>2. next[j] = count[j - 1] + Cardinality(Within(P, j))
        BY <3>2
      <4> HIDE DEF count, next
      <4> QED BY <1>3, <4>1, <4>2
    <3> QED BY <3>1, <3>2
  <2>2. DOMAIN count = 0..k /\ DOMAIN next = 0..k
    OBVIOUS
  <2>3. count = [j \in 0..k |-> count[j]] /\ next = [j \in 0..k |-> next[j]]
    OBVIOUS
  <2>4. count = next
    <3> HIDE DEF count, next
    <3> QED BY <2>1, <2>3
  <2> QED BY <2>4
<1>5. Sums(upTo)
  <2> HIDE DEF Sums
  <2> QED BY <1>4
<1>6. upTo[0] = 0 /\ \A j \in 1..k : upTo[j] = upTo[j - 1] + Cardinality(Within(P, j))
  <2>1. \A f : Sums(f) => f[0] = 0 /\ \A j \in 1..k : f[j] = f[j - 1] + Cardinality(Within(P, j))
    BY <1>2
  <2> HIDE DEF Sums, upTo
  <2> QED BY <1>5, <2>1
<1>7. count[0] = 0
  BY <1>2
<1>8. upTo[k] = count[k]
  <2> DEFINE wrong == {j \in 0..k : upTo[j] # count[j]}
  <2> SUFFICES ASSUME upTo[k] # count[k] PROVE FALSE
    OBVIOUS
  <2> HIDE DEF upTo, count
  <2>1. wrong \subseteq Nat /\ k \in wrong
    BY <1>2
  <2>2. PICK j \in wrong : \A l \in wrong : j <= l
    <3> HIDE DEF wrong
    <3> QED BY <2>1, LeastNatural
  <2>3. j \in 1..k /\ j - 1 \in 0..k /\ ~(j <= j - 1)
    BY <1>2, <1>6, <1>7
  <2>4. upTo[j - 1] = count[j - 1]
    BY <2>2, <2>3
  <2>5. upTo[j] = count[j]
    BY <1>3, <1>6, <2>3, <2>4
  <2> QED BY <2>5
<1>9. count[k] = Cardinality(Below(P, k))
  BY <1>2
<1> QED BY <1>1, <1>8, <1>9

(* The sum of ones is how many they are.                                   *)
LEMMA SumOfOnes ==
  ASSUME NEW P, IsFiniteSet(P), \A p \in P : p.value = 1
  PROVE  SumOf(P) = Cardinality(P)
<1> DEFINE OneOf(Q) == CHOOSE p \in Q : TRUE
           Sums(f) == f = [Q \in SUBSET P |->
                             IF Q = {} THEN 0 ELSE OneOf(Q).value + f[Q \ {OneOf(Q)}]]
           sum == CHOOSE f : Sums(f)
           count == [Q \in SUBSET P |-> Cardinality(Q)]
<1>1. SumOf(P) = sum[P]
  BY DEF SumOf, MapThenSumSet, MapThenFoldSet
<1>2. ASSUME NEW Q \in SUBSET P, Q # {}
      PROVE  /\ IsFiniteSet(Q) /\ Cardinality(Q) \in Nat
             /\ OneOf(Q) \in Q /\ OneOf(Q).value = 1 /\ Q \ {OneOf(Q)} \in SUBSET P
             /\ Cardinality(Q \ {OneOf(Q)}) = Cardinality(Q) - 1
  <2>1. OneOf(Q) \in Q
    BY <1>2
  <2>2. IsFiniteSet(Q)
    BY FS_Subset
  <2> HIDE DEF OneOf
  <2>3. Cardinality(Q) \in Nat /\ Cardinality(Q \ {OneOf(Q)}) = Cardinality(Q) - 1
    BY <2>1, <2>2, FS_CardinalityType, FS_RemoveElement
  <2>4. OneOf(Q).value = 1
    BY <2>1
  <2> QED BY <2>1, <2>2, <2>3, <2>4
<1> HIDE DEF OneOf
<1>3. Sums(count)
  <2>1. ASSUME NEW Q \in SUBSET P
        PROVE  Cardinality(Q) = IF Q = {} THEN 0 ELSE OneOf(Q).value + count[Q \ {OneOf(Q)}]
    <3>1. CASE Q = {}
      BY <3>1, FS_EmptySet
    <3>2. CASE Q # {}
      <4>1. count[Q \ {OneOf(Q)}] = Cardinality(Q) - 1 /\ Cardinality(Q) \in Nat /\ OneOf(Q).value = 1
        BY <1>2, <3>2
      <4> QED BY <3>2, <4>1
    <3> QED BY <3>1, <3>2
  <2> QED BY <2>1
<1>4. Sums(sum)
  <2> HIDE DEF Sums
  <2> QED BY <1>3
<1>5. \A Q \in SUBSET P : sum[Q] = IF Q = {} THEN 0 ELSE OneOf(Q).value + sum[Q \ {OneOf(Q)}]
  <2>1. \A f : Sums(f) => \A Q \in SUBSET P :
                 f[Q] = IF Q = {} THEN 0 ELSE OneOf(Q).value + f[Q \ {OneOf(Q)}]
    OBVIOUS
  <2> HIDE DEF Sums, sum
  <2> QED BY <1>4, <2>1
<1> HIDE DEF Sums, sum
<1>6. \A Q \in SUBSET P : sum[Q] = Cardinality(Q)
  <2> DEFINE Wrong == {Q \in SUBSET P : sum[Q] # Cardinality(Q)}
             sizes == {Cardinality(Q) : Q \in Wrong}
  <2> SUFFICES ASSUME Wrong # {} PROVE FALSE
    OBVIOUS
  <2>1. sizes \subseteq Nat /\ sizes # {}
    <3>1. \A Q \in SUBSET P : Cardinality(Q) \in Nat
      BY FS_Subset, FS_CardinalityType
    <3> QED BY <3>1
  <2>2. PICK n \in sizes : \A m \in sizes : n <= m
    <3> HIDE DEF sizes
    <3> QED BY <2>1, LeastNatural
  <2>3. PICK Q \in Wrong : n = Cardinality(Q)
    OBVIOUS
  <2>4. Q # {}
    <3>1. Q = {} => sum[Q] = 0 /\ Cardinality(Q) = 0
      BY <1>5, <2>3, FS_EmptySet
    <3> QED BY <2>3, <3>1
  <2>5. /\ Cardinality(Q) \in Nat /\ OneOf(Q).value = 1 /\ Q \ {OneOf(Q)} \in SUBSET P
        /\ Cardinality(Q \ {OneOf(Q)}) = Cardinality(Q) - 1
    BY <1>2, <2>3, <2>4
  <2>6. Q \ {OneOf(Q)} \notin Wrong
    <3>1. Q \ {OneOf(Q)} \in Wrong => Cardinality(Q) <= Cardinality(Q \ {OneOf(Q)})
      BY <2>2, <2>3
    <3> QED BY <2>5, <3>1
  <2>7. sum[Q \ {OneOf(Q)}] = Cardinality(Q) - 1
    BY <2>5, <2>6
  <2>8. sum[Q] = 1 + (Cardinality(Q) - 1)
    BY <1>5, <2>3, <2>4, <2>5, <2>7
  <2> QED BY <2>3, <2>5, <2>8
<1> QED BY <1>1, <1>6

-----------------------------------------------------------------------------
(* Sequences, of whatever they are.                                        *)

IsSeq(s) == s \in Seq(ToSet(s))

(* A sequence over some set is one over what is in it.                     *)
LEMMA SeqIsSeq == ASSUME NEW S, NEW s \in Seq(S) PROVE IsSeq(s)
<1>1. Len(s) \in Nat /\ DOMAIN s = 1..Len(s) /\ s = [k \in 1..Len(s) |-> s[k]]
  OBVIOUS
<1>2. \A k \in 1..Len(s) : s[k] \in ToSet(s)
  BY <1>1 DEF ToSet
<1>3. s \in [1..Len(s) -> ToSet(s)]
  BY <1>1, <1>2
<1> QED BY <1>1, <1>3 DEF IsSeq

(* A function on the first numbers is a sequence.                          *)
LEMMA FunIsSeq ==
  ASSUME NEW n \in Nat, NEW f, f = [k \in 1..n |-> f[k]]
  PROVE  IsSeq(f) /\ Len(f) = n /\ DOMAIN f = 1..n
<1>1. DOMAIN f = 1..n
  OBVIOUS
<1>2. \A k \in 1..n : f[k] \in ToSet(f)
  BY <1>1 DEF ToSet
<1>3. f \in [1..n -> ToSet(f)]
  BY <1>2
<1> HIDE DEF ToSet
<1>4. f \in Seq(ToSet(f))
  BY <1>3
<1>5. Len(f) = n
  BY <1>3
<1> QED BY <1>1, <1>4, <1>5 DEF IsSeq

(* What a sequence is made of.                                             *)
LEMMA SeqFacts ==
  ASSUME NEW s, IsSeq(s)
  PROVE  /\ Len(s) \in Nat /\ DOMAIN s = 1..Len(s) /\ s = [k \in 1..Len(s) |-> s[k]]
         /\ ToSet(s) = {s[k] : k \in 1..Len(s)}
<1> DEFINE S == ToSet(s)
<1>1. s \in Seq(S)
  BY DEF IsSeq
<1> HIDE DEF S
<1>2. Len(s) \in Nat /\ DOMAIN s = 1..Len(s) /\ s = [k \in 1..Len(s) |-> s[k]]
  BY <1>1
<1> QED BY <1>2 DEF ToSet

(* Sequences with the same elements at the same positions are the same.    *)
LEMMA SeqSame ==
  ASSUME NEW s, NEW t, IsSeq(s), IsSeq(t), Len(s) = Len(t), \A k \in 1..Len(s) : s[k] = t[k]
  PROVE  s = t
BY SeqFacts

(* Two sequences, one after the other.                                     *)
LEMMA CatFacts ==
  ASSUME NEW s, NEW t, IsSeq(s), IsSeq(t)
  PROVE  /\ IsSeq(s \o t) /\ Len(s \o t) = Len(s) + Len(t)
         /\ \A k \in 1..Len(s) : (s \o t)[k] = s[k]
         /\ \A k \in 1..Len(t) : (s \o t)[Len(s) + k] = t[k]
         /\ \A k \in DOMAIN (s \o t) :
              k \in 1..Len(s) \/ (k - Len(s) \in 1..Len(t) /\ k = Len(s) + (k - Len(s)))
         /\ ToSet(s \o t) = ToSet(s) \cup ToSet(t)
<1> DEFINE S == ToSet(s) \cup ToSet(t)
<1>0. s \in Seq(S) /\ t \in Seq(S)
  <2>1. ToSet(s) \subseteq S /\ ToSet(t) \subseteq S
    OBVIOUS
  <2> HIDE DEF S
  <2> QED BY <2>1, SeqMonotonic DEF IsSeq
<1> HIDE DEF S
<1> DEFINE m == Len(s)   n == Len(t)   c == s \o t
<1>1. m \in Nat /\ n \in Nat
  BY <1>0
<1>2. /\ c \in Seq(S) /\ Len(c) = m + n
      /\ \A k \in 1..(m + n) : c[k] = IF k <= m THEN s[k] ELSE t[k - m]
  BY <1>0, ConcatProperties
<1>3. IsSeq(c)
  BY <1>2, SeqIsSeq
<1> HIDE DEF m, n, c
<1>4. \A k \in 1..m : c[k] = s[k]
  BY <1>1, <1>2
<1>5. ASSUME NEW k \in 1..n PROVE c[m + k] = t[k]
  <2>1. m + k \in 1..(m + n) /\ ~(m + k <= m) /\ (m + k) - m = k
    BY <1>1
  <2> QED BY <1>2, <2>1
<1>6. DOMAIN c = 1..(m + n)
  BY <1>2, <1>3, SeqFacts
<1>7. \A k \in 1..(m + n) : k \in 1..m \/ (k - m \in 1..n /\ k = m + (k - m))
  BY <1>1
<1>8. ToSet(c) = ToSet(s) \cup ToSet(t)
  <2>1. /\ ToSet(c) = {c[k] : k \in 1..(m + n)}
        /\ ToSet(s) = {s[k] : k \in 1..m} /\ ToSet(t) = {t[k] : k \in 1..n}
    BY <1>2, <1>3, SeqFacts DEF m, n
  <2>2. \A k \in 1..(m + n) : c[k] \in ToSet(s) \cup ToSet(t)
    <3> SUFFICES ASSUME NEW k \in 1..(m + n) PROVE c[k] \in ToSet(s) \cup ToSet(t)
      OBVIOUS
    <3>1. CASE k \in 1..m
      BY <1>4, <2>1, <3>1
    <3>2. CASE k - m \in 1..n /\ k = m + (k - m)
      BY <1>5, <2>1, <3>2
    <3> QED BY <1>7, <3>1, <3>2
  <2>3. \A k \in 1..m : s[k] \in ToSet(c)
    BY <1>1, <1>4, <2>1
  <2>4. \A k \in 1..n : t[k] \in ToSet(c)
    <3>1. \A k \in 1..n : m + k \in 1..(m + n)
      BY <1>1
    <3> QED BY <1>5, <2>1, <3>1
  <2> QED BY <2>1, <2>2, <2>3, <2>4
<1> QED BY <1>2, <1>3, <1>4, <1>5, <1>6, <1>7, <1>8 DEF m, n, c


-----------------------------------------------------------------------------
(* Names.                                                                  *)

Replaced(n) == [k \in DOMAIN n |-> IF n[k] \in Invalid THEN "_" ELSE n[k]]
Blank       == Invalid \cup {"_"}
Spaced(n)   == \A k \in 1..(Len(n) - 1) : n[k] \notin Blank \/ n[k + 1] \notin Blank

(* Replacing characters leaves a name of the same length.                  *)
LEMMA ReplacedType ==
  ASSUME NEW n, IsSeq(n)
  PROVE  IsSeq(Replaced(n)) /\ Len(Replaced(n)) = Len(n) /\ DOMAIN Replaced(n) = 1..Len(n)
<1>1. Len(n) \in Nat /\ DOMAIN n = 1..Len(n)
  BY SeqFacts
<1>2. DOMAIN Replaced(n) = 1..Len(n) /\ Replaced(n) = [k \in 1..Len(n) |-> Replaced(n)[k]]
  BY <1>1 DEF Replaced
<1> QED BY <1>1, <1>2, FunIsSeq

(* A sanitized name is a name.                                             *)
LEMMA SanitizeType == ASSUME NEW n, IsSeq(n) PROVE IsSeq(sanitize_name(n))
<1> DEFINE r == Replaced(n)
           kept == {i \in DOMAIN r : i = 1 \/ ~(r[i - 1] = "_" /\ r[i] = "_")}
<1>1. r \in Seq(ToSet(r))
  BY ReplacedType DEF IsSeq
<1>2. kept \in SUBSET DOMAIN r
  OBVIOUS
<1>3. sanitize_name(n) = n \/ sanitize_name(n) = Keep(r, kept)
  BY DEF sanitize_name, Collapsed, Replaced
<1> HIDE DEF r, kept
<1>4. Keep(r, kept) \in Seq(ToSet(r))
  BY <1>1, <1>2, KeepKeeps
<1> QED BY <1>3, <1>4, SeqIsSeq

(* Where no two underscores would meet, characters are only replaced.      *)
LEMMA SanitizeSpaced ==
  ASSUME NEW n, IsSeq(n), Spaced(n)
  PROVE  sanitize_name(n) = Replaced(n)
<1> DEFINE r == Replaced(n)
           kept == {i \in DOMAIN r : i = 1 \/ ~(r[i - 1] = "_" /\ r[i] = "_")}
<1>1. /\ r \in Seq(ToSet(r)) /\ Len(r) = Len(n) /\ DOMAIN r = 1..Len(n)
      /\ DOMAIN n = 1..Len(n) /\ Len(n) \in Nat /\ n = [k \in 1..Len(n) |-> n[k]]
  BY ReplacedType, SeqFacts DEF IsSeq
<1>2. \A k \in DOMAIN n : r[k] = "_" <=> n[k] \in Blank
  BY DEF Replaced, Blank
<1>3. kept = DOMAIN r
  <2>1. ASSUME NEW k \in DOMAIN r, k # 1 PROVE ~(r[k - 1] = "_" /\ r[k] = "_")
    <3>1. k - 1 \in 1..(Len(n) - 1) /\ k = (k - 1) + 1 /\ k - 1 \in DOMAIN n /\ k \in DOMAIN n
      BY <1>1, <2>1
    <3>2. n[k - 1] \notin Blank \/ n[k] \notin Blank
      BY <3>1 DEF Spaced
    <3> HIDE DEF r
    <3> QED BY <1>2, <3>1, <3>2
  <2> HIDE DEF r
  <2> QED BY <2>1
<1>4. sanitize_name(n) = IF ToSet(n) \cap Invalid = {} /\ NoRun(n) THEN n ELSE Keep(r, kept)
  BY DEF sanitize_name, Collapsed, Replaced
<1>5. ToSet(n) \cap Invalid = {} => n = r
  <2>1. \A k \in DOMAIN n : n[k] \in ToSet(n)
    BY DEF ToSet
  <2> QED BY <1>1, <2>1 DEF Replaced
<1> HIDE DEF r, kept
<1>6. Keep(r, kept) = r
  BY <1>1, <1>3, KeepAll
<1> QED BY <1>4, <1>5, <1>6 DEF r

(* The instruments, one by one.                                            *)
LEMMA TheInstruments ==
  Instruments =
    { Duration("server"), Total("server"), Active("server"), Asked("server"), Replied("server"),
      Duration("client"), Total("client"), Active("client"), Asked("client"), Replied("client"),
      ClientOnly[1], ClientOnly[2], Spiffe[1], Spiffe[2], Spiffe[3],
      Runtime[1], Runtime[2], Runtime[3], Runtime[4], Runtime[5], Runtime[6] }
<1>1. \A a, b, c, d, e : ToSet(<<a, b, c, d, e>>) = {a, b, c, d, e}
  BY DEF ToSet
<1>2. DOMAIN ClientOnly = 1..2 /\ DOMAIN Spiffe = 1..3 /\ DOMAIN Runtime = 1..6
  BY DEF ClientOnly, Spiffe, Runtime
<1>3. /\ ToSet(ClientOnly) = {ClientOnly[1], ClientOnly[2]}
      /\ ToSet(Spiffe) = {Spiffe[1], Spiffe[2], Spiffe[3]}
  BY <1>2 DEF ToSet
<1>4. ToSet(Runtime) = {Runtime[1], Runtime[2], Runtime[3], Runtime[4], Runtime[5], Runtime[6]}
  BY <1>2 DEF ToSet
<1>5. \A side : ToSet(Side(side)) = {Duration(side), Total(side), Active(side), Asked(side), Replied(side)}
  BY <1>1 DEF Side
<1> QED BY <1>3, <1>4, <1>5 DEF Instruments, Server


(* Names of words with one character between two of them.                  *)
Odd          == {1, 3, 5, 7, 9}
WellNamed(n) == /\ IsSeq(n) /\ Len(n) \in Odd
                /\ \A k \in Odd : k <= Len(n) => n[k] \notin Blank

(* The words of such a name stay as they are, in their places.             *)
LEMMA WordsStay ==
  ASSUME NEW n, WellNamed(n)
  PROVE  /\ IsSeq(sanitize_name(n)) /\ Len(sanitize_name(n)) = Len(n)
         /\ \A k \in Odd : k <= Len(n) => sanitize_name(n)[k] = n[k]
<1>1. IsSeq(n) /\ Len(n) \in Odd /\ Len(n) \in Nat /\ DOMAIN n = 1..Len(n)
  BY SeqFacts DEF WellNamed
<1>2. Spaced(n)
  <2> SUFFICES ASSUME NEW k \in 1..(Len(n) - 1) PROVE n[k] \notin Blank \/ n[k + 1] \notin Blank
    BY DEF Spaced
  <2>1. k \in {1, 2, 3, 4, 5, 6, 7, 8} /\ k + 1 <= Len(n) /\ k <= Len(n)
    BY <1>1 DEF Odd
  <2>2. k \in Odd \/ k + 1 \in Odd
    BY <2>1 DEF Odd
  <2> QED BY <2>1, <2>2 DEF WellNamed
<1>3. sanitize_name(n) = Replaced(n)
  BY <1>1, <1>2, SanitizeSpaced
<1>4. IsSeq(Replaced(n)) /\ Len(Replaced(n)) = Len(n)
  BY <1>1, ReplacedType
<1>5. ASSUME NEW k \in Odd, k <= Len(n) PROVE Replaced(n)[k] = n[k]
  <2>1. k \in DOMAIN n
    BY <1>1, <1>5 DEF Odd
  <2>2. n[k] \notin Invalid
    BY <1>5 DEF WellNamed, Blank
  <2> QED BY <2>1, <2>2 DEF Replaced
<1> QED BY <1>3, <1>4, <1>5

(* Names of one, two, three, four and five words.                          *)
LEMMA WordsNamed ==
  /\ \A a : a \notin Blank => WellNamed(<<a>>)
  /\ \A a, b, x : {a, b} \cap Blank = {} => WellNamed(<<a, x, b>>)
  /\ \A a, b, c, x, y : {a, b, c} \cap Blank = {} => WellNamed(<<a, x, b, y, c>>)
  /\ \A a, b, c, d, x, y, z :
       {a, b, c, d} \cap Blank = {} => WellNamed(<<a, x, b, y, c, z, d>>)
  /\ \A a, b, c, d, e, x, y, z, v :
       {a, b, c, d, e} \cap Blank = {} => WellNamed(<<a, x, b, y, c, z, d, v, e>>)
<1>1. ASSUME NEW a, a \notin Blank PROVE WellNamed(<<a>>)
  <2>1. <<a>> \in Seq({a}) /\ Len(<<a>>) = 1
    OBVIOUS
  <2>2. IsSeq(<<a>>)
    BY <2>1, SeqIsSeq
  <2> QED BY <1>1, <2>1, <2>2 DEF WellNamed, Odd
<1>2. ASSUME NEW a, NEW b, NEW x, {a, b} \cap Blank = {} PROVE WellNamed(<<a, x, b>>)
  <2>1. <<a, x, b>> \in Seq({a, x, b}) /\ Len(<<a, x, b>>) = 3
    OBVIOUS
  <2>2. IsSeq(<<a, x, b>>)
    BY <2>1, SeqIsSeq
  <2> QED BY <1>2, <2>1, <2>2 DEF WellNamed, Odd
<1>3. ASSUME NEW a, NEW b, NEW c, NEW x, NEW y, {a, b, c} \cap Blank = {}
      PROVE  WellNamed(<<a, x, b, y, c>>)
  <2>1. <<a, x, b, y, c>> \in Seq({a, x, b, y, c}) /\ Len(<<a, x, b, y, c>>) = 5
    OBVIOUS
  <2>2. IsSeq(<<a, x, b, y, c>>)
    BY <2>1, SeqIsSeq
  <2> QED BY <1>3, <2>1, <2>2 DEF WellNamed, Odd
<1>4. ASSUME NEW a, NEW b, NEW c, NEW d, NEW x, NEW y, NEW z, {a, b, c, d} \cap Blank = {}
      PROVE  WellNamed(<<a, x, b, y, c, z, d>>)
  <2>1. <<a, x, b, y, c, z, d>> \in Seq({a, x, b, y, c, z, d}) /\ Len(<<a, x, b, y, c, z, d>>) = 7
    OBVIOUS
  <2>2. IsSeq(<<a, x, b, y, c, z, d>>)
    BY <2>1, SeqIsSeq
  <2> QED BY <1>4, <2>1, <2>2 DEF WellNamed, Odd
<1>5. ASSUME NEW a, NEW b, NEW c, NEW d, NEW e, NEW x, NEW y, NEW z, NEW v,
             {a, b, c, d, e} \cap Blank = {}
      PROVE  WellNamed(<<a, x, b, y, c, z, d, v, e>>)
  <2>1. <<a, x, b, y, c, z, d, v, e>> \in Seq({a, x, b, y, c, z, d, v, e}) /\ Len(<<a, x, b, y, c, z, d, v, e>>) = 9
    OBVIOUS
  <2>2. IsSeq(<<a, x, b, y, c, z, d, v, e>>)
    BY <2>1, SeqIsSeq
  <2> QED BY <1>5, <2>1, <2>2 DEF WellNamed, Odd
<1> QED BY <1>1, <1>2, <1>3, <1>4, <1>5

(* Whose a line is, by the first words of its name.                        *)
WhoseHttp(n) ==
  CASE n[5] = "requests" -> Total(n[3])
    [] n[5] = "active"   -> Active(n[3])
    [] n[5] = "response" -> Replied(n[3])
    [] n[5] = "rejected" -> ClientOnly[1]
    [] n[5] = "errored"  -> ClientOnly[2]
    [] n[5] = "request"  -> IF n[7] = "duration" THEN Duration(n[3]) ELSE Asked(n[3])
WhoseSpiffe(n) ==
  CASE n[5] = "errors"     -> Spiffe[1]
    [] n[5] = "updates"    -> Spiffe[2]
    [] n[5] = "reconnects" -> Spiffe[3]
WhoseRuntime(n) ==
  CASE n[3] = "workers" -> Runtime[1]
    [] n[3] = "alive"   -> Runtime[2]
    [] n[3] = "global"  -> Runtime[3]
    [] n[3] = "worker"  -> IF n[5] = "total" THEN Runtime[4]
                           ELSE IF n[7] = "count" THEN Runtime[5] ELSE Runtime[6]
Whose(n) ==
  CASE n[1] = "http"    -> WhoseHttp(n)
    [] n[1] = "spiffe"  -> WhoseSpiffe(n)
    [] n[1] = "runtime" -> WhoseRuntime(n)

Begins(n, i) == \A k \in Odd : k <= Len(i.name) => n[k] = i.name[k]

(* The words of the name of an instrument tell it from all the others.     *)
LEMMA NamesTell ==
  ASSUME NEW i \in Instruments
  PROVE  WellNamed(i.name) /\ \A n : Begins(n, i) => Whose(n) = i /\ n[1] # "target"
<1>0. /\ {"http", "server", "client", "request", "requests", "response", "duration", "active"}
           \cap Blank = {}
      /\ {"body", "size", "rejected", "errored", "spiffe", "source", "errors", "updates"}
           \cap Blank = {}
      /\ {"reconnects", "runtime", "workers", "alive", "tasks", "global", "queue", "depth"}
           \cap Blank = {}
      /\ {"worker", "total", "busy", "park", "unpark", "count"} \cap Blank = {}
  BY DEF Blank, Invalid
<1>1. ASSUME NEW side \in {"server", "client"},
             i \in {Duration(side), Total(side), Active(side), Asked(side), Replied(side)}
      PROVE  WellNamed(i.name) /\ \A n : Begins(n, i) => Whose(n) = i /\ n[1] # "target"
  <2>1. CASE i = Duration(side)
    <3>1. WellNamed(i.name)
      BY <1>0, <2>1, WordsNamed DEF Duration, I
    <3>2. Len(i.name) = 7 /\ i.name[1] = "http" /\ i.name[3] = side /\ i.name[5] = "request" /\ i.name[7] = "duration"
      BY <2>1 DEF Duration, I
    <3> QED BY <2>1, <3>1, <3>2 DEF Begins, Whose, WhoseHttp, Odd
  <2>2. CASE i = Total(side)
    <3>1. WellNamed(i.name)
      BY <1>0, <2>2, WordsNamed DEF Total, I
    <3>2. Len(i.name) = 5 /\ i.name[1] = "http" /\ i.name[3] = side /\ i.name[5] = "requests"
      BY <2>2 DEF Total, I
    <3> QED BY <2>2, <3>1, <3>2 DEF Begins, Whose, WhoseHttp, Odd
  <2>3. CASE i = Active(side)
    <3>1. WellNamed(i.name)
      BY <1>0, <2>3, WordsNamed DEF Active, I
    <3>2. Len(i.name) = 7 /\ i.name[1] = "http" /\ i.name[3] = side /\ i.name[5] = "active" /\ i.name[7] = "requests"
      BY <2>3 DEF Active, I
    <3> QED BY <2>3, <3>1, <3>2 DEF Begins, Whose, WhoseHttp, Odd
  <2>4. CASE i = Asked(side)
    <3>1. WellNamed(i.name)
      BY <1>0, <2>4, WordsNamed DEF Asked, I
    <3>2. Len(i.name) = 9 /\ i.name[1] = "http" /\ i.name[3] = side /\ i.name[5] = "request" /\ i.name[7] = "body" /\ i.name[9] = "size"
      BY <2>4 DEF Asked, I
    <3> QED BY <2>4, <3>1, <3>2 DEF Begins, Whose, WhoseHttp, Odd
  <2>5. CASE i = Replied(side)
    <3>1. WellNamed(i.name)
      BY <1>0, <2>5, WordsNamed DEF Replied, I
    <3>2. Len(i.name) = 9 /\ i.name[1] = "http" /\ i.name[3] = side /\ i.name[5] = "response" /\ i.name[7] = "body" /\ i.name[9] = "size"
      BY <2>5 DEF Replied, I
    <3> QED BY <2>5, <3>1, <3>2 DEF Begins, Whose, WhoseHttp, Odd
  <2> QED BY <1>1, <2>1, <2>2, <2>3, <2>4, <2>5
<1>2. CASE i = ClientOnly[1]
  <2>1. WellNamed(i.name)
    BY <1>0, <1>2, WordsNamed DEF ClientOnly, I
  <2>2. Len(i.name) = 7 /\ i.name[1] = "http" /\ i.name[3] = "client" /\ i.name[5] = "rejected" /\ i.name[7] = "requests"
    BY <1>2 DEF ClientOnly, I
  <2> QED BY <1>2, <2>1, <2>2 DEF Begins, Whose, WhoseHttp, Odd
<1>3. CASE i = ClientOnly[2]
  <2>1. WellNamed(i.name)
    BY <1>0, <1>3, WordsNamed DEF ClientOnly, I
  <2>2. Len(i.name) = 7 /\ i.name[1] = "http" /\ i.name[3] = "client" /\ i.name[5] = "errored" /\ i.name[7] = "requests"
    BY <1>3 DEF ClientOnly, I
  <2> QED BY <1>3, <2>1, <2>2 DEF Begins, Whose, WhoseHttp, Odd
<1>4. CASE i = Spiffe[1]
  <2>1. WellNamed(i.name)
    BY <1>0, <1>4, WordsNamed DEF Spiffe, I
  <2>2. Len(i.name) = 5 /\ i.name[1] = "spiffe" /\ i.name[3] = "source" /\ i.name[5] = "errors"
    BY <1>4 DEF Spiffe, I
  <2> QED BY <1>4, <2>1, <2>2 DEF Begins, Whose, WhoseSpiffe, Odd
<1>5. CASE i = Spiffe[2]
  <2>1. WellNamed(i.name)
    BY <1>0, <1>5, WordsNamed DEF Spiffe, I
  <2>2. Len(i.name) = 5 /\ i.name[1] = "spiffe" /\ i.name[3] = "source" /\ i.name[5] = "updates"
    BY <1>5 DEF Spiffe, I
  <2> QED BY <1>5, <2>1, <2>2 DEF Begins, Whose, WhoseSpiffe, Odd
<1>6. CASE i = Spiffe[3]
  <2>1. WellNamed(i.name)
    BY <1>0, <1>6, WordsNamed DEF Spiffe, I
  <2>2. Len(i.name) = 5 /\ i.name[1] = "spiffe" /\ i.name[3] = "source" /\ i.name[5] = "reconnects"
    BY <1>6 DEF Spiffe, I
  <2> QED BY <1>6, <2>1, <2>2 DEF Begins, Whose, WhoseSpiffe, Odd
<1>7. CASE i = Runtime[1]
  <2>1. WellNamed(i.name)
    BY <1>0, <1>7, WordsNamed DEF Runtime, I
  <2>2. Len(i.name) = 3 /\ i.name[1] = "runtime" /\ i.name[3] = "workers"
    BY <1>7 DEF Runtime, I
  <2> QED BY <1>7, <2>1, <2>2 DEF Begins, Whose, WhoseRuntime, Odd
<1>8. CASE i = Runtime[2]
  <2>1. WellNamed(i.name)
    BY <1>0, <1>8, WordsNamed DEF Runtime, I
  <2>2. Len(i.name) = 5 /\ i.name[1] = "runtime" /\ i.name[3] = "alive" /\ i.name[5] = "tasks"
    BY <1>8 DEF Runtime, I
  <2> QED BY <1>8, <2>1, <2>2 DEF Begins, Whose, WhoseRuntime, Odd
<1>9. CASE i = Runtime[3]
  <2>1. WellNamed(i.name)
    BY <1>0, <1>9, WordsNamed DEF Runtime, I
  <2>2. Len(i.name) = 7 /\ i.name[1] = "runtime" /\ i.name[3] = "global" /\ i.name[5] = "queue" /\ i.name[7] = "depth"
    BY <1>9 DEF Runtime, I
  <2> QED BY <1>9, <2>1, <2>2 DEF Begins, Whose, WhoseRuntime, Odd
<1>10. CASE i = Runtime[4]
  <2>1. WellNamed(i.name)
    BY <1>0, <1>10, WordsNamed DEF Runtime, I
  <2>2. Len(i.name) = 9 /\ i.name[1] = "runtime" /\ i.name[3] = "worker" /\ i.name[5] = "total" /\ i.name[7] = "busy" /\ i.name[9] = "duration"
    BY <1>10 DEF Runtime, I
  <2> QED BY <1>10, <2>1, <2>2 DEF Begins, Whose, WhoseRuntime, Odd
<1>11. CASE i = Runtime[5]
  <2>1. WellNamed(i.name)
    BY <1>0, <1>11, WordsNamed DEF Runtime, I
  <2>2. Len(i.name) = 7 /\ i.name[1] = "runtime" /\ i.name[3] = "worker" /\ i.name[5] = "park" /\ i.name[7] = "count"
    BY <1>11 DEF Runtime, I
  <2> QED BY <1>11, <2>1, <2>2 DEF Begins, Whose, WhoseRuntime, Odd
<1>12. CASE i = Runtime[6]
  <2>1. WellNamed(i.name)
    BY <1>0, <1>12, WordsNamed DEF Runtime, I
  <2>2. Len(i.name) = 9 /\ i.name[1] = "runtime" /\ i.name[3] = "worker" /\ i.name[5] = "park" /\ i.name[7] = "unpark" /\ i.name[9] = "count"
    BY <1>12 DEF Runtime, I
  <2> QED BY <1>12, <2>1, <2>2 DEF Begins, Whose, WhoseRuntime, Odd
<1> QED BY <1>1, <1>2, <1>3, <1>4, <1>5, <1>6, <1>7, <1>8, <1>9, <1>10, <1>11, <1>12, TheInstruments

(* A name that goes on where another one ends.                             *)
Extending(n, s) == IsSeq(n) /\ Len(s) <= Len(n) /\ \A k \in 1..Len(s) : n[k] = s[k]

(* To append something is to go on.                                        *)
LEMMA CatExtending ==
  ASSUME NEW s, NEW m, NEW t, IsSeq(s), Extending(m, s), IsSeq(t)
  PROVE  Extending(m \o t, s)
<1>1. Len(s) \in Nat /\ Len(m) \in Nat /\ Len(t) \in Nat
  BY SeqFacts DEF Extending
<1>2. /\ IsSeq(m \o t) /\ Len(m \o t) = Len(m) + Len(t)
      /\ \A k \in 1..Len(m) : (m \o t)[k] = m[k]
  BY CatFacts DEF Extending
<1>3. \A k \in 1..Len(s) : k \in 1..Len(m)
  BY <1>1 DEF Extending
<1> QED BY <1>1, <1>2, <1>3 DEF Extending

(* Short sequences.                                                        *)
LEMMA ShortSeqs ==
  /\ IsSeq(<<>>) /\ \A a : IsSeq(<<a>>) /\ Len(<<a>>) = 1 /\ <<a>>[1] = a
  /\ \A a, b : IsSeq(<<a, b>>) /\ Len(<<a, b>>) = 2 /\ <<a, b>>[1] = a /\ <<a, b>>[2] = b
<1>1. <<>> \in Seq({}) /\ Len(<<>>) = 0
  OBVIOUS
<1>2. \A a : <<a>> \in Seq({a}) /\ Len(<<a>>) = 1 /\ <<a>>[1] = a
  OBVIOUS
<1>3. \A a, b : <<a, b>> \in Seq({a, b}) /\ Len(<<a, b>>) = 2 /\ <<a, b>>[1] = a /\ <<a, b>>[2] = b
  OBVIOUS
<1> QED BY <1>1, <1>2, <1>3, SeqIsSeq

(* Units and suffixes come after the sanitized name.                       *)
LEMMA FinalNameExtends ==
  ASSUME NEW cfg, NEW i \in Instruments
  PROVE  Extending(FinalName(cfg, i), sanitize_name(i.name))
<1> DEFINE s == sanitize_name(i.name)
           unit == IF cfg.without_units THEN <<>> ELSE convert_unit(i.unit)
           m == add_unit_suffix(s, unit)
<1>1. IsSeq(s) /\ Len(s) \in Nat
  BY NamesTell, WordsStay, SeqFacts
<1>2. IsSeq(convert_unit(i.unit))
  <2> DEFINE u == i.unit
  <2>1. convert_unit(u) \in {<<>>, <<"ratio">>, <<"percent">>, <<Expanded[u]>>, <<u>>}
    BY DEF convert_unit
  <2> QED BY <2>1, ShortSeqs
<1>3. IsSeq(unit)
  BY <1>2, ShortSeqs
<1>4. Extending(s, s)
  BY <1>1 DEF Extending
<1>5. m = s \/ m = (s \o <<"_">>) \o unit
  BY DEF add_unit_suffix
<1>6. FinalName(cfg, i) = m \/ FinalName(cfg, i) = m \o <<"_", "total">>
  BY DEF FinalName
<1> HIDE DEF s, unit, m
<1>7. Extending(s \o <<"_">>, s)
  BY <1>1, <1>4, CatExtending, ShortSeqs
<1>8. Extending((s \o <<"_">>) \o unit, s)
  BY <1>1, <1>3, <1>7, CatExtending
<1>9. Extending(m, s)
  BY <1>4, <1>5, <1>8
<1>10. Extending(m \o <<"_", "total">>, s)
  BY <1>1, <1>9, CatExtending, ShortSeqs
<1> QED BY <1>6, <1>9, <1>10 DEF s

Suffixed(n, suffix) == n \o <<"_", suffix>>

(* The name of a line, with what a line of a histogram has after it.       *)
LineName(cfg, i, suffix) ==
  IF i.kind = "histogram" THEN Suffixed(FinalName(cfg, i), suffix) ELSE FinalName(cfg, i)

(* What comes last in a name.                                              *)
LEMMA LastOfName ==
  ASSUME NEW f, IsSeq(f), NEW t, IsSeq(t), Len(t) = 2
  PROVE  (f \o t)[Len(f) + 2] = t[2]
<1>1. 2 \in 1..Len(t)
  OBVIOUS
<1> QED BY <1>1, CatFacts

(* Two names that differ in what comes last.                               *)
LEMMA SuffixesTell ==
  ASSUME NEW f, IsSeq(f), NEW a, NEW b, Suffixed(f, a) = Suffixed(f, b)
  PROVE  a = b
<1> DEFINE s == <<"_", a>>   t == <<"_", b>>
<1>1. IsSeq(s) /\ Len(s) = 2 /\ s[2] = a /\ IsSeq(t) /\ Len(t) = 2 /\ t[2] = b
  BY ShortSeqs
<1>2. f \o s = f \o t
  BY DEF Suffixed
<1> HIDE DEF s, t
<1>3. (f \o s)[Len(f) + 2] = a
  BY <1>1, LastOfName
<1>4. (f \o t)[Len(f) + 2] = b
  BY <1>1, LastOfName
<1> QED BY <1>2, <1>3, <1>4

(* Two lines of one name are of one instrument, and of one part of it.     *)
LEMMA LineNamesTell ==
  ASSUME NEW cfg, NEW i \in Instruments, NEW a
  PROVE  /\ LineName(cfg, i, a)[1] # "target"
         /\ \A j \in Instruments : \A b : LineName(cfg, i, a) = LineName(cfg, j, b) =>
              i = j /\ (i.kind = "histogram" => a = b)
<1>1. ASSUME NEW j \in Instruments, NEW b
      PROVE  Whose(LineName(cfg, j, b)) = j /\ LineName(cfg, j, b)[1] # "target"
  <2> DEFINE n == LineName(cfg, j, b)   s == sanitize_name(j.name)
  <2>1. /\ WellNamed(j.name) /\ IsSeq(s) /\ Len(s) = Len(j.name)
        /\ \A k \in Odd : k <= Len(j.name) => s[k] = j.name[k]
    BY NamesTell, WordsStay
  <2>2. Extending(n, s)
    BY <2>1, FinalNameExtends, CatExtending, ShortSeqs DEF LineName, Suffixed
  <2>3. Len(j.name) \in Nat /\ \A k \in Odd : k \in Nat /\ k >= 1
    BY SeqFacts, <2>1 DEF Odd, WellNamed
  <2> HIDE DEF n, s
  <2>4. Begins(n, j)
    <3> SUFFICES ASSUME NEW k \in Odd, k <= Len(j.name) PROVE n[k] = j.name[k]
      BY DEF Begins
    <3>1. k \in 1..Len(s)
      BY <2>1, <2>3
    <3> QED BY <2>1, <2>2, <3>1 DEF Extending
  <2> QED BY <2>4, NamesTell DEF n
<1>2. ASSUME NEW j \in Instruments, NEW b, i.kind = "histogram",
             LineName(cfg, i, a) = LineName(cfg, i, b)
      PROVE  a = b
  <2> DEFINE f == FinalName(cfg, i)
  <2>1. IsSeq(f) /\ Len(f) \in Nat
    BY FinalNameExtends, SeqFacts DEF Extending
  <2>2. Suffixed(f, a) = Suffixed(f, b)
    BY <1>2 DEF LineName
  <2> HIDE DEF f
  <2> QED BY <2>1, <2>2, SuffixesTell
<1> QED BY <1>1, <1>2

-----------------------------------------------------------------------------
(* Keys.                                                                   *)

USE MetricsAssumption

ResourceKeys == ToSet(Resource)
AllKeys      == OwnKeys \cup ResourceKeys \cup CustomKeys
NameSet(K)   == {sanitize_name(k) : k \in K}
le_key       == <<"le">>
scope_key    == <<"otel", "_", "scope", "_", "name">>

(* What a key of the service is, by the words of its name.                 *)
WhoseKey(n) ==
  CASE n[1] = "http"   -> (CASE n[3] = "request"  -> <<"http", ".", "request", ".", "method">>
                             [] n[3] = "response" -> <<"http", ".", "response", ".", "status", "_", "code">>
                             [] n[3] = "route"    -> <<"http", ".", "route">>
                             [] n[3] = "client"   -> <<"http", ".", "client">>)
    [] n[1] = "url"     -> <<"url", ".", "scheme">>
    [] n[1] = "server"  -> <<"server", ".", "port">>
    [] n[1] = "uxum"    -> <<"uxum", ".", "handler">>
    [] n[1] = "runtime" -> <<"runtime", ".", "worker">>
    [] n[1] = "spiffe"  -> <<"spiffe", ".", "error", ".", "kind">>
    [] n[1] = "le"      -> <<"le">>
    [] n[1] = "otel"    -> <<"otel", "_", "scope", "_", "name">>

(* The keys of the service are told by their words.                        *)
LEMMA OwnKeysTell == \A a \in OwnKeys : WellNamed(a) /\ WhoseKey(sanitize_name(a)) = a
<1>0. /\ {"http", "request", "method", "url", "scheme", "server", "port", "response"} \cap Blank = {}
      /\ {"status", "code", "route", "uxum", "handler", "client", "runtime", "worker"} \cap Blank = {}
      /\ {"spiffe", "error", "kind", "le", "otel", "scope", "name"} \cap Blank = {}
  BY DEF Blank, Invalid
<1>1. ASSUME NEW a \in OwnKeys PROVE WellNamed(a)
  BY <1>0, WordsNamed DEF OwnKeys
<1>2. ASSUME NEW a \in OwnKeys PROVE WhoseKey(sanitize_name(a)) = a
  <2> DEFINE n == sanitize_name(a)
  <2>1. \A k \in Odd : k <= Len(a) => n[k] = a[k]
    BY <1>1, WordsStay
  <2>2. n[1] = a[1] /\ (Len(a) >= 3 => n[3] = a[3])
    <3>1. Len(a) >= 1 /\ Len(a) \in Nat /\ 1 \in Odd /\ 3 \in Odd
      BY <1>1 DEF WellNamed, Odd
    <3> HIDE DEF n
    <3> QED BY <2>1, <3>1
  <2> HIDE DEF n
  <2>3. CASE a = <<"http", ".", "request", ".", "method">>
    <3>1. Len(a) >= 3 /\ a[1] = "http" /\ a[3] = "request"
      BY <2>3
    <3> QED BY <2>2, <2>3, <3>1 DEF WhoseKey, n
  <2>4. CASE a = <<"url", ".", "scheme">>
    <3>1. a[1] = "url"
      BY <2>4
    <3> QED BY <2>2, <2>4, <3>1 DEF WhoseKey, n
  <2>5. CASE a = <<"server", ".", "port">>
    <3>1. a[1] = "server"
      BY <2>5
    <3> QED BY <2>2, <2>5, <3>1 DEF WhoseKey, n
  <2>6. CASE a = <<"http", ".", "response", ".", "status", "_", "code">>
    <3>1. Len(a) = 7 /\ a[1] = "http" /\ a[3] = "response"
      BY <2>6
    <3>2. Len(a) >= 3
      BY <3>1
    <3> QED BY <2>2, <2>6, <3>1, <3>2 DEF WhoseKey, n
  <2>7. CASE a = <<"http", ".", "route">>
    <3>1. Len(a) >= 3 /\ a[1] = "http" /\ a[3] = "route"
      BY <2>7
    <3> QED BY <2>2, <2>7, <3>1 DEF WhoseKey, n
  <2>8. CASE a = <<"uxum", ".", "handler">>
    <3>1. a[1] = "uxum"
      BY <2>8
    <3> QED BY <2>2, <2>8, <3>1 DEF WhoseKey, n
  <2>9. CASE a = <<"http", ".", "client">>
    <3>1. Len(a) >= 3 /\ a[1] = "http" /\ a[3] = "client"
      BY <2>9
    <3> QED BY <2>2, <2>9, <3>1 DEF WhoseKey, n
  <2>10. CASE a = <<"runtime", ".", "worker">>
    <3>1. a[1] = "runtime"
      BY <2>10
    <3> QED BY <2>2, <2>10, <3>1 DEF WhoseKey, n
  <2>11. CASE a = <<"spiffe", ".", "error", ".", "kind">>
    <3>1. a[1] = "spiffe"
      BY <2>11
    <3> QED BY <2>2, <2>11, <3>1 DEF WhoseKey, n
  <2>12. CASE a = <<"le">>
    <3>1. a[1] = "le"
      BY <2>12
    <3> QED BY <2>2, <2>12, <3>1 DEF WhoseKey, n
  <2>13. CASE a = <<"otel", "_", "scope", "_", "name">>
    <3>1. a[1] = "otel"
      BY <2>13
    <3> QED BY <2>2, <2>13, <3>1 DEF WhoseKey, n
  <2> QED BY <2>3, <2>4, <2>5, <2>6, <2>7, <2>8, <2>9, <2>10, <2>11, <2>12, <2>13 DEF OwnKeys
<1> QED BY <1>1, <1>2

(* The keys that are written as they are would stay as they are.           *)
LEMMA PlainKeys == sanitize_name(le_key) = le_key /\ sanitize_name(scope_key) = scope_key
<1>1. \A a : ToSet(<<a>>) = {a}
  BY DEF ToSet
<1>3. ToSet(le_key) = {"le"} /\ ToSet(scope_key) = {"otel", "_", "scope", "name"}
  <2>1. ToSet(le_key) = {"le"}
    BY <1>1 DEF le_key
  <2>2. DOMAIN scope_key = 1..5
    BY DEF scope_key
  <2>3. ToSet(scope_key) = {scope_key[1], scope_key[2], scope_key[3], scope_key[4], scope_key[5]}
    BY <2>2 DEF ToSet
  <2>4. ToSet(scope_key) = {"otel", "_", "scope", "name"}
    BY <2>3 DEF scope_key
  <2> QED BY <2>1, <2>4
<1>4. ToSet(le_key) \cap Invalid = {} /\ ToSet(scope_key) \cap Invalid = {}
  BY <1>3 DEF Invalid
<1>5. NoRun(le_key) /\ NoRun(scope_key)
  <2>1. Len(le_key) = 1
    BY DEF le_key
  <2>2. Len(scope_key) = 5 /\ scope_key[3] # "_" /\ scope_key[5] # "_"
    BY DEF scope_key
  <2>3. NoRun(le_key)
    <3> SUFFICES ASSUME NEW i \in 2..(Len(le_key) - 1) PROVE FALSE
      BY DEF NoRun
    <3>1. i \in 2..(1 - 1)
      BY <2>1
    <3> QED BY ONLY <3>1
  <2>4. ASSUME NEW i \in 2..(5 - 1) PROVE ~(scope_key[i] = "_" /\ scope_key[i + 1] = "_")
    <3>1. i = 2 \/ i = 3 \/ i = 4
      OBVIOUS
    <3>2. i = 2 => i + 1 = 3
      BY <3>1
    <3>3. i = 4 => i + 1 = 5
      BY <3>1
    <3> QED BY <2>2, <3>1, <3>2, <3>3
  <2>5. NoRun(scope_key)
    BY <2>2, <2>4 DEF NoRun
  <2> QED BY <2>3, <2>5
<1> QED BY <1>4, <1>5 DEF sanitize_name

(* Different keys have different names.                                    *)
LEMMA KeysTell == \A a, b \in AllKeys : sanitize_name(a) = sanitize_name(b) => a = b
<1>1. \A a, b \in OwnKeys : sanitize_name(a) = sanitize_name(b) => a = b
  BY OwnKeysTell
<1> QED BY <1>1 DEF AllKeys, ResourceKeys, KeysAssumption

(* Keys that have nothing in common have no name in common.                *)
LEMMA NamesApart ==
  ASSUME NEW K \in SUBSET AllKeys, NEW L \in SUBSET AllKeys, K \cap L = {}
  PROVE  NameSet(K) \cap NameSet(L) = {}
BY KeysTell DEF NameSet

-----------------------------------------------------------------------------
(* Labels.                                                                 *)

KeysOf(s)   == {l.key : l \in ToSet(s)}
Once(s)     == \A j, k \in DOMAIN s : s[j].key = s[k].key => j = k
IsLabels(s) == IsSeq(s) /\ \A l \in ToSet(s) : l = Label(l.key, l.value)

(* A label at some position is one of the labels, and the other way round. *)
LEMMA AtPosition ==
  ASSUME NEW s, IsSeq(s)
  PROVE  /\ \A k \in DOMAIN s : s[k] \in ToSet(s) /\ s[k].key \in KeysOf(s)
         /\ \A l \in ToSet(s) : \E k \in DOMAIN s : s[k] = l
         /\ \A x \in KeysOf(s) : \E k \in DOMAIN s : s[k].key = x
BY DEF ToSet, KeysOf

(* Labels whose keys are different, after others.                          *)
LEMMA CatOnce ==
  ASSUME NEW s, NEW t, IsSeq(s), IsSeq(t), Once(s), Once(t), KeysOf(s) \cap KeysOf(t) = {}
  PROVE  IsSeq(s \o t) /\ Once(s \o t) /\ KeysOf(s \o t) = KeysOf(s) \cup KeysOf(t)
<1> DEFINE c == s \o t   m == Len(s)   n == Len(t)
<1>1. /\ IsSeq(c) /\ m \in Nat /\ n \in Nat /\ DOMAIN s = 1..m /\ DOMAIN t = 1..n
      /\ \A k \in 1..m : c[k] = s[k]
      /\ \A k \in 1..n : c[m + k] = t[k]
      /\ \A k \in DOMAIN c : k \in 1..m \/ (k - m \in 1..n /\ k = m + (k - m))
      /\ ToSet(c) = ToSet(s) \cup ToSet(t)
  BY CatFacts, SeqFacts
<1>2. KeysOf(c) = KeysOf(s) \cup KeysOf(t)
  BY <1>1 DEF KeysOf
<1> HIDE DEF c, m, n
<1>3. ASSUME NEW j \in DOMAIN c, NEW k \in DOMAIN c, c[j].key = c[k].key PROVE j = k
  <2>1. CASE j \in 1..m /\ k \in 1..m
    BY <1>1, <1>3, <2>1 DEF Once
  <2>2. CASE j \notin 1..m /\ k \notin 1..m
    <3>1. /\ j - m \in 1..n /\ j = m + (j - m) /\ k - m \in 1..n /\ k = m + (k - m)
      BY <1>1, <2>2
    <3>2. t[j - m].key = t[k - m].key
      BY <1>1, <1>3, <3>1
    <3>3. j - m = k - m
      BY <1>1, <3>1, <3>2 DEF Once
    <3> QED BY <3>1, <3>3
  <2>3. ASSUME NEW x \in DOMAIN c, NEW y \in DOMAIN c, x \in 1..m, y \notin 1..m PROVE c[x].key # c[y].key
    <3>1. y - m \in 1..n /\ y = m + (y - m)
      BY <1>1, <2>3
    <3>2. c[x].key = s[x].key /\ c[y].key = t[y - m].key
      BY <1>1, <2>3, <3>1
    <3>3. s[x].key \in KeysOf(s) /\ t[y - m].key \in KeysOf(t)
      BY <1>1, <2>3, <3>1, AtPosition
    <3> QED BY <3>2, <3>3
  <2> QED BY <1>3, <2>1, <2>2, <2>3
<1> QED BY <1>1, <1>2, <1>3 DEF Once, c

(* The labels with the names of their keys.                                *)
Renamed(l) == Label(sanitize_name(l.key), l.value)

(* To sanitize labels is to rename their keys, one by one.                 *)
LEMMA SanitizedFacts ==
  ASSUME NEW s, IsLabels(s)
  PROVE  /\ IsLabels(Sanitized(s)) /\ Len(Sanitized(s)) = Len(s) /\ DOMAIN Sanitized(s) = 1..Len(s)
         /\ \A k \in 1..Len(s) : Sanitized(s)[k] = Renamed(s[k])
         /\ ToSet(Sanitized(s)) = {Renamed(l) : l \in ToSet(s)}
         /\ KeysOf(Sanitized(s)) = NameSet(KeysOf(s))
<1> DEFINE z == Sanitized(s)   n == Len(s)
<1>1. IsSeq(s) /\ n \in Nat /\ DOMAIN s = 1..n /\ \A k \in 1..n : s[k] = Label(s[k].key, s[k].value)
  BY SeqFacts, AtPosition DEF IsLabels
<1>2. ASSUME NEW l, l = Label(l.key, l.value)
      PROVE  [l EXCEPT !.key = sanitize_name(@)] = Renamed(l)
  BY <1>2 DEF Renamed, Label
<1>3. z = [k \in 1..n |-> Renamed(s[k])]
  <2>1. z = [k \in 1..n |-> [s[k] EXCEPT !.key = sanitize_name(@)]]
    BY <1>1 DEF Sanitized
  <2> HIDE DEF z, n
  <2>2. \A k \in 1..n : [s[k] EXCEPT !.key = sanitize_name(@)] = Renamed(s[k])
    BY <1>1, <1>2
  <2> QED BY <2>1, <2>2
<1> HIDE DEF z, n
<1>4. z = [k \in 1..n |-> z[k]] /\ \A k \in 1..n : z[k] = Renamed(s[k])
  BY <1>3
<1>5. IsSeq(z) /\ Len(z) = n /\ DOMAIN z = 1..n
  BY <1>1, <1>4, FunIsSeq
<1>6. ToSet(z) = {Renamed(l) : l \in ToSet(s)}
  <2>1. ToSet(z) = {z[k] : k \in 1..n} /\ ToSet(s) = {s[k] : k \in 1..n}
    BY <1>1, <1>5, SeqFacts DEF n
  <2> QED BY <1>4, <2>1
<1>7. \A l : Renamed(l).key = sanitize_name(l.key) /\ Renamed(l) = Label(Renamed(l).key, Renamed(l).value)
  BY DEF Renamed, Label
<1>8. IsLabels(z)
  BY <1>5, <1>6, <1>7 DEF IsLabels
<1>9. KeysOf(z) = NameSet(KeysOf(s))
  BY <1>6, <1>7 DEF KeysOf, NameSet
<1> QED BY <1>4, <1>5, <1>6, <1>8, <1>9 DEF z, n

(* Labels of different keys keep different keys.                           *)
LEMMA SanitizedOnce ==
  ASSUME NEW s, IsLabels(s), Once(s), KeysOf(s) \subseteq AllKeys
  PROVE  Once(Sanitized(s))
<1>1. IsSeq(s) /\ DOMAIN s = 1..Len(s)
  BY SeqFacts DEF IsLabels
<1>2. \A k \in DOMAIN s : Sanitized(s)[k].key = sanitize_name(s[k].key) /\ s[k].key \in AllKeys
  <2> SUFFICES ASSUME NEW k \in DOMAIN s
               PROVE  Sanitized(s)[k].key = sanitize_name(s[k].key) /\ s[k].key \in AllKeys
    OBVIOUS
  <2>1. Sanitized(s)[k] = Renamed(s[k])
    BY <1>1, SanitizedFacts
  <2>2. s[k].key \in KeysOf(s)
    BY <1>1, AtPosition
  <2>3. Renamed(s[k]).key = sanitize_name(s[k].key)
    BY DEF Renamed, Label
  <2> QED BY <2>1, <2>2, <2>3
<1>3. DOMAIN Sanitized(s) = DOMAIN s
  BY <1>1, SanitizedFacts
<1> QED BY <1>2, <1>3, KeysTell DEF Once

(* Labels are told by their names and values.                              *)
LEMMA SanitizedTell ==
  ASSUME NEW s, NEW t, IsLabels(s), IsLabels(t), KeysOf(s) \subseteq AllKeys, KeysOf(t) \subseteq AllKeys,
         ToSet(Sanitized(s)) = ToSet(Sanitized(t))
  PROVE  ToSet(s) = ToSet(t)
<1>1. ASSUME NEW a, NEW b, IsLabels(a), IsLabels(b), KeysOf(a) \subseteq AllKeys, KeysOf(b) \subseteq AllKeys,
             ToSet(Sanitized(a)) = ToSet(Sanitized(b)), NEW l \in ToSet(a)
      PROVE  l \in ToSet(b)
  <2>1. Renamed(l) \in {Renamed(m) : m \in ToSet(b)}
    BY <1>1, SanitizedFacts
  <2>2. PICK m \in ToSet(b) : Renamed(l) = Renamed(m)
    BY <2>1
  <2>3. sanitize_name(l.key) = sanitize_name(m.key) /\ l.value = m.value
    BY <2>2 DEF Renamed, Label
  <2>4. l.key \in AllKeys /\ m.key \in AllKeys
    BY <1>1 DEF KeysOf
  <2>5. l.key = m.key
    BY <2>3, <2>4, KeysTell
  <2>6. l = Label(l.key, l.value) /\ m = Label(m.key, m.value)
    BY <1>1 DEF IsLabels
  <2> QED BY <2>3, <2>5, <2>6
<1> QED BY <1>1

(* The attributes of the resource at some positions, as labels.            *)
Attributes(K) ==
  LET keys == Keep(Resource, K)
  IN  Sanitized([k \in DOMAIN keys |-> Label(keys[k], "r")])

(* Each of them is there once.                                             *)
LEMMA AttributesOnce ==
  ASSUME NEW K \in SUBSET DOMAIN Resource
  PROVE  /\ IsSeq(Attributes(K)) /\ Once(Attributes(K))
         /\ KeysOf(Attributes(K)) \subseteq NameSet({Resource[k] : k \in K})
<1> DEFINE n == Cardinality(K)   keys == Keep(Resource, K)
           s == [k \in DOMAIN keys |-> Label(keys[k], "r")]
<1>0. Resource \in Seq(Seq(STRING)) /\ IsInjective(Resource)
  BY DEF KeysAssumption
<1>1. /\ n \in Nat /\ keys \in Seq(Seq(STRING)) /\ Len(keys) = n
      /\ \E at \in [1..n -> K] : /\ \A j, k \in 1..n : at[j] = at[k] => j = k
                                 /\ \A k \in 1..n : keys[k] = Resource[at[k]]
  <2> DEFINE S == Seq(STRING)
  <2>1. Resource \in Seq(S)
    BY <1>0
  <2> HIDE DEF S
  <2>2. /\ n \in Nat /\ keys \in Seq(S) /\ Len(keys) = n
        /\ \E at \in [1..n -> K] : /\ \A j, k \in 1..n : at[j] = at[k] => j = k
                                   /\ \A k \in 1..n : keys[k] = Resource[at[k]]
    BY <2>1, KeepKeeps
  <2> QED BY <2>2 DEF S
<1>2. PICK at \in [1..n -> K] : /\ \A j, k \in 1..n : at[j] = at[k] => j = k
                                /\ \A k \in 1..n : keys[k] = Resource[at[k]]
  BY <1>1
<1>3. Attributes(K) = Sanitized(s)
  BY DEF Attributes
<1> HIDE DEF n
<1>4. DOMAIN keys = 1..n
  <2> HIDE DEF keys
  <2> QED BY <1>1
<1> HIDE DEF keys
<1>5. s = [k \in 1..n |-> s[k]] /\ \A k \in 1..n : s[k] = Label(Resource[at[k]], "r")
  BY <1>2, <1>4
<1> HIDE DEF s
<1>6. IsSeq(s) /\ Len(s) = n /\ DOMAIN s = 1..n
  BY <1>1, <1>5, FunIsSeq
<1>7. ToSet(s) = {Label(Resource[at[k]], "r") : k \in 1..n}
  BY <1>5, <1>6 DEF ToSet
<1>8. IsLabels(s)
  BY <1>6, <1>7 DEF IsLabels, Label
<1>9. KeysOf(s) \subseteq {Resource[k] : k \in K}
  BY <1>2, <1>7 DEF KeysOf, Label
<1>10. Once(s)
  <2> SUFFICES ASSUME NEW j \in 1..n, NEW k \in 1..n, s[j].key = s[k].key PROVE j = k
    BY <1>6 DEF Once
  <2>1. Resource[at[j]] = Resource[at[k]]
    BY <1>5 DEF Label
  <2>2. at[j] \in DOMAIN Resource /\ at[k] \in DOMAIN Resource
    BY <1>2
  <2>3. at[j] = at[k]
    BY <1>0, <2>1, <2>2 DEF IsInjective
  <2> QED BY <1>2, <2>3
<1>11. {Resource[k] : k \in K} \subseteq AllKeys
  BY DEF AllKeys, ResourceKeys, ToSet
<1>12. Once(Sanitized(s))
  BY <1>8, <1>9, <1>10, <1>11, SanitizedOnce
<1>13. IsSeq(Sanitized(s)) /\ KeysOf(Sanitized(s)) = NameSet(KeysOf(s))
  BY <1>8, SanitizedFacts DEF IsLabels
<1> QED BY <1>3, <1>9, <1>12, <1>13 DEF NameSet

Matching(cfg) == {k \in DOMAIN Resource : matches(cfg, Resource[k])}
Others(cfg)   == {k \in DOMAIN Resource : ~matches(cfg, Resource[k])}

(* Every attribute goes to the lines or to target_info.                    *)
LEMMA ResourceSplit ==
  ASSUME NEW cfg
  PROVE  /\ static_labels(cfg) = Attributes(Matching(cfg))
         /\ Matching(cfg) \in SUBSET DOMAIN Resource /\ Others(cfg) \in SUBSET DOMAIN Resource
         /\ {Resource[k] : k \in Matching(cfg)} \cap {Resource[k] : k \in Others(cfg)} = {}
         /\ {Resource[k] : k \in Matching(cfg)} \subseteq ResourceKeys
         /\ {Resource[k] : k \in Others(cfg)} \subseteq ResourceKeys
<1>1. static_labels(cfg) = Attributes(Matching(cfg))
  BY DEF static_labels, ResourceLabels, Attributes, Matching
<1>2. {Resource[k] : k \in Matching(cfg)} \cap {Resource[k] : k \in Others(cfg)} = {}
  BY DEF Matching, Others
<1> QED BY <1>1, <1>2 DEF Matching, Others, ResourceKeys, ToSet

(* No label is twice in target_info.                                       *)
LEMMA TargetOnce ==
  ASSUME NEW cfg, NEW x \in TargetInfo(cfg)
  PROVE  x.name[1] = "target" /\ Once(x.labels)
<1> DEFINE s == Attributes(Others(cfg))   t == Attributes(Matching(cfg))
<1>1. x = Line(<<"target">>, <<"target", "_", "info">>, s \o t, 1)
  BY ResourceSplit DEF TargetInfo, ResourceLabels, Attributes, Others
<1>2. x.name = <<"target", "_", "info">> /\ x.labels = s \o t
  BY <1>1 DEF Line
<1>3. /\ IsSeq(s) /\ Once(s) /\ KeysOf(s) \subseteq NameSet({Resource[k] : k \in Others(cfg)})
      /\ IsSeq(t) /\ Once(t) /\ KeysOf(t) \subseteq NameSet({Resource[k] : k \in Matching(cfg)})
  BY AttributesOnce, ResourceSplit
<1>4. NameSet({Resource[k] : k \in Matching(cfg)}) \cap NameSet({Resource[k] : k \in Others(cfg)}) = {}
  BY ResourceSplit, NamesApart DEF AllKeys
<1>5. Once(s \o t)
  BY <1>3, <1>4, CatOnce
<1>6. <<"target", "_", "info">>[1] = "target"
  OBVIOUS
<1> HIDE DEF s, t
<1> QED BY <1>2, <1>5, <1>6

-----------------------------------------------------------------------------
(* What is written as the labels of a line.                                *)

LineKeys == AllKeys \ ({le_key, scope_key} \cup ResourceKeys)
Bare(s)  == IsLabels(s) /\ Once(s) /\ KeysOf(s) \subseteq LineKeys
IsLe(le) == le = <<>> \/ \E v : le = << Label(le_key, v) >>

(* No label, and one label.                                                *)
LEMMA FewLabels ==
  /\ ToSet(<<>>) = {} /\ KeysOf(<<>>) = {} /\ Once(<<>>) /\ IsLabels(<<>>)
  /\ \A a, v : LET s == << Label(a, v) >> IN
       ToSet(s) = {Label(a, v)} /\ KeysOf(s) = {a} /\ Once(s) /\ IsLabels(s)
<1>1. ToSet(<<>>) = {} /\ KeysOf(<<>>) = {} /\ Once(<<>>)
  BY DEF ToSet, KeysOf, Once
<1>2. ASSUME NEW l PROVE ToSet(<<l>>) = {l} /\ KeysOf(<<l>>) = {l.key} /\ Once(<<l>>)
  <2>1. DOMAIN <<l>> = {1} /\ <<l>>[1] = l
    OBVIOUS
  <2>2. ToSet(<<l>>) = {l}
    BY <2>1 DEF ToSet
  <2>3. Once(<<l>>)
    BY <2>1 DEF Once
  <2> QED BY <2>2, <2>3 DEF KeysOf
<1>3. \A a, v : Label(a, v).key = a /\ Label(a, v) = Label(Label(a, v).key, Label(a, v).value)
  BY DEF Label
<1> QED BY <1>1, <1>2, <1>3, ShortSeqs DEF IsLabels

(* The keys of the parts of a line have nothing in common.                 *)
LEMMA PartsApart ==
  /\ NameSet(LineKeys) \cap NameSet(ResourceKeys) = {}
  /\ le_key \notin NameSet(LineKeys) \cup NameSet(ResourceKeys)
  /\ scope_key \notin NameSet(LineKeys) \cup NameSet(ResourceKeys)
  /\ le_key # scope_key
<1>1. le_key \in OwnKeys /\ scope_key \in OwnKeys
  BY DEF OwnKeys, le_key, scope_key
<1>2. LineKeys \subseteq AllKeys /\ ResourceKeys \subseteq AllKeys /\ LineKeys \cap ResourceKeys = {}
  BY DEF LineKeys, AllKeys
<1>3. le_key # scope_key
  <2>1. Len(le_key) = 1 /\ Len(scope_key) = 5
    BY DEF le_key, scope_key
  <2> QED BY <2>1
<1>4. \A a \in ResourceKeys, b \in OwnKeys : sanitize_name(a) # sanitize_name(b)
  BY DEF ResourceKeys, KeysAssumption
<1>5. \A a \in LineKeys : sanitize_name(a) # sanitize_name(le_key) /\ sanitize_name(a) # sanitize_name(scope_key)
  <2>1. le_key \in AllKeys /\ scope_key \in AllKeys
    BY <1>1 DEF AllKeys
  <2>2. le_key \notin LineKeys /\ scope_key \notin LineKeys
    BY DEF LineKeys
  <2> QED BY <1>2, <2>1, <2>2, KeysTell
<1> QED BY <1>1, <1>2, <1>3, <1>4, <1>5, NamesApart, PlainKeys DEF NameSet

(* The parts that are not of the point.                                    *)
LEMMA PartFacts ==
  /\ \A le : IsLe(le) => IsSeq(le) /\ Once(le) /\ KeysOf(le) \subseteq {le_key}
  /\ \A cfg : /\ IsSeq(scope_labels(cfg)) /\ Once(scope_labels(cfg))
              /\ KeysOf(scope_labels(cfg)) \subseteq {scope_key}
  /\ \A cfg : /\ IsSeq(static_labels(cfg)) /\ Once(static_labels(cfg))
              /\ KeysOf(static_labels(cfg)) \subseteq NameSet(ResourceKeys)
<1>1. ASSUME NEW le, IsLe(le) PROVE IsSeq(le) /\ Once(le) /\ KeysOf(le) \subseteq {le_key}
  BY <1>1, FewLabels DEF IsLe, IsLabels
<1>2. ASSUME NEW cfg
      PROVE  /\ IsSeq(scope_labels(cfg)) /\ Once(scope_labels(cfg))
             /\ KeysOf(scope_labels(cfg)) \subseteq {scope_key}
  <2>1. scope_labels(cfg) = <<>> \/ scope_labels(cfg) = << Label(scope_key, "uxum") >>
    BY DEF scope_labels, scope_key
  <2> QED BY <2>1, FewLabels DEF IsLabels
<1>3. ASSUME NEW cfg
      PROVE  /\ IsSeq(static_labels(cfg)) /\ Once(static_labels(cfg))
             /\ KeysOf(static_labels(cfg)) \subseteq NameSet(ResourceKeys)
  <2>1. NameSet({Resource[k] : k \in Matching(cfg)}) \subseteq NameSet(ResourceKeys)
    BY ResourceSplit DEF NameSet
  <2> QED BY <2>1, ResourceSplit, AttributesOnce
<1> QED BY <1>1, <1>2, <1>3

(* No label is twice in what is written.                                   *)
LEMMA WrittenOnce ==
  ASSUME NEW cfg, NEW s, Bare(s), NEW le, IsLe(le)
  PROVE  /\ Once(Written(cfg, s, le))
         /\ ToSet(Written(cfg, s, le))
              = ToSet(Sanitized(s)) \cup ToSet(le)
                  \cup ToSet(scope_labels(cfg)) \cup ToSet(static_labels(cfg))
<1> DEFINE z == Sanitized(s)   o == scope_labels(cfg)   t == static_labels(cfg)
<1>1. IsSeq(z) /\ Once(z) /\ KeysOf(z) \subseteq NameSet(LineKeys)
  <2>1. KeysOf(s) \subseteq AllKeys
    BY DEF Bare, LineKeys
  <2>2. IsSeq(z) /\ KeysOf(z) = NameSet(KeysOf(s))
    BY SanitizedFacts DEF Bare, IsLabels
  <2>3. Once(z)
    BY <2>1, SanitizedOnce DEF Bare
  <2> QED BY <2>2, <2>3 DEF Bare, NameSet
<1>2. IsSeq(le) /\ Once(le) /\ KeysOf(le) \subseteq {le_key}
  BY PartFacts
<1>3. /\ IsSeq(o) /\ Once(o) /\ KeysOf(o) \subseteq {scope_key}
      /\ IsSeq(t) /\ Once(t) /\ KeysOf(t) \subseteq NameSet(ResourceKeys)
  BY PartFacts
<1>4. Written(cfg, s, le) = ((z \o le) \o o) \o t
  BY DEF Written
<1> HIDE DEF z, o, t
<1>5. KeysOf(z) \cap KeysOf(le) = {}
  BY <1>1, <1>2, PartsApart
<1>6. IsSeq(z \o le) /\ Once(z \o le) /\ KeysOf(z \o le) \subseteq NameSet(LineKeys) \cup {le_key}
  BY <1>1, <1>2, <1>5, CatOnce
<1>7. KeysOf(z \o le) \cap KeysOf(o) = {}
  BY <1>3, <1>6, PartsApart
<1>8. /\ IsSeq((z \o le) \o o) /\ Once((z \o le) \o o)
      /\ KeysOf((z \o le) \o o) \subseteq NameSet(LineKeys) \cup {le_key, scope_key}
  <2>1. /\ IsSeq((z \o le) \o o) /\ Once((z \o le) \o o)
        /\ KeysOf((z \o le) \o o) = KeysOf(z \o le) \cup KeysOf(o)
    BY <1>3, <1>6, <1>7, CatOnce
  <2> QED BY <1>3, <1>6, <2>1
<1>9. KeysOf((z \o le) \o o) \cap KeysOf(t) = {}
  BY <1>3, <1>8, PartsApart
<1>10. Once(((z \o le) \o o) \o t)
  BY <1>3, <1>8, <1>9, CatOnce
<1>11. ToSet(((z \o le) \o o) \o t) = ToSet((z \o le) \o o) \cup ToSet(t)
  BY <1>3, <1>8, CatFacts
<1>12. ToSet((z \o le) \o o) = ToSet(z \o le) \cup ToSet(o)
  BY <1>3, <1>6, CatFacts
<1>13. ToSet(z \o le) = ToSet(z) \cup ToSet(le)
  BY <1>1, <1>2, CatFacts
<1> QED BY <1>4, <1>10, <1>11, <1>12, <1>13 DEF z, o, t

(* What is written tells the labels of the point, and the bucket.          *)
LEMMA WrittenTell ==
  ASSUME NEW cfg, NEW s, Bare(s), NEW le, IsLe(le), NEW t, Bare(t), NEW lf, IsLe(lf),
         ToSet(Written(cfg, s, le)) = ToSet(Written(cfg, t, lf))
  PROVE  ToSet(s) = ToSet(t) /\ le = lf
<1>1. ASSUME NEW a, Bare(a), NEW la, IsLe(la), NEW b, Bare(b), NEW lb, IsLe(lb),
             ToSet(Written(cfg, a, la)) = ToSet(Written(cfg, b, lb))
      PROVE  ToSet(Sanitized(a)) \subseteq ToSet(Sanitized(b)) /\ ToSet(la) \subseteq ToSet(lb)
  <2> DEFINE A == ToSet(Sanitized(a))   B == ToSet(Sanitized(b))
             rest == ToSet(scope_labels(cfg)) \cup ToSet(static_labels(cfg))
  <2>1. A \cup ToSet(la) \cup rest = B \cup ToSet(lb) \cup rest
    BY <1>1, WrittenOnce
  <2>2. /\ \A l \in A \cup B : l.key \in NameSet(LineKeys)
        /\ \A l \in ToSet(la) \cup ToSet(lb) : l.key = le_key
        /\ \A l \in rest : l.key = scope_key \/ l.key \in NameSet(ResourceKeys)
    <3>1. KeysOf(Sanitized(a)) \subseteq NameSet(LineKeys) /\ KeysOf(Sanitized(b)) \subseteq NameSet(LineKeys)
      BY <1>1, SanitizedFacts DEF Bare, NameSet
    <3>2. KeysOf(la) \subseteq {le_key} /\ KeysOf(lb) \subseteq {le_key}
      BY <1>1, PartFacts
    <3>3. KeysOf(scope_labels(cfg)) \subseteq {scope_key} /\ KeysOf(static_labels(cfg)) \subseteq NameSet(ResourceKeys)
      BY PartFacts
    <3> QED BY <3>1, <3>2, <3>3 DEF KeysOf
  <2> HIDE DEF A, B, rest
  <2>3. A \subseteq B /\ ToSet(la) \subseteq ToSet(lb)
    BY <2>1, <2>2, PartsApart
  <2> QED BY <2>3 DEF A, B
<1>2. ToSet(Sanitized(s)) = ToSet(Sanitized(t)) /\ ToSet(le) = ToSet(lf)
  BY <1>1
<1>3. ToSet(s) = ToSet(t)
  BY <1>2, SanitizedTell DEF Bare, LineKeys
<1>4. le = lf
  <2>1. \A l : ToSet(<<l>>) = {l}
    <3> SUFFICES ASSUME NEW l PROVE ToSet(<<l>>) = {l}
      OBVIOUS
    <3>1. DOMAIN <<l>> = {1} /\ <<l>>[1] = l
      OBVIOUS
    <3> QED BY <3>1 DEF ToSet
  <2>2. ToSet(<<>>) = {}
    BY FewLabels
  <2>3. (le = <<>> \/ \E l : le = <<l>>) /\ (lf = <<>> \/ \E l : lf = <<l>>)
    BY DEF IsLe
  <2> QED BY <1>2, <2>1, <2>2, <2>3
<1> QED BY <1>3, <1>4

-----------------------------------------------------------------------------
(* The labels that there are.                                              *)

method_key  == <<"http", ".", "request", ".", "method">>
scheme_key  == <<"url", ".", "scheme">>
port_key    == <<"server", ".", "port">>
status_key  == <<"http", ".", "response", ".", "status", "_", "code">>
route_key   == <<"http", ".", "route">>
handler_key == <<"uxum", ".", "handler">>
client_key  == <<"http", ".", "client">>
worker_key  == <<"runtime", ".", "worker">>
error_key   == <<"spiffe", ".", "error", ".", "kind">>
ServerKeys  == {method_key, scheme_key, port_key, status_key, route_key, handler_key}

(* The keys of the service are different from each other, from those of    *)
(* the parts of a line and from those that are configured.                 *)
LEMMA ServiceKeys ==
  /\ ServerKeys \cup {client_key, worker_key, error_key} \subseteq LineKeys
  /\ ServerKeys \cap CustomKeys = {}
  /\ CustomKeys \subseteq LineKeys
  /\ method_key # scheme_key /\ method_key # port_key /\ scheme_key # port_key
  /\ status_key # route_key /\ status_key # handler_key /\ route_key # handler_key
  /\ {method_key, scheme_key, port_key} \cap {status_key, route_key, handler_key} = {}
  /\ client_key \notin {method_key, scheme_key, status_key}
<1> DEFINE Ours == ServerKeys \cup {client_key, worker_key, error_key}
<1>1. Ours \subseteq OwnKeys /\ {le_key, scope_key} \subseteq OwnKeys
  BY DEF OwnKeys, le_key, scope_key, ServerKeys, method_key, scheme_key, port_key, status_key,
         route_key, handler_key, client_key, worker_key, error_key
<1>2. /\ method_key[1] = "http" /\ method_key[3] = "request" /\ scheme_key[1] = "url"
      /\ port_key[1] = "server" /\ status_key[1] = "http" /\ status_key[3] = "response"
      /\ route_key[1] = "http" /\ route_key[3] = "route" /\ handler_key[1] = "uxum"
      /\ client_key[1] = "http" /\ client_key[3] = "client" /\ worker_key[1] = "runtime"
      /\ error_key[1] = "spiffe" /\ le_key[1] = "le" /\ scope_key[1] = "otel"
  BY DEF le_key, scope_key, method_key, scheme_key, port_key, status_key,
         route_key, handler_key, client_key, worker_key, error_key
<1>3. OwnKeys \cap (ResourceKeys \cup CustomKeys) = {}
  BY DEF KeysAssumption, ResourceKeys
<1>4. Ours \cap {le_key, scope_key} = {}
  BY <1>2 DEF ServerKeys
<1>5. ResourceKeys \cap CustomKeys = {}
  BY DEF KeysAssumption, ResourceKeys
<1>6. Ours \subseteq LineKeys
  BY <1>1, <1>3, <1>4 DEF LineKeys, AllKeys
<1>7. CustomKeys \subseteq LineKeys
  BY <1>1, <1>3, <1>5 DEF LineKeys, AllKeys
<1>8. ServerKeys \cap CustomKeys = {}
  BY <1>1, <1>3
<1> QED BY <1>2, <1>6, <1>7, <1>8

(* Labels of different keys, after others, are such labels.                *)
LEMMA CatBare ==
  ASSUME NEW s, NEW t, Bare(s), Bare(t), KeysOf(s) \cap KeysOf(t) = {}
  PROVE  Bare(s \o t) /\ KeysOf(s \o t) = KeysOf(s) \cup KeysOf(t) /\ ToSet(s \o t) = ToSet(s) \cup ToSet(t)
<1>1. IsSeq(s \o t) /\ Once(s \o t) /\ KeysOf(s \o t) = KeysOf(s) \cup KeysOf(t)
  BY CatOnce DEF Bare, IsLabels
<1>2. ToSet(s \o t) = ToSet(s) \cup ToSet(t)
  BY CatFacts DEF Bare, IsLabels
<1> QED BY <1>1, <1>2 DEF Bare, IsLabels

(* One, two and three labels.                                              *)
LEMMA BareLabels ==
  /\ Bare(<<>>)
  /\ \A a \in LineKeys : \A x : LET s == << Label(a, x) >> IN
       Bare(s) /\ KeysOf(s) = {a} /\ ToSet(s) = {Label(a, x)}
  /\ \A a, b \in LineKeys : \A x, y : a # b =>
       LET s == << Label(a, x), Label(b, y) >> IN
       Bare(s) /\ KeysOf(s) = {a, b} /\ ToSet(s) = {Label(a, x), Label(b, y)}
  /\ \A a, b, c \in LineKeys : \A x, y, z : a # b /\ a # c /\ b # c =>
       LET s == << Label(a, x), Label(b, y), Label(c, z) >> IN
       Bare(s) /\ KeysOf(s) = {a, b, c} /\ ToSet(s) = {Label(a, x), Label(b, y), Label(c, z)}
<1>1. Bare(<<>>)
  BY FewLabels DEF Bare
<1>2. ASSUME NEW a \in LineKeys, NEW x
      PROVE  LET s == << Label(a, x) >> IN
             Bare(s) /\ KeysOf(s) = {a} /\ ToSet(s) = {Label(a, x)}
  BY FewLabels DEF Bare
<1>3. ASSUME NEW a \in LineKeys, NEW b \in LineKeys, NEW x, NEW y, a # b
      PROVE  LET s == << Label(a, x), Label(b, y) >> IN
             Bare(s) /\ KeysOf(s) = {a, b} /\ ToSet(s) = {Label(a, x), Label(b, y)}
  <2> DEFINE s == << Label(a, x) >>   t == << Label(b, y) >>
  <2>1. << Label(a, x), Label(b, y) >> = s \o t
    OBVIOUS
  <2>2. /\ Bare(s) /\ KeysOf(s) = {a} /\ ToSet(s) = {Label(a, x)}
        /\ Bare(t) /\ KeysOf(t) = {b} /\ ToSet(t) = {Label(b, y)}
    BY <1>2
  <2> HIDE DEF s, t
  <2>3. Bare(s \o t) /\ KeysOf(s \o t) = {a, b} /\ ToSet(s \o t) = {Label(a, x), Label(b, y)}
    BY <1>3, <2>2, CatBare
  <2> QED BY <2>1, <2>3
<1>4. ASSUME NEW a \in LineKeys, NEW b \in LineKeys, NEW c \in LineKeys, NEW x, NEW y, NEW z,
             a # b, a # c, b # c
      PROVE  LET s == << Label(a, x), Label(b, y), Label(c, z) >> IN
             Bare(s) /\ KeysOf(s) = {a, b, c} /\ ToSet(s) = {Label(a, x), Label(b, y), Label(c, z)}
  <2> DEFINE s == << Label(a, x), Label(b, y) >>   t == << Label(c, z) >>
  <2>1. << Label(a, x), Label(b, y), Label(c, z) >> = s \o t
    OBVIOUS
  <2>2. /\ Bare(s) /\ KeysOf(s) = {a, b} /\ ToSet(s) = {Label(a, x), Label(b, y)}
        /\ Bare(t) /\ KeysOf(t) = {c} /\ ToSet(t) = {Label(c, z)}
    BY <1>2, <1>3, <1>4
  <2> HIDE DEF s, t
  <2>3. /\ Bare(s \o t) /\ KeysOf(s \o t) = {a, b, c}
        /\ ToSet(s \o t) = {Label(a, x), Label(b, y), Label(c, z)}
    BY <1>4, <2>2, CatBare
  <2> QED BY <2>1, <2>3
<1> QED BY <1>1, <1>2, <1>3, <1>4

(* The labels of what is active.                                           *)
LEMMA ActiveBare ==
  Bare(ActiveLabels) /\ KeysOf(ActiveLabels) = {method_key, scheme_key, port_key}
<1>1. ActiveLabels = << Label(method_key, "GET"), Label(scheme_key, "http"), Label(port_key, "80") >>
  BY DEF ActiveLabels, method_key, scheme_key, port_key
<1>2. {method_key, scheme_key, port_key} \subseteq LineKeys
  BY ServiceKeys DEF ServerKeys
<1> QED BY <1>1, <1>2, BareLabels, ServiceKeys

(* The labels of a handler.                                                *)
LEMMA CustomBare ==
  ASSUME NEW o \in Outcomes
  PROVE  Bare(CustomLabels(o.custom)) /\ KeysOf(CustomLabels(o.custom)) = ToSet(o.custom)
<1> DEFINE c == o.custom   n == Len(c)   s == CustomLabels(c)
<1>1. /\ c \in Seq(Seq(STRING)) /\ IsInjective(c)
  BY DEF MeasuresAssumption, KeysAssumption
<1>2. n \in Nat /\ DOMAIN c = 1..n
  <2> DEFINE S == Seq(STRING)
  <2>1. c \in Seq(S)
    BY <1>1
  <2> HIDE DEF S, c
  <2> QED BY <2>1
<1>3. s = [k \in 1..n |-> Label(c[k], "x")]
  BY <1>2 DEF CustomLabels
<1>4. ToSet(c) \subseteq LineKeys
  BY ServiceKeys DEF CustomKeys
<1> HIDE DEF n, s, c
<1>5. s = [k \in 1..n |-> s[k]] /\ \A k \in 1..n : s[k] = Label(c[k], "x")
  BY <1>3
<1>6. IsSeq(s) /\ DOMAIN s = 1..n
  BY <1>2, <1>5, FunIsSeq
<1>7. ToSet(s) = {Label(c[k], "x") : k \in 1..n} /\ ToSet(c) = {c[k] : k \in 1..n}
  BY <1>2, <1>5, <1>6 DEF ToSet
<1>8. KeysOf(s) = ToSet(c)
  <2>1. \A a : Label(a, "x").key = a
    BY DEF Label
  <2> QED BY <1>7, <2>1 DEF KeysOf
<1>9. Once(s)
  BY <1>1, <1>2, <1>5, <1>6 DEF Once, IsInjective, Label
<1>10. IsLabels(s)
  BY <1>6, <1>7 DEF IsLabels, Label
<1> QED BY <1>4, <1>8, <1>9, <1>10 DEF Bare, s, c

(* The labels of what is recorded when a request is answered.              *)
LEMMA AllBare ==
  ASSUME NEW o \in Outcomes
  PROVE  /\ Bare(AllLabels(o))
         /\ KeysOf(AllLabels(o)) = ServerKeys \cup ToSet(o.custom)
         /\ Label(status_key, o.status) \in ToSet(AllLabels(o))
<1> DEFINE a == ActiveLabels   c == CustomLabels(o.custom)
           b == << Label(status_key, o.status), Label(route_key, "/"), Label(handler_key, "hello") >>
<1>1. AllLabels(o) = (a \o b) \o c
  BY DEF AllLabels, status_key, route_key, handler_key
<1>2. Bare(a) /\ KeysOf(a) = {method_key, scheme_key, port_key}
  BY ActiveBare
<1>3. Bare(c) /\ KeysOf(c) = ToSet(o.custom)
  BY CustomBare
<1>4. /\ Bare(b) /\ KeysOf(b) = {status_key, route_key, handler_key}
      /\ Label(status_key, o.status) \in ToSet(b)
  BY ServiceKeys, BareLabels DEF ServerKeys
<1>5. ToSet(o.custom) \subseteq CustomKeys
  BY DEF CustomKeys
<1> HIDE DEF a, b, c
<1>6. Bare(a \o b) /\ KeysOf(a \o b) = ServerKeys /\ ToSet(a \o b) = ToSet(a) \cup ToSet(b)
  <2>1. KeysOf(a) \cap KeysOf(b) = {}
    BY <1>2, <1>4, ServiceKeys
  <2>2. Bare(a \o b) /\ KeysOf(a \o b) = KeysOf(a) \cup KeysOf(b) /\ ToSet(a \o b) = ToSet(a) \cup ToSet(b)
    BY <1>2, <1>4, <2>1, CatBare
  <2> QED BY <1>2, <1>4, <2>2 DEF ServerKeys
<1>7. KeysOf(a \o b) \cap KeysOf(c) = {}
  BY <1>3, <1>5, <1>6, ServiceKeys
<1> QED BY <1>1, <1>3, <1>4, <1>6, <1>7, CatBare

(* As sets, they tell the status and the labels of the handler.            *)
LEMMA AllTell ==
  ASSUME NEW o \in Outcomes, NEW p \in Outcomes, ToSet(AllLabels(o)) = ToSet(AllLabels(p))
  PROVE  AllLabels(o) = AllLabels(p)
<1>1. o.status = p.status
  <2>1. \A l, m \in ToSet(AllLabels(p)) : l.key = m.key => l = m
    <3>1. IsSeq(AllLabels(p)) /\ Once(AllLabels(p))
      BY AllBare DEF Bare, IsLabels
    <3> QED BY <3>1, AtPosition DEF Once
  <2>2. Label(status_key, o.status) \in ToSet(AllLabels(p)) /\ Label(status_key, p.status) \in ToSet(AllLabels(p))
    BY AllBare
  <2>3. \A v : Label(status_key, v).key = status_key /\ Label(status_key, v).value = v
    BY DEF Label
  <2> QED BY <2>1, <2>2, <2>3
<1>2. ToSet(o.custom) = ToSet(p.custom)
  <2>1. ServerKeys \cup ToSet(o.custom) = ServerKeys \cup ToSet(p.custom)
    <3>1. KeysOf(AllLabels(o)) = KeysOf(AllLabels(p))
      BY DEF KeysOf
    <3> QED BY <3>1, AllBare
  <2>2. ToSet(o.custom) \subseteq CustomKeys /\ ToSet(p.custom) \subseteq CustomKeys
    BY DEF CustomKeys
  <2> QED BY <2>1, <2>2, ServiceKeys
<1>3. o.custom = p.custom
  BY <1>2 DEF KeysAssumption
<1> QED BY <1>1, <1>3 DEF AllLabels

(* The labels of the rest of the service.                                  *)
LEMMA ElsewhereBare ==
  ASSUME NEW i
  PROVE  Bare(ClientLabels(i)) /\ Bare(RuntimeLabels(i)) /\ Bare(SpiffeLabels(i))
<1>1. Bare(RuntimeLabels(i)) /\ Bare(SpiffeLabels(i))
  <2>1. RuntimeLabels(i) = <<>> \/ RuntimeLabels(i) = << Label(worker_key, "0") >>
    BY DEF RuntimeLabels, worker_key
  <2>2. SpiffeLabels(i) = <<>> \/ SpiffeLabels(i) = << Label(error_key, "x") >>
    BY DEF SpiffeLabels, error_key
  <2> QED BY <2>1, <2>2, BareLabels, ServiceKeys
<1>2. Bare(ClientLabels(i))
  <2> DEFINE a == << Label(client_key, "api") >>
             b == << Label(method_key, "GET"), Label(scheme_key, "http") >>
             c == IF i \in ToSet(ClientOnly) \cup {Active("client")} THEN <<>>
                  ELSE << Label(status_key, "200") >>
  <2>1. SubSeq(ActiveLabels, 1, 2) = b
    <3>1. ASSUME NEW x, NEW y, NEW z PROVE SubSeq(<<x, y, z>>, 1, 2) = <<x, y>>
      <4> DEFINE s == <<x, y, z>>   t == <<x, y>>   u == SubSeq(s, 1, 2)
      <4>1. s \in Seq({x, y, z}) /\ s[1] = x /\ s[2] = y /\ Len(s) = 3 /\ 1 \in 1..4 /\ 2 \in 0..3
        OBVIOUS
      <4>2. IsSeq(t) /\ Len(t) = 2 /\ t[1] = x /\ t[2] = y
        BY ShortSeqs
      <4> HIDE DEF s, t
      <4>3. u \in Seq({x, y, z}) /\ Len(u) = 2 /\ \A k \in 1..2 : u[k] = s[1 + k - 1]
        BY <4>1, SubSeqProperties
      <4> HIDE DEF u
      <4>4. IsSeq(u) /\ u[1] = x /\ u[2] = y
        <5>1. 1 \in 1..2 /\ 2 \in 1..2 /\ 1 + 1 - 1 = 1 /\ 1 + 2 - 1 = 2
          OBVIOUS
        <5>2. u[1] = s[1 + 1 - 1] /\ u[2] = s[1 + 2 - 1]
          BY ONLY <4>3, <5>1
        <5>3. u[1] = s[1] /\ u[2] = s[2]
          BY <5>1, <5>2
        <5>4. IsSeq(u)
          BY <4>3, SeqIsSeq
        <5> QED BY <4>1, <5>3, <5>4
      <4>5. \A k \in 1..2 : u[k] = t[k]
        BY <4>2, <4>4
      <4> QED BY <4>2, <4>3, <4>4, <4>5, SeqSame DEF u, s, t
    <3> QED BY <3>1 DEF ActiveLabels, method_key, scheme_key
  <2>2. ClientLabels(i) = (a \o b) \o c
    BY <2>1 DEF ClientLabels, client_key, status_key
  <2>3. Bare(a) /\ KeysOf(a) = {client_key}
    BY BareLabels, ServiceKeys
  <2>4. Bare(b) /\ KeysOf(b) = {method_key, scheme_key}
    BY BareLabels, ServiceKeys DEF ServerKeys
  <2>5. Bare(c) /\ KeysOf(c) \subseteq {status_key}
    BY BareLabels, FewLabels, ServiceKeys DEF ServerKeys
  <2> HIDE DEF a, b, c
  <2>6. Bare(a \o b) /\ KeysOf(a \o b) = {client_key, method_key, scheme_key}
    BY <2>3, <2>4, CatBare, ServiceKeys
  <2>7. KeysOf(a \o b) \cap KeysOf(c) = {}
    BY <2>5, <2>6, ServiceKeys
  <2> QED BY <2>2, <2>5, <2>6, <2>7, CatBare
<1> QED BY <1>1, <1>2

-----------------------------------------------------------------------------
(* The lines of a text.                                                    *)

(* The points that become one series, or the series of one histogram.      *)
Of(P, i, labels) == {p \in P : p.instrument = i /\ p.labels = labels}

(* What is written for them.                                               *)
LinesOf(cfg, i, labels, Q) ==
  IF i.kind = "histogram" THEN serialize_histogram(cfg, i, labels, Q)
  ELSE {Line(<<i, labels, "value", 0>>, FinalName(cfg, i), Written(cfg, labels, <<>>), SumOf(Q))}

TextOf(cfg, i, P) == serialize_metric(cfg, i, {p \in P : p.instrument = i})

(* Every line is of such points, or the line of the resource.              *)
LEMMA TextLines ==
  ASSUME NEW cfg, NEW P
  PROVE  \A x : x \in serialize(cfg, P) <=>
                  \/ x \in TargetInfo(cfg)
                  \/ \E p \in P : /\ p.instrument \in Instruments
                                  /\ x \in LinesOf(cfg, p.instrument, p.labels, Of(P, p.instrument, p.labels))
<1>1. ASSUME NEW i, NEW x
      PROVE  x \in TextOf(cfg, i, P) <=>
               \E p \in P : p.instrument = i /\ x \in LinesOf(cfg, i, p.labels, Of(P, i, p.labels))
  <2> DEFINE Q == {p \in P : p.instrument = i}
             lines(labels) == LinesOf(cfg, i, labels, {p \in Q : p.labels = labels})
  <2>1. serialize_metric(cfg, i, Q) = UNION {lines(p.labels) : p \in Q}
    BY DEF serialize_metric, LinesOf
  <2>2. \A labels : {p \in Q : p.labels = labels} = Of(P, i, labels)
    BY DEF Of
  <2>3. \A labels : lines(labels) = LinesOf(cfg, i, labels, Of(P, i, labels))
    BY <2>2
  <2> HIDE DEF lines
  <2>4. x \in serialize_metric(cfg, i, Q) <=> \E p \in Q : x \in lines(p.labels)
    BY <2>1
  <2> QED BY <2>3, <2>4 DEF TextOf
<1>2. ASSUME NEW x
      PROVE  x \in serialize(cfg, P) <=>
               \/ x \in TargetInfo(cfg)
               \/ \E i \in Instruments : x \in TextOf(cfg, i, P)
  <2> DEFINE text(i) == TextOf(cfg, i, P)
             rest == TargetInfo(cfg)
  <2>1. serialize(cfg, P) = (UNION {text(i) : i \in Instruments}) \cup rest
    BY DEF serialize, TextOf
  <2> HIDE DEF text, rest
  <2>2. x \in serialize(cfg, P) <=> x \in rest \/ \E i \in Instruments : x \in text(i)
    <3> DEFINE texts == {text(i) : i \in Instruments}
    <3>1. \A t : t \in texts <=> \E i \in Instruments : t = text(i)
      OBVIOUS
    <3>2. serialize(cfg, P) = (UNION texts) \cup rest
      BY <2>1
    <3> HIDE DEF texts
    <3>3. \A A, B : x \in (UNION A) \cup B <=> x \in B \/ \E t \in A : x \in t
      OBVIOUS
    <3>4. x \in serialize(cfg, P) <=> x \in rest \/ \E t \in texts : x \in t
      BY <3>2, <3>3
    <3> QED BY ONLY <3>1, <3>4
  <2> QED BY ONLY <2>2 DEF text, rest
<1> QED BY <1>1, <1>2

(* The bucket of a boundary, by how the boundary is written.               *)
LeOf(v) == << Label(le_key, v) >>

(* The lines of a histogram, one by one.                                   *)
CountLine(cfg, i, labels, Q) ==
  Line(<<i, labels, "count", 0>>, Suffixed(FinalName(cfg, i), "count"),
       Written(cfg, labels, <<>>), Cardinality(Q))
SumLine(cfg, i, labels, Q) ==
  Line(<<i, labels, "sum", 0>>, Suffixed(FinalName(cfg, i), "sum"),
       Written(cfg, labels, <<>>), SumOf(Q))
BucketLine(cfg, i, labels, Q, k) ==
  Line(<<i, labels, "bucket", k>>, Suffixed(FinalName(cfg, i), "bucket"),
       Written(cfg, labels, LeOf(BoundText(k))), Cumulative(Q, k))
InfLine(cfg, i, labels, Q) ==
  Line(<<i, labels, "bucket", Len(Bounds) + 1>>, Suffixed(FinalName(cfg, i), "bucket"),
       Written(cfg, labels, LeOf("+Inf")), Cardinality(Q))

(* There are no others, and this is what they say.                         *)
LEMMA HistogramLines ==
  ASSUME NEW cfg, NEW i, NEW labels, NEW Q
  PROVE  /\ \A x : x \in serialize_histogram(cfg, i, labels, Q) <=>
              \/ x = CountLine(cfg, i, labels, Q)
              \/ x = SumLine(cfg, i, labels, Q)
              \/ \E k \in DOMAIN Bounds : x = BucketLine(cfg, i, labels, Q, k)
              \/ x = InfLine(cfg, i, labels, Q)
         /\ LET x == CountLine(cfg, i, labels, Q) IN
              /\ x.name = Suffixed(FinalName(cfg, i), "count")
              /\ x.labels = Written(cfg, labels, <<>>) /\ x.value = Cardinality(Q)
         /\ LET x == SumLine(cfg, i, labels, Q) IN
              /\ x.name = Suffixed(FinalName(cfg, i), "sum")
              /\ x.labels = Written(cfg, labels, <<>>)
         /\ LET x == InfLine(cfg, i, labels, Q) IN
              /\ x.name = Suffixed(FinalName(cfg, i), "bucket")
              /\ x.labels = Written(cfg, labels, LeOf("+Inf"))
<1>1. \A x : x \in serialize_histogram(cfg, i, labels, Q) <=>
        \/ x = CountLine(cfg, i, labels, Q)
        \/ x = SumLine(cfg, i, labels, Q)
        \/ \E k \in DOMAIN Bounds : x = BucketLine(cfg, i, labels, Q, k)
        \/ x = InfLine(cfg, i, labels, Q)
  BY DEF serialize_histogram, CountLine, SumLine, BucketLine, InfLine, LeOf, le_key, Suffixed
<1>2. \A of, name, ls, value : LET x == Line(of, name, ls, value) IN
        x.name = name /\ x.labels = ls /\ x.value = value
  BY DEF Line
<1> QED BY <1>1, <1>2 DEF CountLine, SumLine, InfLine

(* What the line of a bucket says.                                         *)
LEMMA BucketSays ==
  ASSUME NEW cfg, NEW i, NEW labels, NEW Q, NEW k
  PROVE  /\ BucketLine(cfg, i, labels, Q, k).name = Suffixed(FinalName(cfg, i), "bucket")
         /\ BucketLine(cfg, i, labels, Q, k).labels = Written(cfg, labels, LeOf(BoundText(k)))
         /\ BucketLine(cfg, i, labels, Q, k).value = Cumulative(Q, k)
BY DEF BucketLine, Line

(* Buckets are told by their boundaries.                                   *)
LEMMA LeTell ==
  /\ \A v : IsLe(LeOf(v)) /\ LeOf(v) # <<>>
  /\ \A v, w : LeOf(v) = LeOf(w) => v = w
  /\ IsLe(<<>>)
<1>1. \A v : IsLe(LeOf(v))
  BY DEF IsLe, LeOf
<1>2. \A v : Len(LeOf(v)) = 1 /\ LeOf(v)[1] = Label(le_key, v) /\ Label(le_key, v).value = v
  BY DEF LeOf, Label
<1>3. \A v : LeOf(v) # <<>>
  <2>1. Len(<<>>) = 0
    OBVIOUS
  <2> QED BY <1>2, <2>1
<1> QED BY <1>1, <1>2, <1>3 DEF IsLe

(* What the lines of some points have in common.                           *)
LEMMA LineFacts ==
  ASSUME NEW cfg, NEW i \in Instruments, NEW labels, Bare(labels), NEW Q,
         NEW x \in LinesOf(cfg, i, labels, Q)
  PROVE  /\ \E suffix : x.name = LineName(cfg, i, suffix)
         /\ \E le : IsLe(le) /\ x.labels = Written(cfg, labels, le)
<1>1. CASE i.kind = "histogram"
  <2>1. x \in serialize_histogram(cfg, i, labels, Q)
    BY <1>1 DEF LinesOf
  <2>2. \E suffix : x.name = Suffixed(FinalName(cfg, i), suffix)
    BY <2>1, HistogramLines, BucketSays
  <2>3. \E le : IsLe(le) /\ x.labels = Written(cfg, labels, le)
    BY <2>1, HistogramLines, BucketSays, LeTell
  <2> QED BY <1>1, <2>2, <2>3 DEF LineName
<1>2. CASE i.kind # "histogram"
  BY <1>2, LeTell DEF LinesOf, LineName, Line
<1> QED BY <1>1, <1>2

(* No two lines of the same points are one series.                         *)
LEMMA LinesDiffer ==
  ASSUME NEW cfg, NEW i \in Instruments, NEW labels, Bare(labels), NEW Q,
         NEW x \in LinesOf(cfg, i, labels, Q), NEW y \in LinesOf(cfg, i, labels, Q),
         x.name = y.name, ToSet(x.labels) = ToSet(y.labels)
  PROVE  x = y
<1>1. CASE i.kind # "histogram"
  BY <1>1 DEF LinesOf
<1>2. CASE i.kind = "histogram"
  <2> DEFINE f == FinalName(cfg, i)
             Count == CountLine(cfg, i, labels, Q)   Sum == SumLine(cfg, i, labels, Q)
             Bucket(k) == BucketLine(cfg, i, labels, Q, k)   Infinite == InfLine(cfg, i, labels, Q)
  <2>1. IsSeq(f)
    BY FinalNameExtends DEF Extending
  <2>2. \A z : z \in LinesOf(cfg, i, labels, Q) <=>
                 z = Count \/ z = Sum \/ (\E k \in DOMAIN Bounds : z = Bucket(k)) \/ z = Infinite
    BY <1>2, HistogramLines DEF LinesOf
  <2>3. /\ Count.name = Suffixed(f, "count") /\ Sum.name = Suffixed(f, "sum")
        /\ Infinite.name = Suffixed(f, "bucket") /\ Infinite.labels = Written(cfg, labels, LeOf("+Inf"))
        /\ \A k : /\ Bucket(k).name = Suffixed(f, "bucket")
                  /\ Bucket(k).labels = Written(cfg, labels, LeOf(BoundText(k)))
    <3>1. ASSUME NEW k
          PROVE  /\ Bucket(k).name = Suffixed(f, "bucket")
                 /\ Bucket(k).labels = Written(cfg, labels, LeOf(BoundText(k)))
      BY BucketSays
    <3>2. /\ Count.name = Suffixed(f, "count") /\ Sum.name = Suffixed(f, "sum")
          /\ Infinite.name = Suffixed(f, "bucket") /\ Infinite.labels = Written(cfg, labels, LeOf("+Inf"))
      BY HistogramLines
    <3> QED BY <3>1, <3>2
  <2> HIDE DEF f, Count, Sum, Bucket, Infinite
  <2>4. \A a, b : Suffixed(f, a) = Suffixed(f, b) => a = b
    BY <2>1, SuffixesTell
  <2>5. Count.name # Sum.name /\ Count.name # Suffixed(f, "bucket") /\ Sum.name # Suffixed(f, "bucket")
    BY <2>3, <2>4
  <2>6. \A v, w : ToSet(Written(cfg, labels, LeOf(v))) = ToSet(Written(cfg, labels, LeOf(w))) => v = w
    BY LeTell, WrittenTell
  <2>7. \A j, k \in DOMAIN Bounds : ToSet(Bucket(j).labels) = ToSet(Bucket(k).labels) => j = k
    <3>1. \A j, k \in DOMAIN Bounds : BoundText(j) = BoundText(k) => j = k
      BY DEF MeasuresAssumption
    <3> QED BY <2>3, <2>6, <3>1
  <2>8. \A k \in DOMAIN Bounds : ToSet(Bucket(k).labels) # ToSet(Infinite.labels)
    <3>1. \A k \in DOMAIN Bounds : BoundText(k) # "+Inf"
      BY DEF MeasuresAssumption
    <3> QED BY <2>3, <2>6, <3>1
  <2>9. CASE x = Count \/ y = Count
    BY <2>2, <2>3, <2>5, <2>9
  <2>10. CASE x = Sum \/ y = Sum
    BY <2>2, <2>3, <2>5, <2>10
  <2>11. CASE x = Infinite \/ y = Infinite
    BY <2>2, <2>3, <2>5, <2>8, <2>11
  <2>12. CASE (\E j \in DOMAIN Bounds : x = Bucket(j)) /\ (\E k \in DOMAIN Bounds : y = Bucket(k))
    BY <2>7, <2>12
  <2> QED BY <2>2, <2>9, <2>10, <2>11, <2>12
<1> QED BY <1>1, <1>2

(* Points whose labels are told by what they are, not by their order.      *)
Known(P) ==
  /\ \A p \in P : Bare(p.labels)
  /\ \A p, q \in P : p.instrument = q.instrument /\ ToSet(p.labels) = ToSet(q.labels)
                       => p.labels = q.labels

(* The text of such points has no series twice, and no label twice in a    *)
(* line: names tell the instrument and the part of it, labels the point    *)
(* and the bucket, whatever the exporter and the resource.                 *)
THEOREM TextDistinct ==
  ASSUME NEW cfg, NEW P, Known(P)
  PROVE  Distinct(serialize(cfg, P))
<1> DEFINE Lines(p) == LinesOf(cfg, p.instrument, p.labels, Of(P, p.instrument, p.labels))
<1>1. \A x \in serialize(cfg, P) :
        x \in TargetInfo(cfg) \/ \E p \in P : p.instrument \in Instruments /\ x \in Lines(p)
  BY TextLines
<1>2. \A p \in P : Bare(p.labels)
  BY DEF Known
<1>3. ASSUME NEW p \in P, p.instrument \in Instruments, NEW x \in Lines(p)
      PROVE  /\ x.name[1] # "target" /\ Once(x.labels)
             /\ \E suffix : x.name = LineName(cfg, p.instrument, suffix)
             /\ \E le : IsLe(le) /\ x.labels = Written(cfg, p.labels, le)
  <2>1. /\ \E suffix : x.name = LineName(cfg, p.instrument, suffix)
        /\ \E le : IsLe(le) /\ x.labels = Written(cfg, p.labels, le)
    BY <1>2, <1>3, LineFacts
  <2>2. x.name[1] # "target"
    BY <1>3, <2>1, LineNamesTell
  <2>3. Once(x.labels)
    BY <1>2, <2>1, WrittenOnce
  <2> QED BY <2>1, <2>2, <2>3
<1> HIDE DEF Lines
<1>4. \A x \in TargetInfo(cfg) : x.name[1] = "target" /\ Once(x.labels)
  BY TargetOnce
<1>5. ASSUME NEW x \in serialize(cfg, P), NEW y \in serialize(cfg, P),
             x.name = y.name, ToSet(x.labels) = ToSet(y.labels)
      PROVE  x = y
  <2>1. CASE x \in TargetInfo(cfg) /\ y \in TargetInfo(cfg)
    BY <2>1 DEF TargetInfo
  <2>2. CASE /\ \E p \in P : p.instrument \in Instruments /\ x \in Lines(p)
             /\ \E q \in P : q.instrument \in Instruments /\ y \in Lines(q)
    <3>1. PICK p \in P : p.instrument \in Instruments /\ x \in Lines(p)
      BY <2>2
    <3>2. PICK q \in P : q.instrument \in Instruments /\ y \in Lines(q)
      BY <2>2
    <3>3. p.instrument = q.instrument
      BY <1>3, <1>5, <3>1, <3>2, LineNamesTell
    <3>4. PICK le, lf : /\ IsLe(le) /\ x.labels = Written(cfg, p.labels, le)
                        /\ IsLe(lf) /\ y.labels = Written(cfg, q.labels, lf)
      BY <1>3, <3>1, <3>2
    <3>5. ToSet(p.labels) = ToSet(q.labels)
      BY <1>2, <1>5, <3>4, WrittenTell
    <3>6. p.labels = q.labels
      BY <3>3, <3>5 DEF Known
    <3>7. Lines(p) = Lines(q)
      BY <3>3, <3>6 DEF Lines
    <3> QED BY <1>2, <1>5, <3>1, <3>2, <3>7, LinesDiffer DEF Lines
  <2> QED BY <1>1, <1>3, <1>4, <1>5, <2>1, <2>2
<1>6. \A x \in serialize(cfg, P) : Once(x.labels)
  BY <1>1, <1>3, <1>4
<1> QED BY <1>5, <1>6 DEF Distinct, Once

-----------------------------------------------------------------------------
(* What requests have recorded, and what scrapes have seen of it.          *)

(* Where the instruments of what is recorded come in the order of Server.  *)
At == <<2, 1, 4, 5>>
PointOf(r, o, n) == Point(Recording(o)[n][1], AllLabels(o), Recording(o)[n][2], r)

RequestInv ==
  \A r \in Request :
    /\ request[r].recorded \in 0..4
    /\ request[r].recorded > 0 => request[r].pc = "answered"
    /\ request[r].pc = "answered" => request[r].outcome \in Outcomes
PointsInv ==
  /\ \A p \in points :
       \/ p.instrument = Active("server") /\ p.labels = ActiveLabels
       \/ \E r \in Request : \E n \in 1..request[r].recorded : p = PointOf(r, request[r].outcome, n)
  /\ \A r \in Request : \A n \in 1..request[r].recorded : PointOf(r, request[r].outcome, n) \in points
ScrapeInv ==
  \A s \in Scraper :
    /\ scrape[s].next \in 1..6
    /\ scrape[s].pc = "collecting" => scrape[s].next <= 5
    /\ scrape[s].pc = "done" => scrape[s].next = 6
    /\ scrape[s].seen \subseteq points
    /\ scrape[s].pc # "idle" => \A r \in Request :
         /\ scrape[s].was[r] \in 0..request[r].recorded
         /\ \A n \in 1..scrape[s].was[r] : At[n] < scrape[s].next =>
              PointOf(r, request[r].outcome, n) \in scrape[s].seen

(* Requests and scrapes are records of these fields.                       *)
FieldsInv ==
  /\ request = [r \in Request |-> request[r]]
  /\ \A r \in Request : request[r] =
       [pc |-> request[r].pc, recorded |-> request[r].recorded, outcome |-> request[r].outcome]
  /\ scrape = [s \in Scraper |-> scrape[s]]
  /\ \A s \in Scraper : scrape[s] =
       [pc |-> scrape[s].pc, next |-> scrape[s].next, seen |-> scrape[s].seen, was |-> scrape[s].was]

MetricsInv == FieldsInv /\ RequestInv /\ PointsInv /\ ScrapeInv

(* What each of the four records is a record in.                           *)
LEMMA PointFacts ==
  ASSUME NEW r, NEW o, NEW n \in 1..4
  PROVE  /\ At[n] \in {1, 2, 4, 5} /\ PointOf(r, o, n).instrument = Server[At[n]]
         /\ PointOf(r, o, n).labels = AllLabels(o) /\ PointOf(r, o, n).by = r
         /\ PointOf(r, o, n).value = Recording(o)[n][2]
<1>1. n = 1 \/ n = 2 \/ n = 3 \/ n = 4
  OBVIOUS
<1>2. At[1] = 2 /\ At[2] = 1 /\ At[3] = 4 /\ At[4] = 5
  BY DEF At
<1>3. /\ Server[1] = Duration("server") /\ Server[2] = Total("server")
      /\ Server[4] = Asked("server") /\ Server[5] = Replied("server")
  BY DEF Server, Side
<1>4. /\ Recording(o)[1][1] = Total("server") /\ Recording(o)[2][1] = Duration("server")
      /\ Recording(o)[3][1] = Asked("server") /\ Recording(o)[4][1] = Replied("server")
  BY DEF Recording
<1>5. /\ PointOf(r, o, n).instrument = Recording(o)[n][1] /\ PointOf(r, o, n).labels = AllLabels(o)
      /\ PointOf(r, o, n).by = r /\ PointOf(r, o, n).value = Recording(o)[n][2]
  BY DEF PointOf, Point
<1>6. At[n] \in {1, 2, 4, 5} /\ Recording(o)[n][1] = Server[At[n]]
  BY <1>1, <1>2, <1>3, <1>4
<1> QED BY <1>5, <1>6

(* Nobody has recorded or seen anything at first.                          *)
LEMMA MetricsInit == Init => MetricsInv
<1> SUFFICES ASSUME Init PROVE MetricsInv
  OBVIOUS
<1>1. \A r \in Request : request[r] = [pc |-> "new", recorded |-> 0, outcome |-> <<>>]
  BY DEF Init
<1>2. \A s \in Scraper : scrape[s] = [pc |-> "idle", next |-> 1, seen |-> {}, was |-> <<>>]
  BY DEF Init, Idle
<1>3. FieldsInv
  BY <1>1, <1>2 DEF Init, FieldsInv
<1>4. RequestInv
  BY <1>1 DEF RequestInv
<1>5. PointsInv
  BY <1>1 DEF Init, PointsInv
<1>6. ScrapeInv
  BY <1>2 DEF ScrapeInv
<1> QED BY <1>3, <1>4, <1>5, <1>6 DEF MetricsInv

(* What is recorded and what is seen stays so while requests go on.        *)
LEMMA ScrapeKept ==
  ASSUME ScrapeInv, RequestInv, points \subseteq points', scrape' = scrape,
         \A r \in Request : /\ request'[r].recorded \in Nat
                            /\ request[r].recorded <= request'[r].recorded
                            /\ request[r].recorded > 0 => request'[r].outcome = request[r].outcome
  PROVE  ScrapeInv'
<1> SUFFICES ASSUME NEW s \in Scraper
             PROVE  /\ scrape[s].seen \subseteq points'
                    /\ scrape[s].pc # "idle" => \A r \in Request :
                         /\ scrape[s].was[r] \in 0..request'[r].recorded
                         /\ \A n \in 1..scrape[s].was[r] : At[n] < scrape[s].next =>
                              PointOf(r, request'[r].outcome, n) \in scrape[s].seen
  BY DEF ScrapeInv
<1>1. ASSUME scrape[s].pc # "idle", NEW r \in Request
      PROVE  /\ scrape[s].was[r] \in 0..request'[r].recorded
             /\ \A n \in 1..scrape[s].was[r] : At[n] < scrape[s].next =>
                  PointOf(r, request'[r].outcome, n) \in scrape[s].seen
  <2>1. /\ scrape[s].was[r] \in 0..request[r].recorded /\ request[r].recorded \in 0..4
        /\ \A n \in 1..scrape[s].was[r] : At[n] < scrape[s].next =>
             PointOf(r, request[r].outcome, n) \in scrape[s].seen
    BY <1>1 DEF ScrapeInv, RequestInv
  <2>2. scrape[s].was[r] \in 0..request'[r].recorded
    BY <2>1
  <2>3. ASSUME NEW n \in 1..scrape[s].was[r] PROVE request'[r].outcome = request[r].outcome
    BY <2>1
  <2> QED BY <2>1, <2>2, <2>3
<1> QED BY <1>1 DEF ScrapeInv

(* So does what requests have recorded, if others record.                  *)
LEMMA PointsKept ==
  ASSUME PointsInv, RequestInv, NEW q, points' = points \cup {q},
         \A r \in Request : /\ request'[r].recorded = request[r].recorded
                            /\ request[r].recorded > 0 => request'[r].outcome = request[r].outcome,
         q.instrument = Active("server") /\ q.labels = ActiveLabels
  PROVE  PointsInv'
<1>1. \A r \in Request : \A n \in 1..request[r].recorded :
        PointOf(r, request'[r].outcome, n) = PointOf(r, request[r].outcome, n)
  <2> SUFFICES ASSUME NEW r \in Request, NEW n \in 1..request[r].recorded
               PROVE  request'[r].outcome = request[r].outcome
    OBVIOUS
  <2>1. request[r].recorded > 0
    BY DEF RequestInv
  <2> QED BY <2>1
<1>2. \A p \in points' :
        \/ p.instrument = Active("server") /\ p.labels = ActiveLabels
        \/ \E r \in Request : \E n \in 1..request'[r].recorded : p = PointOf(r, request'[r].outcome, n)
  BY <1>1 DEF PointsInv
<1>3. \A r \in Request : \A n \in 1..request'[r].recorded : PointOf(r, request'[r].outcome, n) \in points'
  BY <1>1 DEF PointsInv
<1> QED BY <1>2, <1>3 DEF PointsInv

(* Each step keeps the invariant.                                          *)
LEMMA MetricsNext == MetricsInv /\ [Next]_vars => MetricsInv'
<1> SUFFICES ASSUME MetricsInv, [Next]_vars PROVE MetricsInv'
  OBVIOUS
<1>0. FieldsInv /\ RequestInv /\ PointsInv /\ ScrapeInv
  BY DEF MetricsInv
<1>1. ASSUME NEW r \in Request, Arrives(r) PROVE MetricsInv'
  <2>1. /\ request' = [request EXCEPT ![r].pc = "active"] /\ scrape' = scrape
        /\ points' = points \cup {Point(Active("server"), ActiveLabels, 1, r)} /\ request[r].pc = "new"
    BY <1>1 DEF Arrives
  <2>2. /\ request' = [x \in Request |-> request'[x]]
        /\ \A x \in Request : request'[x] = [pc |-> IF x = r THEN "active" ELSE request[x].pc,
                                             recorded |-> request[x].recorded, outcome |-> request[x].outcome]
    BY <1>0, <2>1 DEF FieldsInv
  <2>3. FieldsInv'
    BY <1>0, <2>1, <2>2 DEF FieldsInv
  <2>4. RequestInv'
    BY <1>0, <2>1, <2>2 DEF RequestInv
  <2>5. LET q == Point(Active("server"), ActiveLabels, 1, r) IN
        q.instrument = Active("server") /\ q.labels = ActiveLabels
    BY DEF Point
  <2>6. PointsInv'
    BY <1>0, <2>1, <2>2, <2>5, PointsKept
  <2>7. ScrapeInv'
    BY <1>0, <2>1, <2>2, ScrapeKept DEF RequestInv
  <2> QED BY <2>3, <2>4, <2>6, <2>7 DEF MetricsInv
<1>2. ASSUME NEW r \in Request, Answered(r) PROVE MetricsInv'
  <2>1. PICK o \in Outcomes : request' = [request EXCEPT ![r].pc = "answered", ![r].outcome = o]
    BY <1>2 DEF Answered
  <2>2. /\ points' = points \cup {Point(Active("server"), ActiveLabels, -1, r)}
        /\ request[r].pc = "active" /\ scrape' = scrape
    BY <1>2 DEF Answered
  <2>3. /\ request' = [x \in Request |-> request'[x]]
        /\ \A x \in Request : request'[x] = [pc |-> IF x = r THEN "answered" ELSE request[x].pc,
                                             recorded |-> request[x].recorded,
                                             outcome |-> IF x = r THEN o ELSE request[x].outcome]
    <3>1. /\ request' = [x \in Request |-> request'[x]]
          /\ \A x \in Request : x # r => request'[x] = request[x]
          /\ request'[r] = [request[r] EXCEPT !.pc = "answered", !.outcome = o]
      BY <1>0, <2>1 DEF FieldsInv
    <3>2. request'[r] = [pc |-> "answered", recorded |-> request[r].recorded, outcome |-> o]
      BY <1>0, <3>1 DEF FieldsInv
    <3> QED BY <1>0, <3>1, <3>2 DEF FieldsInv
  <2>4. request[r].recorded = 0
    BY <1>0, <2>2 DEF RequestInv
  <2>5. FieldsInv'
    BY <1>0, <2>2, <2>3 DEF FieldsInv
  <2>6. RequestInv'
    BY <1>0, <2>3, <2>4 DEF RequestInv
  <2>7. LET q == Point(Active("server"), ActiveLabels, -1, r) IN
        q.instrument = Active("server") /\ q.labels = ActiveLabels
    BY DEF Point
  <2>8. \A x \in Request : /\ request'[x].recorded = request[x].recorded
                           /\ request[x].recorded > 0 => request'[x].outcome = request[x].outcome
    BY <2>3, <2>4
  <2>9. PointsInv'
    BY <1>0, <2>2, <2>7, <2>8, PointsKept
  <2>10. ScrapeInv'
    BY <1>0, <2>2, <2>8, ScrapeKept DEF RequestInv
  <2> QED BY <2>5, <2>6, <2>9, <2>10 DEF MetricsInv
<1>3. ASSUME NEW r \in Request, Dropped(r) PROVE MetricsInv'
  <2>1. /\ request' = [request EXCEPT ![r].pc = "dropped"] /\ scrape' = scrape
        /\ points' = points /\ request[r].pc = "active"
    BY <1>3 DEF Dropped
  <2>2. /\ request' = [x \in Request |-> request'[x]]
        /\ \A x \in Request : request'[x] = [pc |-> IF x = r THEN "dropped" ELSE request[x].pc,
                                             recorded |-> request[x].recorded, outcome |-> request[x].outcome]
    BY <1>0, <2>1 DEF FieldsInv
  <2>3. FieldsInv'
    BY <1>0, <2>1, <2>2 DEF FieldsInv
  <2>4. RequestInv'
    BY <1>0, <2>1, <2>2 DEF RequestInv
  <2>5. PointsInv'
    BY <1>0, <2>1, <2>2 DEF PointsInv
  <2>6. ScrapeInv'
    BY <1>0, <2>1, <2>2, ScrapeKept DEF RequestInv
  <2> QED BY <2>3, <2>4, <2>5, <2>6 DEF MetricsInv
<1>4. ASSUME NEW r \in Request, Records(r) PROVE MetricsInv'
  <2> DEFINE o == request[r].outcome   n == request[r].recorded + 1   q == PointOf(r, o, n)
  <2>1. /\ request' = [request EXCEPT ![r].recorded = n] /\ scrape' = scrape
        /\ points' = points \cup {q} /\ request[r].pc = "answered" /\ n <= 4
    BY <1>4 DEF Records, PointOf
  <2>2. /\ request' = [x \in Request |-> request'[x]]
        /\ \A x \in Request : request'[x] = [pc |-> request[x].pc, outcome |-> request[x].outcome,
                                             recorded |-> IF x = r THEN n ELSE request[x].recorded]
    BY <1>0, <2>1 DEF FieldsInv
  <2>3. request[r].recorded \in 0..4
    BY <1>0 DEF RequestInv
  <2>4. FieldsInv'
    BY <1>0, <2>1, <2>2 DEF FieldsInv
  <2>5. RequestInv'
    BY <1>0, <2>1, <2>2, <2>3 DEF RequestInv
  <2>6. \A x \in Request : 1..request'[x].recorded =
          IF x = r THEN 1..request[x].recorded \cup {n} ELSE 1..request[x].recorded
    <3>1. \A m \in 0..4 : 1..(m + 1) = 1..m \cup {m + 1}
      OBVIOUS
    <3>2. request'[r].recorded = n /\ \A x \in Request : x # r => request'[x].recorded = request[x].recorded
      BY <2>2
    <3> QED BY <2>3, <3>1, <3>2
  <2>7. \A x \in Request : request'[x].outcome = request[x].outcome
    BY <2>2
  <2> HIDE DEF o, n
  <2>8. n \in 1..request'[r].recorded /\ q = PointOf(r, request'[r].outcome, n)
    BY <2>6, <2>7 DEF o
  <2> HIDE DEF q
  <2>9. PointsInv'
    <3>1. ASSUME NEW p \in points'
          PROVE  \/ p.instrument = Active("server") /\ p.labels = ActiveLabels
                 \/ \E x \in Request : \E k \in 1..request'[x].recorded : p = PointOf(x, request'[x].outcome, k)
      <4>1. CASE p \in points
        <5>1. CASE \E x \in Request : \E k \in 1..request[x].recorded : p = PointOf(x, request[x].outcome, k)
          BY <2>6, <2>7, <5>1
        <5> QED BY <1>0, <4>1, <5>1 DEF PointsInv
      <4>2. CASE p = q
        BY <2>8, <4>2
      <4> QED BY <2>1, <4>1, <4>2
    <3>2. ASSUME NEW x \in Request, NEW k \in 1..request'[x].recorded
          PROVE  PointOf(x, request'[x].outcome, k) \in points'
      <4>1. CASE k \in 1..request[x].recorded
        BY <1>0, <2>1, <2>7, <4>1 DEF PointsInv
      <4>2. CASE x = r /\ k = n
        BY <2>1, <2>8, <4>2
      <4> QED BY <2>6, <4>1, <4>2
    <3> QED BY <3>1, <3>2 DEF PointsInv
  <2>10. ScrapeInv'
    <3>1. \A x \in Request : request'[x].recorded \in Nat /\ request[x].recorded <= request'[x].recorded
      BY <1>0, <2>2, <2>3 DEF RequestInv, n
    <3> QED BY <1>0, <2>1, <2>7, <3>1, ScrapeKept
  <2> QED BY <2>4, <2>5, <2>9, <2>10 DEF MetricsInv
<1>5. ASSUME NEW s \in Scraper, NEW path \in Paths, get_prom_metrics(s, path) PROVE MetricsInv'
  <2>1. /\ scrape' = [scrape EXCEPT ![s] = [pc |-> "collecting", next |-> 1, seen |-> {},
                                            was |-> [r \in Request |-> request[r].recorded]]]
        /\ request' = request /\ points' = points
    BY <1>5 DEF get_prom_metrics
  <2>2. /\ scrape' = [x \in Scraper |-> scrape'[x]]
        /\ \A x \in Scraper : scrape'[x] =
             IF x = s THEN [pc |-> "collecting", next |-> 1, seen |-> {},
                            was |-> [r \in Request |-> request[r].recorded]]
             ELSE scrape[x]
    BY <1>0, <2>1 DEF FieldsInv
  <2>3. FieldsInv'
    BY <1>0, <2>1, <2>2 DEF FieldsInv
  <2>4. RequestInv' /\ PointsInv'
    BY <1>0, <2>1 DEF RequestInv, PointsInv
  <2>5. ASSUME NEW x \in Scraper, x # s PROVE scrape'[x] = scrape[x]
    BY <2>2, <2>5
  <2>6. /\ scrape'[s].pc = "collecting" /\ scrape'[s].next = 1 /\ scrape'[s].seen = {}
        /\ \A r \in Request : scrape'[s].was[r] = request[r].recorded
    BY <2>2
  <2>7. \A r \in Request : /\ request[r].recorded \in 0..request[r].recorded
                           /\ \A n \in 1..request[r].recorded : ~(At[n] < 1)
    <3> SUFFICES ASSUME NEW r \in Request
                 PROVE  /\ request[r].recorded \in 0..request[r].recorded
                        /\ \A n \in 1..request[r].recorded : ~(At[n] < 1)
      OBVIOUS
    <3>1. request[r].recorded \in 0..4
      BY <1>0 DEF RequestInv
    <3>2. \A n \in 1..4 : At[n] \in {1, 2, 4, 5}
      BY PointFacts
    <3> QED BY <3>1, <3>2
  <2>8. ScrapeInv'
    BY <1>0, <2>1, <2>5, <2>6, <2>7 DEF ScrapeInv
  <2> QED BY <2>3, <2>4, <2>8 DEF MetricsInv
<1>6. ASSUME NEW s \in Scraper, Collects(s) PROVE MetricsInv'
  <2> DEFINE n == scrape[s].next   new == {p \in points : p.instrument = Server[n]}
  <2>1. /\ scrape' = [scrape EXCEPT ![s].next = n + 1, ![s].seen = @ \cup new,
                                    ![s].pc = IF n = Len(Server) THEN "done" ELSE @]
        /\ request' = request /\ points' = points /\ scrape[s].pc = "collecting"
    BY <1>6 DEF Collects
  <2>2. Len(Server) = 5 /\ n \in 1..5
    <3>1. n \in 1..6 /\ n <= 5
      BY <1>0, <2>1 DEF ScrapeInv
    <3>2. Len(Server) = 5
      BY DEF Server, Side
    <3> QED BY <3>1, <3>2
  <2>3. /\ scrape' = [x \in Scraper |-> scrape'[x]]
        /\ \A x \in Scraper : x # s => scrape'[x] = scrape[x]
        /\ scrape'[s] = [pc |-> IF n = 5 THEN "done" ELSE "collecting", next |-> n + 1,
                         seen |-> scrape[s].seen \cup new, was |-> scrape[s].was]
    <3> HIDE DEF n, new
    <3>1. /\ scrape' = [x \in Scraper |-> scrape'[x]]
          /\ \A x \in Scraper : x # s => scrape'[x] = scrape[x]
          /\ scrape'[s] = [scrape[s] EXCEPT !.next = n + 1, !.seen = @ \cup new,
                                            !.pc = IF n = Len(Server) THEN "done" ELSE @]
      BY <1>0, <2>1 DEF FieldsInv
    <3>2. scrape'[s] = [pc |-> IF n = 5 THEN "done" ELSE "collecting", next |-> n + 1,
                        seen |-> scrape[s].seen \cup new, was |-> scrape[s].was]
      <4>1. \A a, b, c, d, x, y, z :
              [[pc |-> a, next |-> b, seen |-> c, was |-> d] EXCEPT !.next = x, !.seen = y, !.pc = z]
                = [pc |-> z, next |-> x, seen |-> y, was |-> d]
        <5>1. \A a, b, c, d, x :
                [[pc |-> a, next |-> b, seen |-> c, was |-> d] EXCEPT !.next = x]
                  = [pc |-> a, next |-> x, seen |-> c, was |-> d]
          OBVIOUS
        <5>2. \A a, b, c, d, y :
                [[pc |-> a, next |-> b, seen |-> c, was |-> d] EXCEPT !.seen = y]
                  = [pc |-> a, next |-> b, seen |-> y, was |-> d]
          OBVIOUS
        <5>3. \A a, b, c, d, z :
                [[pc |-> a, next |-> b, seen |-> c, was |-> d] EXCEPT !.pc = z]
                  = [pc |-> z, next |-> b, seen |-> c, was |-> d]
          OBVIOUS
        <5>4. \A r, x, y, z : [r EXCEPT !.next = x, !.seen = y, !.pc = z]
                = [[[r EXCEPT !.next = x] EXCEPT !.seen = y] EXCEPT !.pc = z]
          OBVIOUS
        <5>5. ASSUME NEW a, NEW b, NEW c, NEW d, NEW x, NEW y, NEW z
              PROVE  [[pc |-> a, next |-> b, seen |-> c, was |-> d] EXCEPT !.next = x, !.seen = y, !.pc = z]
                       = [pc |-> z, next |-> x, seen |-> y, was |-> d]
          <6> DEFINE r == [pc |-> a, next |-> b, seen |-> c, was |-> d]
                     t == [pc |-> a, next |-> x, seen |-> c, was |-> d]
                     u == [pc |-> a, next |-> x, seen |-> y, was |-> d]
                     v == [pc |-> z, next |-> x, seen |-> y, was |-> d]
          <6>1. [r EXCEPT !.next = x] = t /\ [t EXCEPT !.seen = y] = u /\ [u EXCEPT !.pc = z] = v
            BY <5>1, <5>2, <5>3
          <6> HIDE DEF r, t, u, v
          <6>2. [[[r EXCEPT !.next = x] EXCEPT !.seen = y] EXCEPT !.pc = z] = v
            BY <6>1
          <6>3. [r EXCEPT !.next = x, !.seen = y, !.pc = z] = v
            BY <5>4, <6>2
          <6> QED BY <6>3 DEF r, v
        <5> QED BY <5>5
      <4>2. scrape[s] = [pc |-> scrape[s].pc, next |-> scrape[s].next,
                         seen |-> scrape[s].seen, was |-> scrape[s].was]
        BY <1>0 DEF FieldsInv
      <4>3. scrape'[s] = [scrape[s] EXCEPT !.next = n + 1, !.seen = scrape[s].seen \cup new,
                                           !.pc = IF n = 5 THEN "done" ELSE "collecting"]
        BY <2>1, <2>2, <3>1
      <4> QED BY <4>1, <4>2, <4>3
    <3> QED BY <3>1, <3>2
  <2>4. FieldsInv'
    BY <1>0, <2>1, <2>3 DEF FieldsInv
  <2>5. RequestInv' /\ PointsInv'
    BY <1>0, <2>1 DEF RequestInv, PointsInv
  <2>6. /\ scrape'[s].pc = (IF n = 5 THEN "done" ELSE "collecting") /\ scrape'[s].next = n + 1
        /\ scrape'[s].seen = scrape[s].seen \cup new /\ scrape'[s].was = scrape[s].was
    BY <2>3
  <2>7. ASSUME NEW r \in Request
        PROVE  /\ scrape[s].was[r] \in 0..request[r].recorded
               /\ \A k \in 1..scrape[s].was[r] : At[k] < n + 1 =>
                    PointOf(r, request[r].outcome, k) \in scrape[s].seen \cup new
    <3>1. /\ scrape[s].was[r] \in 0..request[r].recorded /\ request[r].recorded \in 0..4
          /\ \A k \in 1..scrape[s].was[r] : At[k] < n =>
               PointOf(r, request[r].outcome, k) \in scrape[s].seen
      BY <1>0, <2>1 DEF ScrapeInv, RequestInv
    <3>2. ASSUME NEW k \in 1..scrape[s].was[r], At[k] < n + 1
          PROVE  PointOf(r, request[r].outcome, k) \in scrape[s].seen \cup new
      <4>1. k \in 1..4 /\ k \in 1..request[r].recorded
        BY <3>1
      <4>2. At[k] \in {1, 2, 4, 5} /\ PointOf(r, request[r].outcome, k).instrument = Server[At[k]]
        BY <4>1, PointFacts
      <4>3. CASE At[k] < n
        BY <3>1, <4>3
      <4>4. CASE At[k] = n
        BY <1>0, <4>1, <4>2, <4>4 DEF PointsInv
      <4> QED BY <2>2, <3>2, <4>2, <4>3, <4>4
    <3> QED BY <3>1, <3>2
  <2>8. scrape[s].seen \cup new \subseteq points
    BY <1>0 DEF ScrapeInv
  <2> HIDE DEF n, new
  <2>9. ScrapeInv'
    <3>1. /\ n + 1 \in 1..6 /\ (IF n = 5 THEN "done" ELSE "collecting") # "idle"
          /\ (IF n = 5 THEN "done" ELSE "collecting") = "collecting" => n + 1 <= 5
          /\ (IF n = 5 THEN "done" ELSE "collecting") = "done" => n + 1 = 6
      BY <2>2
    <3>2. \A x \in Scraper : x # s => scrape'[x] = scrape[x]
      BY <2>3
    <3>3. ASSUME NEW x \in Scraper, x # s
          PROVE  /\ scrape'[x].next \in 1..6 /\ scrape'[x].seen \subseteq points
                 /\ scrape'[x].pc = "collecting" => scrape'[x].next <= 5
                 /\ scrape'[x].pc = "done" => scrape'[x].next = 6
                 /\ scrape'[x].pc # "idle" => \A r \in Request :
                      /\ scrape'[x].was[r] \in 0..request[r].recorded
                      /\ \A k \in 1..scrape'[x].was[r] : At[k] < scrape'[x].next =>
                           PointOf(r, request[r].outcome, k) \in scrape'[x].seen
      BY <1>0, <3>2, <3>3 DEF ScrapeInv
    <3>4. /\ scrape'[s].next \in 1..6 /\ scrape'[s].seen \subseteq points
          /\ scrape'[s].pc = "collecting" => scrape'[s].next <= 5
          /\ scrape'[s].pc = "done" => scrape'[s].next = 6
          /\ \A r \in Request :
               /\ scrape'[s].was[r] \in 0..request[r].recorded
               /\ \A k \in 1..scrape'[s].was[r] : At[k] < scrape'[s].next =>
                    PointOf(r, request[r].outcome, k) \in scrape'[s].seen
      BY <2>6, <2>7, <2>8, <3>1
    <3> QED BY <2>1, <3>3, <3>4 DEF ScrapeInv
  <2> QED BY <2>4, <2>5, <2>9 DEF MetricsInv
<1>7. ASSUME NEW s \in Scraper, Replies(s) PROVE MetricsInv'
  <2>1. scrape' = [scrape EXCEPT ![s] = Idle] /\ request' = request /\ points' = points
    BY <1>7 DEF Replies
  <2>2. /\ scrape' = [x \in Scraper |-> scrape'[x]]
        /\ \A x \in Scraper : x # s => scrape'[x] = scrape[x]
        /\ scrape'[s] = [pc |-> "idle", next |-> 1, seen |-> {}, was |-> <<>>]
    BY <1>0, <2>1 DEF FieldsInv, Idle
  <2>3. FieldsInv'
    BY <1>0, <2>1, <2>2 DEF FieldsInv
  <2>4. RequestInv' /\ PointsInv'
    BY <1>0, <2>1 DEF RequestInv, PointsInv
  <2>5. ScrapeInv'
    BY <1>0, <2>1, <2>2 DEF ScrapeInv
  <2> QED BY <2>3, <2>4, <2>5 DEF MetricsInv
<1>8. CASE UNCHANGED vars
  BY <1>0, <1>8 DEF vars, MetricsInv, FieldsInv, RequestInv, PointsInv, ScrapeInv
<1> QED BY <1>1, <1>2, <1>3, <1>4, <1>5, <1>6, <1>7, <1>8 DEF Next

(* What requests have recorded is there, once they have recorded it, and a *)
(* scrape has seen what was there of the instruments it has collected.     *)
THEOREM MetricsInvariant == Spec => []MetricsInv
BY MetricsInit, MetricsNext, PTL DEF Spec

-----------------------------------------------------------------------------
(* No text has a series twice.                                             *)

(* Whose an instrument is, by the words of its name.                       *)
LEMMA Groups ==
  /\ \A i \in ToSet(Server) : i.name[1] = "http" /\ i.name[3] = "server"
  /\ \A i \in ToSet(Side("client") \o ClientOnly) : i.name[1] = "http" /\ i.name[3] = "client"
  /\ \A i \in ToSet(Runtime) : i.name[1] = "runtime"
  /\ \A i \in ToSet(Spiffe) : i.name[1] = "spiffe"
<1>1. ASSUME NEW side, NEW i \in ToSet(Side(side)) PROVE i.name[1] = "http" /\ i.name[3] = side
  <2>1. DOMAIN Side(side) = 1..5
    BY DEF Side
  <2>2. i \in {Duration(side), Total(side), Active(side), Asked(side), Replied(side)}
    BY <1>1, <2>1 DEF Side, ToSet
  <2>3. /\ Duration(side).name[1] = "http" /\ Duration(side).name[3] = side
        /\ Total(side).name[1] = "http" /\ Total(side).name[3] = side
        /\ Active(side).name[1] = "http" /\ Active(side).name[3] = side
        /\ Asked(side).name[1] = "http" /\ Asked(side).name[3] = side
        /\ Replied(side).name[1] = "http" /\ Replied(side).name[3] = side
    BY DEF Duration, Total, Active, Asked, Replied, I
  <2> QED BY <2>2, <2>3
<1>2. ToSet(Side("client") \o ClientOnly) = ToSet(Side("client")) \cup ToSet(ClientOnly)
  <2>1. IsSeq(Side("client")) /\ IsSeq(ClientOnly)
    <3>1. \A a, b, c, d, e : <<a, b, c, d, e>> \in Seq({a, b, c, d, e})
      OBVIOUS
    <3>2. \A a, b : <<a, b>> \in Seq({a, b})
      OBVIOUS
    <3> QED BY <3>1, <3>2, SeqIsSeq DEF Side, ClientOnly
  <2> QED BY <2>1, CatFacts
<1>3. \A i \in ToSet(ClientOnly) : i.name[1] = "http" /\ i.name[3] = "client"
  <2>1. DOMAIN ClientOnly = 1..2
    BY DEF ClientOnly
  <2>2. ToSet(ClientOnly) = {ClientOnly[1], ClientOnly[2]}
    BY <2>1 DEF ToSet
  <2>3. /\ ClientOnly[1].name[1] = "http" /\ ClientOnly[1].name[3] = "client"
        /\ ClientOnly[2].name[1] = "http" /\ ClientOnly[2].name[3] = "client"
    BY DEF ClientOnly, I
  <2> QED BY <2>2, <2>3
<1>4. \A i \in ToSet(Runtime) : i.name[1] = "runtime"
  <2>1. DOMAIN Runtime = 1..6
    BY DEF Runtime
  <2>2. ToSet(Runtime) = {Runtime[1], Runtime[2], Runtime[3], Runtime[4], Runtime[5], Runtime[6]}
    BY <2>1 DEF ToSet
  <2>3. /\ Runtime[1].name[1] = "runtime" /\ Runtime[2].name[1] = "runtime" /\ Runtime[3].name[1] = "runtime"
        /\ Runtime[4].name[1] = "runtime" /\ Runtime[5].name[1] = "runtime" /\ Runtime[6].name[1] = "runtime"
    BY DEF Runtime, I
  <2> QED BY <2>2, <2>3
<1>5. \A i \in ToSet(Spiffe) : i.name[1] = "spiffe"
  <2>1. DOMAIN Spiffe = 1..3
    BY DEF Spiffe
  <2>2. ToSet(Spiffe) = {Spiffe[1], Spiffe[2], Spiffe[3]}
    BY <2>1 DEF ToSet
  <2>3. Spiffe[1].name[1] = "spiffe" /\ Spiffe[2].name[1] = "spiffe" /\ Spiffe[3].name[1] = "spiffe"
    BY DEF Spiffe, I
  <2> QED BY <2>2, <2>3
<1> QED BY <1>1, <1>2, <1>3, <1>4, <1>5 DEF Server

(* The points of the rest of the service have the labels that go with      *)
(* their instruments.                                                      *)
LEMMA ElsewhereFacts ==
  ASSUME NEW p \in Elsewhere
  PROVE  \/ /\ p.instrument.name[1] = "http" /\ p.instrument.name[3] = "client"
            /\ p.labels = ClientLabels(p.instrument)
         \/ p.instrument.name[1] = "runtime" /\ p.labels = RuntimeLabels(p.instrument)
         \/ p.instrument.name[1] = "spiffe" /\ p.labels = SpiffeLabels(p.instrument)
<1>1. \A i, l, by : Point(i, l, 1, by).instrument = i /\ Point(i, l, 1, by).labels = l
  BY DEF Point
<1>2. \/ \E i \in ToSet(Side("client") \o ClientOnly) : p = Point(i, ClientLabels(i), 1, "client")
      \/ \E i \in ToSet(Runtime) : p = Point(i, RuntimeLabels(i), 1, "runtime")
      \/ \E i \in ToSet(Spiffe) : p = Point(i, SpiffeLabels(i), 1, "spiffe")
  BY DEF Elsewhere
<1> QED BY <1>1, <1>2, Groups

(* The points of the server are those of a request that is active or       *)
(* answered.                                                               *)
LEMMA ServerFacts ==
  ASSUME MetricsInv, NEW p \in points
  PROVE  /\ p.instrument \in ToSet(Server)
         /\ \/ p.instrument = Active("server") /\ p.labels = ActiveLabels
            \/ /\ p.instrument # Active("server")
               /\ \E o \in Outcomes : p.labels = AllLabels(o)
<1>1. /\ \A k \in {1, 2, 3, 4, 5} : Server[k] \in ToSet(Server)
      /\ Active("server") = Server[3]
  <2>1. DOMAIN Server = 1..5 /\ Server[3] = Active("server")
    BY DEF Server, Side
  <2> QED BY <2>1 DEF ToSet
<1>2. \A k \in {1, 2, 4, 5} : Server[k] # Active("server")
  <2>1. /\ Server[1] = Duration("server") /\ Server[2] = Total("server")
        /\ Server[4] = Asked("server") /\ Server[5] = Replied("server")
    BY DEF Server, Side
  <2>2. /\ Duration("server").kind = "histogram" /\ Total("server").kind = "counter"
        /\ Asked("server").kind = "histogram" /\ Replied("server").kind = "histogram"
        /\ Active("server").kind = "up_down"
    BY DEF Duration, Total, Asked, Replied, Active, I
  <2> QED BY <2>1, <2>2
<1>3. CASE \E r \in Request : \E n \in 1..request[r].recorded : p = PointOf(r, request[r].outcome, n)
  <2>1. PICK r \in Request : \E n \in 1..request[r].recorded : p = PointOf(r, request[r].outcome, n)
    BY <1>3
  <2>2. PICK n \in 1..request[r].recorded : p = PointOf(r, request[r].outcome, n)
    BY <2>1
  <2>3. n \in 1..4 /\ request[r].outcome \in Outcomes
    BY DEF MetricsInv, RequestInv
  <2>4. At[n] \in {1, 2, 4, 5} /\ p.instrument = Server[At[n]] /\ p.labels = AllLabels(request[r].outcome)
    BY <2>2, <2>3, PointFacts
  <2> QED BY <1>1, <1>2, <2>3, <2>4
<1> QED BY <1>1, <1>3 DEF MetricsInv, PointsInv

(* The labels of what is recorded are told by what they are.               *)
LEMMA AllKnown ==
  ASSUME MetricsInv
  PROVE  Known(points \cup Elsewhere)
<1>1. ASSUME NEW p \in points \cup Elsewhere PROVE Bare(p.labels)
  <2>1. CASE p \in points
    BY <2>1, ServerFacts, ActiveBare, AllBare
  <2>2. CASE p \in Elsewhere
    BY <2>2, ElsewhereFacts, ElsewhereBare
  <2> QED BY <2>1, <2>2
<1>2. ASSUME NEW p \in points \cup Elsewhere, NEW q \in points \cup Elsewhere,
             p.instrument = q.instrument, ToSet(p.labels) = ToSet(q.labels)
      PROVE  p.labels = q.labels
  <2>1. CASE p \in points /\ q \in points
    BY <1>2, <2>1, ServerFacts, AllTell
  <2>2. CASE p \in Elsewhere /\ q \in Elsewhere
    <3>1. /\ \/ /\ p.instrument.name[1] = "http" /\ p.labels = ClientLabels(p.instrument)
             \/ p.instrument.name[1] = "runtime" /\ p.labels = RuntimeLabels(p.instrument)
             \/ p.instrument.name[1] = "spiffe" /\ p.labels = SpiffeLabels(p.instrument)
          /\ \/ /\ q.instrument.name[1] = "http" /\ q.labels = ClientLabels(q.instrument)
             \/ q.instrument.name[1] = "runtime" /\ q.labels = RuntimeLabels(q.instrument)
             \/ q.instrument.name[1] = "spiffe" /\ q.labels = SpiffeLabels(q.instrument)
      BY <2>2, ElsewhereFacts
    <3> QED BY <1>2, <3>1
  <2>3. ASSUME NEW x \in points, NEW y \in Elsewhere PROVE x.instrument # y.instrument
    <3>1. x.instrument.name[1] = "http" /\ x.instrument.name[3] = "server"
      BY ServerFacts, Groups
    <3>2. \/ y.instrument.name[1] = "http" /\ y.instrument.name[3] = "client"
          \/ y.instrument.name[1] = "runtime"
          \/ y.instrument.name[1] = "spiffe"
      BY ElsewhereFacts
    <3> QED BY <3>1, <3>2
  <2> QED BY <1>2, <2>1, <2>2, <2>3
<1> QED BY <1>1, <1>2 DEF Known

(* Every text has each series once, and each label of a line once: so it   *)
(* is for every set of exporters, resource, boundaries and outcomes.       *)
THEOREM EverySeriesOnce == Spec => []SeriesDistinct
<1>1. MetricsInv => SeriesDistinct
  <2> SUFFICES ASSUME MetricsInv, NEW s \in Scraper PROVE Distinct(export(s))
    BY DEF SeriesDistinct
  <2>1. scrape[s].seen \cup Elsewhere \subseteq points \cup Elsewhere
    BY DEF MetricsInv, ScrapeInv
  <2>2. Known(scrape[s].seen \cup Elsewhere)
    BY <2>1, AllKnown DEF Known
  <2> QED BY <2>2, TextDistinct DEF export
<1> QED BY <1>1, MetricsInvariant, PTL

-----------------------------------------------------------------------------
(* What a scrape tells.                                                    *)

(* What a text says of a series it has, and of one that it has not.        *)
LEMMA ShownFacts ==
  ASSUME NEW text, Distinct(text), NEW name, NEW labels
  PROVE  /\ \A x \in text : x.name = name /\ x.labels = labels => Shown(text, name, labels) = x.value
         /\ (\A x \in text : ~(x.name = name /\ x.labels = labels)) => Shown(text, name, labels) = 0
<1> DEFINE found == {x \in text : x.name = name /\ x.labels = labels}
<1>1. Shown(text, name, labels) = IF found = {} THEN 0 ELSE (CHOOSE x \in found : TRUE).value
  BY DEF Shown
<1>2. \A x, y \in found : x = y
  BY DEF Distinct
<1>3. ASSUME NEW x \in text, x.name = name /\ x.labels = labels PROVE Shown(text, name, labels) = x.value
  <2>1. x \in found
    BY <1>3
  <2> HIDE DEF found
  <2>2. (CHOOSE y \in found : TRUE) = x
    BY <1>2, <2>1
  <2> QED BY <1>1, <2>1, <2>2
<1>4. ASSUME \A x \in text : ~(x.name = name /\ x.labels = labels) PROVE Shown(text, name, labels) = 0
  <2>1. found = {}
    BY <1>4
  <2> HIDE DEF found
  <2> QED BY <1>1, <2>1
<1> QED BY <1>3, <1>4

(* As many requests as points, whatever of a request one counts.           *)
LEMMA CountPoints ==
  ASSUME NEW R \in SUBSET Request, NEW n \in 1..4
  PROVE  LET Q == {PointOf(r, request[r].outcome, n) : r \in R} IN
         IsFiniteSet(R) /\ IsFiniteSet(Q) /\ Cardinality(Q) = Cardinality(R) /\ Cardinality(R) \in Nat
<1> DEFINE f == [r \in R |-> PointOf(r, request[r].outcome, n)]
           Q == {PointOf(r, request[r].outcome, n) : r \in R}
<1>1. IsFiniteSet(R) /\ Cardinality(R) \in Nat
  <2>1. IsFiniteSet(Request)
    BY DEF MeasuresAssumption
  <2> QED BY <2>1, FS_Subset, FS_CardinalityType
<1>2. \A r \in R : PointOf(r, request[r].outcome, n).by = r
  BY PointFacts
<1>3. f \in Bijection(R, Q)
  <2>1. f \in [R -> Q] /\ \A q \in Q : \E r \in R : f[r] = q
    OBVIOUS
  <2>2. \A r, t \in R : f[r] = f[t] => r = t
    <3>1. \A r \in R : f[r] = PointOf(r, request[r].outcome, n)
      OBVIOUS
    <3> HIDE DEF f
    <3> QED BY <1>2, <3>1
  <2> HIDE DEF f, Q
  <2> QED BY <2>1, <2>2 DEF Bijection, Injection, Surjection, IsInjective
<1>4. ExistsBijection(R, Q)
  BY <1>3 DEF ExistsBijection
<1> HIDE DEF Q
<1>5. IsFiniteSet(Q) /\ Cardinality(Q) = Cardinality(R)
  BY <1>1, <1>4, FS_Bijection
<1> QED BY <1>1, <1>5 DEF Q

(* The four instruments, and what is recorded into them.                   *)
LEMMA RecordingFacts ==
  ASSUME NEW o, NEW n \in 1..4
  PROVE  /\ Recording(o)[n][1] = Server[At[n]] /\ Server[At[n]] \in Instruments
         /\ Server[At[n]] # Active("server")
         /\ \A k \in 1..4 : Server[At[k]] = Server[At[n]] => k = n
         /\ Server[At[1]] = Total("server")
         /\ Server[At[n]].kind = IF n = 1 THEN "counter" ELSE "histogram"
         /\ n = 1 => Recording(o)[n][2] = 1
         /\ o \in Outcomes => Recording(o)[n][2] \in Nat
<1>1. \A k \in 1..4 : k = 1 \/ k = 2 \/ k = 3 \/ k = 4
  OBVIOUS
<1>2. At[1] = 2 /\ At[2] = 1 /\ At[3] = 4 /\ At[4] = 5
  BY DEF At
<1>3. /\ Server[1] = Duration("server") /\ Server[2] = Total("server")
      /\ Server[4] = Asked("server") /\ Server[5] = Replied("server")
  BY DEF Server, Side
<1>4. /\ Recording(o)[1] = <<Total("server"), 1>> /\ Recording(o)[2] = <<Duration("server"), o.duration>>
      /\ Recording(o)[3] = <<Asked("server"), o.request_size>>
      /\ Recording(o)[4] = <<Replied("server"), o.response_size>>
  BY DEF Recording
<1>5. /\ Duration("server").kind = "histogram" /\ Total("server").kind = "counter"
      /\ Asked("server").kind = "histogram" /\ Replied("server").kind = "histogram"
      /\ Active("server").kind = "up_down"
      /\ Duration("server").unit = "s" /\ Asked("server").unit = "By" /\ Replied("server").unit = "By"
      /\ Asked("server").name[5] = "request" /\ Replied("server").name[5] = "response"
  BY DEF Duration, Total, Asked, Replied, Active, I
<1>6. o \in Outcomes => o.duration \in Nat /\ o.request_size \in Nat /\ o.response_size \in Nat
  BY DEF MeasuresAssumption
<1>7. {Duration("server"), Total("server"), Asked("server"), Replied("server")} \subseteq Instruments
  BY TheInstruments
<1>8. Recording(o)[n][1] = Server[At[n]] /\ Server[At[n]] \in Instruments
  <2>1. \A a, b : <<a, b>>[1] = a
    OBVIOUS
  <2> QED BY <1>1, <1>2, <1>3, <1>4, <1>7, <2>1
<1>9. Server[At[n]] # Active("server") /\ Server[At[n]].kind = IF n = 1 THEN "counter" ELSE "histogram"
  BY <1>1, <1>2, <1>3, <1>5
<1>10. \A k \in 1..4 : Server[At[k]] = Server[At[n]] => k = n
  BY <1>1, <1>2, <1>3, <1>5
<1>11. (n = 1 => Recording(o)[n][2] = 1) /\ (o \in Outcomes => Recording(o)[n][2] \in Nat)
  <2>1. \A a, b : <<a, b>>[2] = b
    OBVIOUS
  <2> QED BY <1>1, <1>4, <1>6, <2>1
<1> QED BY <1>2, <1>3, <1>8, <1>9, <1>10, <1>11

(* The requests of which a scrape has seen one of the four records, with   *)
(* the labels of some outcome.                                             *)
SeenRequests(s, n, o) ==
  {r \in Request : /\ n <= request[r].recorded
                   /\ PointOf(r, request[r].outcome, n) \in scrape[s].seen
                   /\ AllLabels(request[r].outcome) = AllLabels(o)}

(* What has been seen of an instrument with such labels is what these      *)
(* requests recorded.                                                      *)
LEMMA SeenPoints ==
  ASSUME MetricsInv, NEW s \in Scraper, NEW n \in 1..4, NEW o \in Outcomes
  PROVE  Of(scrape[s].seen, Server[At[n]], AllLabels(o))
           = {PointOf(r, request[r].outcome, n) : r \in SeenRequests(s, n, o)}
<1> DEFINE Q == Of(scrape[s].seen, Server[At[n]], AllLabels(o))
<1>1. ASSUME NEW p \in Q
      PROVE  \E r \in SeenRequests(s, n, o) : p = PointOf(r, request[r].outcome, n)
  <2>1. p \in scrape[s].seen /\ p.instrument = Server[At[n]] /\ p.labels = AllLabels(o)
    BY DEF Of
  <2>2. p \in points
    BY <2>1 DEF MetricsInv, ScrapeInv
  <2>3. p.instrument # Active("server")
    BY <2>1, RecordingFacts
  <2>4. PICK r \in Request : \E k \in 1..request[r].recorded : p = PointOf(r, request[r].outcome, k)
    BY <2>2, <2>3 DEF MetricsInv, PointsInv
  <2>5. PICK k \in 1..request[r].recorded : p = PointOf(r, request[r].outcome, k)
    BY <2>4
  <2>6. request[r].recorded \in 0..4
    BY DEF MetricsInv, RequestInv
  <2>7. k \in 1..4 /\ k <= request[r].recorded
    BY <2>6
  <2>8. p.instrument = Server[At[k]] /\ p.labels = AllLabels(request[r].outcome)
    BY <2>5, <2>7, PointFacts
  <2>9. k = n
    <3>1. \A j, m \in 1..4 : Server[At[j]] = Server[At[m]] => j = m
      BY RecordingFacts
    <3> QED BY <2>1, <2>7, <2>8, <3>1
  <2>10. r \in SeenRequests(s, n, o)
    BY <2>1, <2>5, <2>7, <2>8, <2>9 DEF SeenRequests
  <2> QED BY <2>5, <2>9, <2>10
<1>2. ASSUME NEW r \in SeenRequests(s, n, o) PROVE PointOf(r, request[r].outcome, n) \in Q
  BY PointFacts DEF SeenRequests, Of
<1> QED BY <1>1, <1>2

(* A scrape has seen every request that was recorded before it began, and  *)
(* none that has not been recorded since.                                  *)
LEMMA SeenBetween ==
  ASSUME MetricsInv, NEW s \in Scraper, Done(s), NEW n \in 1..4, NEW o \in Outcomes
  PROVE  /\ Labelled(RecordedBefore(s, n), o) \subseteq SeenRequests(s, n, o)
         /\ SeenRequests(s, n, o) \subseteq Labelled(RecordedSince(n), o)
         /\ Labelled(RecordedSince(n), o) \subseteq Request
<1>1. scrape[s].next = 6 /\ scrape[s].pc # "idle"
  BY DEF Done, MetricsInv, ScrapeInv
<1>2. At[n] < 6
  <2>1. At[n] \in {1, 2, 4, 5}
    BY PointFacts
  <2> QED BY <2>1
<1>3. ASSUME NEW r \in Request, scrape[s].was[r] >= n
      PROVE  n <= request[r].recorded /\ PointOf(r, request[r].outcome, n) \in scrape[s].seen
  <2>1. /\ scrape[s].was[r] \in 0..request[r].recorded /\ request[r].recorded \in 0..4
        /\ \A k \in 1..scrape[s].was[r] : At[k] < scrape[s].next =>
             PointOf(r, request[r].outcome, k) \in scrape[s].seen
    BY <1>1 DEF MetricsInv, ScrapeInv, RequestInv
  <2>2. n \in 1..scrape[s].was[r] /\ n <= request[r].recorded
    BY <1>3, <2>1
  <2> QED BY <1>1, <1>2, <2>1, <2>2
<1>4. Labelled(RecordedBefore(s, n), o) \subseteq SeenRequests(s, n, o)
  BY <1>3 DEF Labelled, RecordedBefore, SeenRequests
<1>5. SeenRequests(s, n, o) \subseteq Labelled(RecordedSince(n), o)
  <2>1. \A r \in Request : request[r].recorded \in Nat
    BY DEF MetricsInv, RequestInv
  <2> QED BY <2>1 DEF Labelled, RecordedSince, SeenRequests
<1> QED BY <1>4, <1>5 DEF Labelled, RecordedSince

(* Where nothing has been seen of a record, no line is of it.              *)
LEMMA NothingShown ==
  ASSUME MetricsInv, NEW cfg, NEW s \in Scraper, NEW n \in 1..4, NEW o \in Outcomes,
         SeenRequests(s, n, o) = {}, NEW suffix, NEW le, IsLe(le)
  PROVE  \A x \in serialize(cfg, scrape[s].seen) :
           ~(x.name = LineName(cfg, Server[At[n]], suffix) /\ x.labels = Written(cfg, AllLabels(o), le))
<1> DEFINE i == Server[At[n]]
<1> SUFFICES ASSUME NEW x \in serialize(cfg, scrape[s].seen),
                    x.name = LineName(cfg, i, suffix), x.labels = Written(cfg, AllLabels(o), le)
             PROVE  FALSE
  OBVIOUS
<1>1. i \in Instruments /\ i # Active("server") /\ Of(scrape[s].seen, i, AllLabels(o)) = {}
  <2>1. i \in Instruments /\ i # Active("server")
    BY RecordingFacts
  <2>2. Of(scrape[s].seen, i, AllLabels(o)) = {PointOf(r, request[r].outcome, n) : r \in SeenRequests(s, n, o)}
    BY SeenPoints
  <2>3. {PointOf(r, request[r].outcome, n) : r \in {}} = {}
    OBVIOUS
  <2> QED BY <2>1, <2>2, <2>3
<1> HIDE DEF i
<1>2. x \notin TargetInfo(cfg)
  BY <1>1, TargetOnce, LineNamesTell
<1>3. PICK p \in scrape[s].seen :
        p.instrument \in Instruments
        /\ x \in LinesOf(cfg, p.instrument, p.labels, Of(scrape[s].seen, p.instrument, p.labels))
  BY <1>2, TextLines
<1>4. p \in points
  BY DEF MetricsInv, ScrapeInv
<1>5. Bare(p.labels) /\ Bare(AllLabels(o))
  BY <1>4, AllKnown, AllBare DEF Known
<1>6. p.instrument = i
  <2>1. PICK b : x.name = LineName(cfg, p.instrument, b)
    BY <1>3, <1>5, LineFacts
  <2>2. LineName(cfg, i, suffix) = LineName(cfg, p.instrument, b)
    BY <2>1
  <2> QED BY <1>1, <1>3, <2>2, LineNamesTell
<1>7. ToSet(p.labels) = ToSet(AllLabels(o))
  <2>1. PICK lf : IsLe(lf) /\ x.labels = Written(cfg, p.labels, lf)
    BY <1>3, <1>5, LineFacts
  <2>2. ToSet(Written(cfg, p.labels, lf)) = ToSet(Written(cfg, AllLabels(o), le))
    BY <2>1
  <2>3. IsLe(le) /\ IsLe(lf)
    BY <2>1
  <2> QED BY ONLY <1>5, <2>2, <2>3, WrittenTell
<1>8. p.labels = AllLabels(o)
  <2>1. PICK q \in Outcomes : p.labels = AllLabels(q)
    BY <1>1, <1>4, <1>6, ServerFacts
  <2> QED BY <1>7, <2>1, AllTell
<1>9. p \in Of(scrape[s].seen, i, AllLabels(o))
  BY <1>6, <1>8 DEF Of
<1> QED BY <1>1, <1>9

(* What is below a boundary, among the requests.                           *)
BelowRequests(R, n, k) == {r \in R : Recording(request[r].outcome)[n][2] <= Bounds[k]}

(* The text tells how many requests have been seen, and how many of them   *)
(* within each boundary.                                                   *)
LEMMA ShownCounts ==
  ASSUME MetricsInv, NEW cfg, NEW s \in Scraper, NEW n \in 1..4, NEW o \in Outcomes
  PROVE  LET text   == serialize(cfg, scrape[s].seen)
             name   == FinalName(cfg, Server[At[n]])
             R      == SeenRequests(s, n, o)
             labels == AllLabels(o)
         IN  /\ n = 1 => Shown(text, name, Written(cfg, labels, <<>>)) = Cardinality(R)
             /\ n # 1 => /\ Shown(text, Suffixed(name, "count"), Written(cfg, labels, <<>>)) = Cardinality(R)
                         /\ \A k \in DOMAIN Bounds :
                              Shown(text, Suffixed(name, "bucket"), Written(cfg, labels, LeOf(BoundText(k))))
                                = Cardinality(BelowRequests(R, n, k))
<1> DEFINE text == serialize(cfg, scrape[s].seen)   i == Server[At[n]]   name == FinalName(cfg, i)
           R == SeenRequests(s, n, o)   labels == AllLabels(o)   Q == Of(scrape[s].seen, i, labels)
<1>1. Distinct(text)
  <2>1. scrape[s].seen \subseteq points \cup Elsewhere
    BY DEF MetricsInv, ScrapeInv
  <2>2. Known(scrape[s].seen)
    BY <2>1, AllKnown DEF Known
  <2> QED BY <2>2, TextDistinct
<1>2. /\ i \in Instruments /\ i.kind = IF n = 1 THEN "counter" ELSE "histogram"
  BY RecordingFacts
<1>3. \A suffix : LineName(cfg, i, suffix) = IF n = 1 THEN name ELSE Suffixed(name, suffix)
  BY <1>2 DEF LineName
<1>4. R \in SUBSET Request /\ \A r \in R : request[r].outcome \in Outcomes
  <2>1. \A r \in R : request[r].recorded > 0 /\ request[r].outcome \in Outcomes
    BY DEF SeenRequests, MetricsInv, RequestInv
  <2> QED BY <2>1 DEF SeenRequests
<1>5. Q = {PointOf(r, request[r].outcome, n) : r \in R}
  BY SeenPoints
<1>6. IsFiniteSet(Q) /\ Cardinality(Q) = Cardinality(R)
  BY <1>4, <1>5, CountPoints
<1>7. /\ \A p \in Q : p.value \in Nat
      /\ n = 1 => \A p \in Q : p.value = 1
  BY <1>4, <1>5, PointFacts, RecordingFacts
<1>8. ASSUME NEW k \in DOMAIN Bounds
      PROVE  Cardinality(Below(Q, k)) = Cardinality(BelowRequests(R, n, k))
  <2>1. Below(Q, k) = {PointOf(r, request[r].outcome, n) : r \in BelowRequests(R, n, k)}
    <3>1. \A r : PointOf(r, request[r].outcome, n).value = Recording(request[r].outcome)[n][2]
      BY PointFacts
    <3> QED BY <1>5, <3>1 DEF Below, BelowRequests
  <2>2. BelowRequests(R, n, k) \in SUBSET Request
    BY <1>4 DEF BelowRequests
  <2> QED BY <2>1, <2>2, CountPoints
<1>9. \A x : x \in LinesOf(cfg, i, labels, Q) /\ Q # {} => x \in text
  <2> SUFFICES ASSUME NEW x \in LinesOf(cfg, i, labels, Q), Q # {} PROVE x \in text
    OBVIOUS
  <2>1. PICK p \in Q : TRUE
    OBVIOUS
  <2>2. p \in scrape[s].seen /\ p.instrument = i /\ p.labels = labels
    BY DEF Of
  <2> QED BY <1>2, <2>2, TextLines
<1>10. Q = {} => R = {}
  BY <1>5
<1>11. Cardinality({}) = 0
  BY FS_EmptySet
<1> HIDE DEF text, i, name, R, labels, Q
<1>12. ASSUME n = 1 PROVE Shown(text, name, Written(cfg, labels, <<>>)) = Cardinality(R)
  <2> DEFINE x == Line(<<i, labels, "value", 0>>, name, Written(cfg, labels, <<>>), SumOf(Q))
  <2>1. x.name = name /\ x.labels = Written(cfg, labels, <<>>) /\ x.value = SumOf(Q)
    BY DEF Line
  <2>2. x \in LinesOf(cfg, i, labels, Q)
    BY <1>2, <1>12 DEF LinesOf, name
  <2> HIDE DEF x
  <2>3. SumOf(Q) = Cardinality(Q)
    BY <1>6, <1>7, <1>12, SumOfOnes
  <2>4. CASE Q # {}
    BY <1>1, <1>6, <1>9, <2>1, <2>2, <2>3, <2>4, ShownFacts
  <2>5. CASE Q = {}
    <3>1. \A y \in text : ~(y.name = name /\ y.labels = Written(cfg, labels, <<>>))
      <4>1. IsLe(<<>>) /\ R = {}
        BY <1>10, <2>5, LeTell
      <4>2. \A y \in text : ~(y.name = LineName(cfg, i, "value") /\ y.labels = Written(cfg, labels, <<>>))
        BY <4>1, NothingShown DEF text, i, labels, R
      <4>3. LineName(cfg, i, "value") = name
        BY <1>3, <1>12
      <4> QED BY ONLY <4>2, <4>3
    <3>2. Shown(text, name, Written(cfg, labels, <<>>)) = 0
      BY ONLY <1>1, <3>1, ShownFacts
    <3> QED BY <1>10, <1>11, <2>5, <3>2
  <2> QED BY <2>4, <2>5
<1>13. ASSUME n # 1 PROVE Shown(text, Suffixed(name, "count"), Written(cfg, labels, <<>>)) = Cardinality(R)
  <2> DEFINE x == CountLine(cfg, i, labels, Q)
  <2>1. /\ x.name = Suffixed(name, "count") /\ x.labels = Written(cfg, labels, <<>>)
        /\ x.value = Cardinality(Q)
    BY HistogramLines DEF name
  <2>2. x \in LinesOf(cfg, i, labels, Q)
    BY <1>2, <1>13, HistogramLines DEF LinesOf
  <2> HIDE DEF x
  <2>3. CASE Q # {}
    BY <1>1, <1>6, <1>9, <2>1, <2>2, <2>3, ShownFacts
  <2>4. CASE Q = {}
    <3>1. \A y \in text : ~(y.name = Suffixed(name, "count") /\ y.labels = Written(cfg, labels, <<>>))
      <4>1. IsLe(<<>>) /\ R = {}
        BY <1>10, <2>4, LeTell
      <4>2. \A y \in text : ~(y.name = LineName(cfg, i, "count") /\ y.labels = Written(cfg, labels, <<>>))
        BY <4>1, NothingShown DEF text, i, labels, R
      <4>3. LineName(cfg, i, "count") = Suffixed(name, "count")
        BY <1>3, <1>13
      <4> QED BY <4>2, <4>3
    <3> QED BY <1>1, <1>10, <1>11, <2>4, <3>1, ShownFacts
  <2> QED BY <2>3, <2>4
<1>14. ASSUME n # 1, NEW k \in DOMAIN Bounds
       PROVE  Shown(text, Suffixed(name, "bucket"), Written(cfg, labels, LeOf(BoundText(k))))
                = Cardinality(BelowRequests(R, n, k))
  <2> DEFINE x == BucketLine(cfg, i, labels, Q, k)
  <2>1. /\ x.name = Suffixed(name, "bucket") /\ x.labels = Written(cfg, labels, LeOf(BoundText(k)))
        /\ x.value = Cumulative(Q, k)
    BY BucketSays DEF name
  <2>2. x \in LinesOf(cfg, i, labels, Q)
    BY <1>2, <1>14, HistogramLines DEF LinesOf
  <2> HIDE DEF x
  <2>3. Cumulative(Q, k) = Cardinality(BelowRequests(R, n, k))
    BY <1>6, <1>7, <1>8, CumulativeCounts
  <2>4. CASE Q # {}
    BY <1>1, <1>9, <2>1, <2>2, <2>3, <2>4, ShownFacts
  <2>5. CASE Q = {}
    <3>1. \A y \in text : ~(y.name = Suffixed(name, "bucket") /\ y.labels = Written(cfg, labels, LeOf(BoundText(k))))
      <4>1. IsLe(LeOf(BoundText(k))) /\ R = {}
        BY <1>10, <2>5, LeTell
      <4>2. \A y \in text : ~(y.name = LineName(cfg, i, "bucket") /\ y.labels = Written(cfg, labels, LeOf(BoundText(k))))
        BY <4>1, NothingShown DEF text, i, labels, R
      <4>3. LineName(cfg, i, "bucket") = Suffixed(name, "bucket")
        BY <1>3, <1>14
      <4> QED BY <4>2, <4>3
    <3>2. BelowRequests(R, n, k) = {}
      BY <1>10, <2>5 DEF BelowRequests
    <3> QED BY <1>1, <1>11, <3>1, <3>2, ShownFacts
  <2> QED BY <2>4, <2>5
<1> QED BY <1>12, <1>13, <1>14 DEF text, name, i, R, labels


(* What has been seen is between what was recorded before the scrape began *)
(* and what has been recorded since, whatever of it one counts.            *)
LEMMA CountedBetween ==
  ASSUME MetricsInv, NEW s \in Scraper, Done(s), NEW n \in 1..4, NEW o \in Outcomes, NEW T
  PROVE  LET before == Labelled(RecordedBefore(s, n), o) \cap T
             seen   == SeenRequests(s, n, o) \cap T
             since  == Labelled(RecordedSince(n), o) \cap T
         IN  Cardinality(before) <= Cardinality(seen) /\ Cardinality(seen) <= Cardinality(since)
<1> DEFINE before == Labelled(RecordedBefore(s, n), o) \cap T
           seen   == SeenRequests(s, n, o) \cap T
           since  == Labelled(RecordedSince(n), o) \cap T
<1>1. before \subseteq seen /\ seen \subseteq since /\ since \subseteq Request
  BY SeenBetween
<1> HIDE DEF before, seen, since
<1>2. IsFiniteSet(seen) /\ IsFiniteSet(since)
  <2>1. IsFiniteSet(Request)
    BY DEF MeasuresAssumption
  <2> QED BY <1>1, <2>1, FS_Subset
<1>3. Cardinality(before) <= Cardinality(seen) /\ Cardinality(seen) <= Cardinality(since)
  BY <1>1, <1>2, FS_Subset
<1> QED BY <1>3 DEF before, seen, since

(* However requests and scrapes interleave, a scrape that has collected    *)
(* all instruments tells of every request that was recorded before it      *)
(* began and of none that has not been recorded since, in all the buckets  *)
(* whose boundary it does not exceed: so it is for every number of         *)
(* requests and scrapes, exporters, boundaries and outcomes.               *)
THEOREM EveryScrapeTells == Spec => []ScrapesTell
<1>1. ASSUME MetricsInv, NEW s \in Scraper, Done(s) PROVE Tells(s)
  <2> DEFINE text == serialize(prom, scrape[s].seen)
             labels(o, le) == Written(prom, AllLabels(o), le)
             Before(n, o) == Labelled(RecordedBefore(s, n), o)
             Since(n, o) == Labelled(RecordedSince(n), o)
             Fitting(n, k) == {r \in Request : Recording(request[r].outcome)[n][2] <= Bounds[k]}
  <2>1. ASSUME NEW o \in Outcomes
        PROVE  LET v == Shown(text, FinalName(prom, Total("server")), labels(o, <<>>)) IN
               Cardinality({r \in Before(1, o) : TRUE}) <= v /\ v <= Cardinality({r \in Since(1, o) : TRUE})
    <3>1. Shown(text, FinalName(prom, Total("server")), labels(o, <<>>)) = Cardinality(SeenRequests(s, 1, o))
      <4>1. 1 \in 1..4 /\ Server[At[1]] = Total("server")
        BY RecordingFacts
      <4> QED BY <1>1, <4>1, ShownCounts
    <3>2. LET T == Request IN
          /\ Cardinality(Before(1, o) \cap T) <= Cardinality(SeenRequests(s, 1, o) \cap T)
          /\ Cardinality(SeenRequests(s, 1, o) \cap T) <= Cardinality(Since(1, o) \cap T)
      <4>1. 1 \in 1..4
        OBVIOUS
      <4> QED BY <1>1, <4>1, CountedBetween
    <3>3. /\ Before(1, o) \cap Request = {r \in Before(1, o) : TRUE}
          /\ Since(1, o) \cap Request = {r \in Since(1, o) : TRUE}
          /\ SeenRequests(s, 1, o) \cap Request = SeenRequests(s, 1, o)
      BY DEF Labelled, RecordedBefore, RecordedSince, SeenRequests
    <3> QED BY <3>1, <3>2, <3>3
  <2>2. ASSUME NEW o \in Outcomes, NEW n \in 2..4
        PROVE  LET v == Shown(text, Suffixed(FinalName(prom, Recording(o)[n][1]), "count"), labels(o, <<>>)) IN
               Cardinality({r \in Before(n, o) : TRUE}) <= v /\ v <= Cardinality({r \in Since(n, o) : TRUE})
    <3>1. n \in 1..4 /\ n # 1
      OBVIOUS
    <3>2. Shown(text, Suffixed(FinalName(prom, Recording(o)[n][1]), "count"), labels(o, <<>>))
            = Cardinality(SeenRequests(s, n, o))
      <4>1. Recording(o)[n][1] = Server[At[n]]
        BY <3>1, RecordingFacts
      <4> QED BY <1>1, <3>1, <4>1, ShownCounts
    <3>3. LET T == Request IN
          /\ Cardinality(Before(n, o) \cap T) <= Cardinality(SeenRequests(s, n, o) \cap T)
          /\ Cardinality(SeenRequests(s, n, o) \cap T) <= Cardinality(Since(n, o) \cap T)
      BY <1>1, <3>1, CountedBetween
    <3>4. /\ Before(n, o) \cap Request = {r \in Before(n, o) : TRUE}
          /\ Since(n, o) \cap Request = {r \in Since(n, o) : TRUE}
          /\ SeenRequests(s, n, o) \cap Request = SeenRequests(s, n, o)
      BY DEF Labelled, RecordedBefore, RecordedSince, SeenRequests
    <3> QED BY <3>2, <3>3, <3>4
  <2>3. ASSUME NEW o \in Outcomes, NEW n \in 2..4, NEW k \in DOMAIN Bounds
        PROVE  LET v == Shown(text, Suffixed(FinalName(prom, Recording(o)[n][1]), "bucket"),
                              labels(o, LeOf(BoundText(k))))
               IN  /\ Cardinality({r \in Before(n, o) : Recording(request[r].outcome)[n][2] <= Bounds[k]}) <= v
                   /\ v <= Cardinality({r \in Since(n, o) : Recording(request[r].outcome)[n][2] <= Bounds[k]})
    <3>1. n \in 1..4 /\ n # 1
      OBVIOUS
    <3>2. Shown(text, Suffixed(FinalName(prom, Recording(o)[n][1]), "bucket"), labels(o, LeOf(BoundText(k))))
            = Cardinality(BelowRequests(SeenRequests(s, n, o), n, k))
      <4>1. Recording(o)[n][1] = Server[At[n]]
        BY <3>1, RecordingFacts
      <4>2. Shown(text, Suffixed(FinalName(prom, Server[At[n]]), "bucket"),
                  Written(prom, AllLabels(o), LeOf(BoundText(k))))
              = Cardinality(BelowRequests(SeenRequests(s, n, o), n, k))
        BY <1>1, <3>1, ShownCounts
      <4> HIDE DEF text
      <4> QED BY <4>1, <4>2
    <3>3. LET T == Fitting(n, k) IN
          /\ Cardinality(Before(n, o) \cap T) <= Cardinality(SeenRequests(s, n, o) \cap T)
          /\ Cardinality(SeenRequests(s, n, o) \cap T) <= Cardinality(Since(n, o) \cap T)
      BY <1>1, <3>1, CountedBetween
    <3>4. /\ Before(n, o) \cap Fitting(n, k)
               = {r \in Before(n, o) : Recording(request[r].outcome)[n][2] <= Bounds[k]}
          /\ Since(n, o) \cap Fitting(n, k)
               = {r \in Since(n, o) : Recording(request[r].outcome)[n][2] <= Bounds[k]}
          /\ SeenRequests(s, n, o) \cap Fitting(n, k) = BelowRequests(SeenRequests(s, n, o), n, k)
      BY DEF Labelled, RecordedBefore, RecordedSince, SeenRequests, BelowRequests
    <3> QED BY <3>2, <3>3, <3>4
  <2> QED BY <2>1, <2>2, <2>3 DEF Tells, Suffixed, LeOf, le_key
<1>2. MetricsInv => ScrapesTell
  BY <1>1 DEF ScrapesTell
<1> QED BY <1>2, MetricsInvariant, PTL
=============================================================================
