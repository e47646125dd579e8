-------------------------- MODULE LogPipelineProofs --------------------------
(***************************************************************************)
(* Theorems about LogPipeline, for every size of the channel, the queue    *)
(* and the batches, any number of records and any set of settings.         *)
(***************************************************************************)
EXTENDS LogPipeline, TLAPS

(* The records the sender has taken out of the queue.                      *)
Got == Len(sent) + Len(buffered)

(* A queue q with the records after g up to a, in order, and none left out. *)
Holds(q, g, a) ==
  /\ \A i \in 1..Len(q) : q[i] # Flush => g < q[i] /\ q[i] <= a
  /\ \A i, j \in 1..Len(q) :
       i < j /\ q[i] # Flush /\ q[j] # Flush => q[i] < q[j]
  /\ \A p \in Nat : g < p /\ p <= a => \E i \in 1..Len(q) : q[i] = p

(* What the buffer and the queue hold for the HTTP appender: the records   *)
(* accepted and not sent.                                                  *)
BufferInv == \A i \in 1..Len(buffered) : buffered[i] = Len(sent) + i
QueueInv  == Holds(queue, Got, accepted)

(* What a queue q and what was sent, t, hold for Kafka: of the records up  *)
(* to a each is in one of them, in whatever order.                         *)
Split(q, t, a) ==
  /\ Len(q) + Len(t) = a
  /\ \A i \in 1..Len(q) : 1 <= q[i] /\ q[i] <= a
  /\ \A i \in 1..Len(t) : t[i] <= a
  /\ \A i, j \in 1..Len(q) : i # j => q[i] # q[j]
  /\ \A i \in 1..Len(q), j \in 1..Len(t) : q[i] # t[j]

(* Where the worker and the sender are, and what they hold there.          *)
PlaceInv ==
  /\ (thread = "broker") <=> (cfg.dest = "kafka")
  /\ token => worker \in {"closing", "gone"}
  /\ thread \in {"start", "failed"} => sent = <<>>
  /\ thread \in {"start", "failed", "done", "broker"} => buffered = <<>>
  /\ thread \in Sending => buffered # <<>>
  /\ thread \in {"sending_chunk", "done"} => queue = <<>>
  /\ worker = "gone" => thread \in {"failed", "done", "broker"}
  /\ worker = "gone" => queue = <<>>
  /\ thread = "broker" /\ worker = "closing" => queue = <<>>

StreamInv ==
  /\ BufferInv
  /\ thread \notin {"failed", "broker"} => Got <= accepted /\ QueueInv
  /\ thread = "broker" => Split(queue, sent, accepted)

IInv == TypeOK /\ PlaceInv /\ StreamInv

USE LogAssumption DEF Flush, Sending

(* A record put behind the others.                                         *)
LEMMA AppendRecord ==
  ASSUME NEW q \in Seq(Nat), NEW g \in Nat, NEW a \in Nat,
         Holds(q, g, a), g <= a
  PROVE  Holds(Append(q, a + 1), g, a + 1)
<1> DEFINE r == Append(q, a + 1)
<1>1. /\ Len(r) = Len(q) + 1 /\ r[Len(q) + 1] = a + 1
      /\ \A i \in 1..Len(q) : r[i] = q[i]
  OBVIOUS
<1>2. \A i \in 1..Len(q) : q[i] \in Nat
  OBVIOUS
<1> HIDE DEF r
<1>3. Holds(r, g, a + 1)
  <2>1. \A i \in 1..Len(r) : i \in 1..Len(q) \/ i = Len(q) + 1
    BY <1>1
  <2>2. \A i \in 1..Len(r) : r[i] # Flush => g < r[i] /\ r[i] <= a + 1
    BY <1>1, <1>2, <2>1 DEF Holds
  <2>3. \A i, j \in 1..Len(r) : i < j /\ r[i] # Flush /\ r[j] # Flush => r[i] < r[j]
    <3> SUFFICES ASSUME NEW i \in 1..Len(r), NEW j \in 1..Len(r),
                        i < j, r[i] # Flush, r[j] # Flush
                 PROVE  r[i] < r[j]
      OBVIOUS
    <3>1. i \in 1..Len(q)
      BY <1>1
    <3>2. CASE j \in 1..Len(q)
      BY <1>1, <3>1, <3>2 DEF Holds
    <3>3. CASE j = Len(q) + 1
      <4>1. r[i] = q[i] /\ q[i] \in Nat /\ r[j] = a + 1
        BY <1>1, <1>2, <3>1, <3>3
      <4>2. q[i] <= a
        BY <3>1, <4>1 DEF Holds
      <4> QED BY <4>1, <4>2
    <3> QED BY <2>1, <3>2, <3>3
  <2>4. ASSUME NEW p \in Nat, g < p, p <= a + 1
        PROVE  \E i \in 1..Len(r) : r[i] = p
    <3>1. CASE p <= a
      <4>1. PICK i \in 1..Len(q) : q[i] = p
        BY <2>4, <3>1 DEF Holds
      <4>2. i \in 1..Len(r) /\ r[i] = p
        BY <1>1, <4>1
      <4> QED BY <4>2
    <3>2. CASE p = a + 1
      BY <1>1, <3>2
    <3> QED BY <2>4, <3>1, <3>2
  <2> QED BY <2>2, <2>3, <2>4 DEF Holds
<1> QED BY <1>3 DEF r

(* A flush put behind the records.                                         *)
LEMMA AppendFlush ==
  ASSUME NEW q \in Seq(Nat), NEW g \in Nat, NEW a \in Nat, Holds(q, g, a)
  PROVE  Holds(Append(q, Flush), g, a)
<1> DEFINE r == Append(q, Flush)
<1>1. /\ Len(r) = Len(q) + 1 /\ r[Len(q) + 1] = Flush
      /\ \A i \in 1..Len(q) : r[i] = q[i]
  OBVIOUS
<1> HIDE DEF r
<1>2. \A i \in 1..Len(r) : r[i] # Flush => i \in 1..Len(q)
  BY <1>1
<1>3. Holds(r, g, a)
  <2>1. \A p \in Nat : g < p /\ p <= a => \E i \in 1..Len(r) : r[i] = p
    <3> SUFFICES ASSUME NEW p \in Nat, g < p, p <= a
                 PROVE  \E i \in 1..Len(r) : r[i] = p
      OBVIOUS
    <3>1. PICK i \in 1..Len(q) : q[i] = p
      BY DEF Holds
    <3>2. i \in 1..Len(r) /\ r[i] = p
      BY <1>1, <3>1
    <3> QED BY <3>2
  <2> QED BY <1>1, <1>2, <2>1 DEF Holds
<1> QED BY <1>3 DEF r

(* What is left of a queue.                                                *)
LEMMA TailIs ==
  ASSUME NEW q \in Seq(Nat), q # <<>>
  PROVE  /\ Tail(q) \in Seq(Nat) /\ Len(Tail(q)) = Len(q) - 1 /\ Len(q) \in Nat \ {0}
         /\ \A i \in 1..Len(q) - 1 : Tail(q)[i] = q[i + 1]
         /\ Head(q) = q[1]
         /\ \A i \in 1..Len(q) : q[i] \in Nat
  OBVIOUS

(* A flush taken out.                                                      *)
LEMMA TakeFlush ==
  ASSUME NEW q \in Seq(Nat), NEW g \in Nat, NEW a \in Nat,
         Holds(q, g, a), q # <<>>, Head(q) = Flush
  PROVE  Holds(Tail(q), g, a)
<1> DEFINE r == Tail(q)
<1>1. /\ Len(r) = Len(q) - 1 /\ Len(q) \in Nat \ {0} /\ q[1] = Flush
      /\ \A i \in 1..Len(r) : r[i] = q[i + 1] /\ i + 1 \in 1..Len(q)
  BY TailIs
<1> HIDE DEF r
<1>2. \A p \in Nat : g < p /\ p <= a => \E i \in 1..Len(r) : r[i] = p
  <2> SUFFICES ASSUME NEW p \in Nat, g < p, p <= a
               PROVE  \E i \in 1..Len(r) : r[i] = p
    OBVIOUS
  <2>1. PICK i \in 1..Len(q) : q[i] = p
    BY DEF Holds
  <2>2. i - 1 \in 1..Len(r) /\ r[i - 1] = p
    BY <1>1, <2>1
  <2> QED BY <2>2
<1>3. \A i, j \in 1..Len(r) : i < j /\ r[i] # Flush /\ r[j] # Flush => r[i] < r[j]
  <2> SUFFICES ASSUME NEW i \in 1..Len(r), NEW j \in 1..Len(r),
                      i < j, r[i] # Flush, r[j] # Flush
               PROVE  r[i] < r[j]
    OBVIOUS
  <2>1. r[i] = q[i + 1] /\ r[j] = q[j + 1] /\ i + 1 < j + 1
    BY <1>1
  <2> QED BY <1>1, <2>1 DEF Holds
<1>4. \A i \in 1..Len(r) : r[i] # Flush => g < r[i] /\ r[i] <= a
  BY <1>1 DEF Holds
<1>5. Holds(r, g, a)
  BY <1>2, <1>3, <1>4 DEF Holds
<1> QED BY <1>5 DEF r

(* The first record of the queue is the next one.                          *)
LEMMA HeadIsNext ==
  ASSUME NEW q \in Seq(Nat), NEW g \in Nat, NEW a \in Nat,
         Holds(q, g, a), q # <<>>, Head(q) # Flush
  PROVE  Head(q) = g + 1 /\ g + 1 <= a
<1>1. q[1] \in Nat /\ Head(q) = q[1] /\ 1 \in 1..Len(q) /\ g < q[1] /\ q[1] <= a
  BY TailIs DEF Holds
<1>2. PICK i \in 1..Len(q) : q[i] = g + 1
  BY <1>1 DEF Holds
<1>3. ~(1 < i)
  <2> SUFFICES ASSUME 1 < i PROVE FALSE
    OBVIOUS
  <2>1. q[1] < q[i]
    BY <1>1, <1>2 DEF Holds
  <2> QED BY <1>1, <1>2, <2>1
<1> QED BY <1>1, <1>2, <1>3

(* A record taken out.                                                     *)
LEMMA TakeRecord ==
  ASSUME NEW q \in Seq(Nat), NEW g \in Nat, NEW a \in Nat,
         Holds(q, g, a), q # <<>>, Head(q) # Flush
  PROVE  Holds(Tail(q), g + 1, a)
<1> DEFINE r == Tail(q)
<1>1. /\ Len(r) = Len(q) - 1 /\ Len(q) \in Nat \ {0} /\ q[1] = g + 1
      /\ \A i \in 1..Len(r) : r[i] = q[i + 1] /\ i + 1 \in 1..Len(q)
      /\ \A i \in 1..Len(q) : q[i] \in Nat
  BY TailIs, HeadIsNext
<1> HIDE DEF r
<1>2. \A p \in Nat : g + 1 < p /\ p <= a => \E i \in 1..Len(r) : r[i] = p
  <2> SUFFICES ASSUME NEW p \in Nat, g + 1 < p, p <= a
               PROVE  \E i \in 1..Len(r) : r[i] = p
    OBVIOUS
  <2>1. PICK i \in 1..Len(q) : q[i] = p
    BY DEF Holds
  <2>2. i - 1 \in 1..Len(r) /\ r[i - 1] = p
    BY <1>1, <2>1
  <2> QED BY <2>2
<1>3. \A i, j \in 1..Len(r) : i < j /\ r[i] # Flush /\ r[j] # Flush => r[i] < r[j]
  <2> SUFFICES ASSUME NEW i \in 1..Len(r), NEW j \in 1..Len(r),
                      i < j, r[i] # Flush, r[j] # Flush
               PROVE  r[i] < r[j]
    OBVIOUS
  <2>1. r[i] = q[i + 1] /\ r[j] = q[j + 1] /\ i + 1 < j + 1
    BY <1>1
  <2> QED BY <1>1, <2>1 DEF Holds
<1>4. \A i \in 1..Len(r) : r[i] # Flush => g + 1 < r[i] /\ r[i] <= a
  <2> SUFFICES ASSUME NEW i \in 1..Len(r), r[i] # Flush
               PROVE  g + 1 < r[i] /\ r[i] <= a
    OBVIOUS
  <2>1. r[i] = q[i + 1] /\ 1 < i + 1 /\ i + 1 \in 1..Len(q) /\ 1 \in 1..Len(q)
    BY <1>1
  <2>2. q[1] # Flush
    BY <1>1
  <2>3. q[1] < q[i + 1]
    BY <2>1, <2>2 DEF Holds
  <2> QED BY <1>1, <2>1, <2>3 DEF Holds
<1>5. Holds(r, g + 1, a)
  BY <1>2, <1>3, <1>4 DEF Holds
<1> QED BY <1>5 DEF r

(* Kafka accepts a record.                                                 *)
LEMMA SplitGrows ==
  ASSUME NEW q \in Seq(Nat), NEW t \in Seq(Nat), NEW a \in Nat, Split(q, t, a)
  PROVE  Split(Append(q, a + 1), t, a + 1)
<1> DEFINE r == Append(q, a + 1)
<1>1. /\ Len(r) = Len(q) + 1 /\ r[Len(q) + 1] = a + 1
      /\ \A i \in 1..Len(q) : r[i] = q[i]
  OBVIOUS
<1>2. /\ Len(q) \in Nat /\ Len(t) \in Nat /\ Len(q) + Len(t) = a
      /\ \A i \in 1..Len(q) : q[i] \in Nat /\ 1 <= q[i] /\ q[i] <= a
      /\ \A i \in 1..Len(t) : t[i] \in Nat /\ t[i] <= a
  <2>1. /\ \A i \in 1..Len(q) : q[i] \in Nat
        /\ \A i \in 1..Len(t) : t[i] \in Nat
    OBVIOUS
  <2>2. Len(q) \in Nat /\ Len(t) \in Nat
    OBVIOUS
  <2> QED BY <2>1, <2>2 DEF Split
<1> HIDE DEF r
<1>3. ASSUME NEW i \in 1..Len(r)
      PROVE  \/ i \in 1..Len(q) /\ r[i] = q[i]
             \/ i = Len(q) + 1 /\ r[i] = a + 1
  <2>1. i \in 1..Len(q) \/ i = Len(q) + 1
    BY <1>1, <1>2
  <2> QED BY <1>1, <2>1
<1>4. \A i \in 1..Len(r) : 1 <= r[i] /\ r[i] <= a + 1
  <2> TAKE i \in 1..Len(r)
  <2>1. CASE i \in 1..Len(q) /\ r[i] = q[i]
    <3>1. q[i] \in Nat /\ 1 <= q[i] /\ q[i] <= a
      BY <1>2, <2>1
    <3> QED BY <2>1, <3>1
  <2>2. CASE r[i] = a + 1
    BY <2>2
  <2> QED BY <1>3, <2>1, <2>2
<1>5. \A i, j \in 1..Len(r) : i # j => r[i] # r[j]
  <2> SUFFICES ASSUME NEW i \in 1..Len(r), NEW j \in 1..Len(r), i # j, r[i] = r[j]
               PROVE  FALSE
    OBVIOUS
  <2>1. ~(r[i] = a + 1 /\ r[j] = a + 1 /\ i = Len(q) + 1 /\ j = Len(q) + 1)
    OBVIOUS
  <2>2. CASE i \in 1..Len(q) /\ r[i] = q[i]
    <3>1. q[i] \in Nat /\ q[i] <= a
      BY <1>2, <2>2
    <3>2. r[j] # a + 1
      BY <2>2, <3>1
    <3>3. j \in 1..Len(q) /\ r[j] = q[j]
      BY <1>3, <3>2
    <3> QED BY <2>2, <3>3 DEF Split
  <2>3. CASE i = Len(q) + 1 /\ r[i] = a + 1
    <3>1. j \in 1..Len(q) /\ r[j] = q[j]
      BY <1>3, <2>3
    <3>2. q[j] \in Nat /\ q[j] <= a
      BY <1>2, <3>1
    <3> QED BY <2>3, <3>1, <3>2
  <2> QED BY <1>3, <2>2, <2>3
<1>6. \A i \in 1..Len(r), j \in 1..Len(t) : r[i] # t[j]
  <2> TAKE i \in 1..Len(r), j \in 1..Len(t)
  <2>1. CASE i \in 1..Len(q) /\ r[i] = q[i]
    BY <2>1 DEF Split
  <2>2. CASE r[i] = a + 1
    <3>1. t[j] \in Nat /\ t[j] <= a
      BY <1>2
    <3> QED BY <2>2, <3>1
  <2> QED BY <1>3, <2>1, <2>2
<1>7. Len(r) + Len(t) = a + 1
  BY <1>1, <1>2
<1>8. \A i \in 1..Len(t) : t[i] <= a + 1
  <2> TAKE i \in 1..Len(t)
  <2>1. t[i] \in Nat /\ t[i] <= a
    BY <1>2
  <2> QED BY <2>1
<1>9. Split(r, t, a + 1)
  BY <1>4, <1>5, <1>6, <1>7, <1>8 DEF Split
<1> QED BY <1>9 DEF r

(* What is left of a queue without its k-th entry.                         *)
LEMMA WithoutIs ==
  ASSUME NEW q \in Seq(Nat), NEW k \in 1..Len(q)
  PROVE  /\ Without(q, k) \in Seq(Nat) /\ Len(Without(q, k)) = Len(q) - 1
         /\ \A i \in 1..Len(q) - 1 : Without(q, k)[i] = q[IF i < k THEN i ELSE i + 1]
<1>1. Len(q) \in Nat /\ k \in Nat /\ 1 <= k /\ k <= Len(q)
  OBVIOUS
<1>2. \A i \in 1..Len(q) - 1 : q[IF i < k THEN i ELSE i + 1] \in Nat
  BY <1>1
<1>3. Without(q, k) \in [1..Len(q) - 1 -> Nat]
  BY <1>2 DEF Without
<1>4. Len(q) - 1 \in Nat
  BY <1>1
<1>5. Without(q, k) \in Seq(Nat) /\ Len(Without(q, k)) = Len(q) - 1
  BY <1>3, <1>4
<1> QED BY <1>5 DEF Without

(* The k-th record of the queue is delivered.                              *)
LEMMA SplitMoves ==
  ASSUME NEW q \in Seq(Nat), NEW t \in Seq(Nat), NEW a \in Nat, Split(q, t, a),
         NEW k \in 1..Len(q), NEW r, NEW u,
         r = Without(q, k), u = Append(t, q[k])
  PROVE  /\ Split(r, u, a) /\ u \in Seq(Nat)
         /\ q[k] \in 1..a /\ \A i \in 1..Len(t) : t[i] # q[k]
<1> DEFINE at(i) == IF i < k THEN i ELSE i + 1
<1>1. /\ Len(q) \in Nat /\ Len(t) \in Nat /\ k \in Nat /\ q[k] \in Nat
      /\ Len(u) = Len(t) + 1 /\ u \in Seq(Nat) /\ u[Len(t) + 1] = q[k]
      /\ \A i \in 1..Len(t) : u[i] = t[i]
  OBVIOUS
<1>2. /\ r \in Seq(Nat) /\ Len(r) = Len(q) - 1
      /\ \A i \in 1..Len(r) : r[i] = q[at(i)]
  <2>1. /\ r \in Seq(Nat) /\ Len(r) = Len(q) - 1
        /\ \A i \in 1..Len(q) - 1 : r[i] = q[IF i < k THEN i ELSE i + 1]
    BY WithoutIs
  <2> QED BY <2>1
<1>3. /\ \A i \in 1..Len(r) : at(i) \in 1..Len(q) /\ at(i) # k
      /\ \A i, j \in 1..Len(r) : i # j => at(i) # at(j)
  <2>1. /\ \A i \in 1..Len(q) - 1 : at(i) \in 1..Len(q) /\ at(i) # k
        /\ \A i, j \in 1..Len(q) - 1 : i # j => at(i) # at(j)
    BY <1>1
  <2> QED BY <1>2, <2>1
<1>4. q[k] \in 1..a /\ \A i \in 1..Len(t) : t[i] # q[k]
  BY <1>1 DEF Split
<1> HIDE DEF at
<1>5. ASSUME NEW i \in 1..Len(u)
      PROVE  \/ i \in 1..Len(t) /\ u[i] = t[i]
             \/ i = Len(t) + 1 /\ u[i] = q[k]
  <2>1. i \in 1..Len(t) \/ i = Len(t) + 1
    BY <1>1
  <2> QED BY <1>1, <2>1
<1>6. Len(r) + Len(u) = a
  <2>1. Len(q) + Len(t) = a
    BY DEF Split
  <2>2. (Len(q) - 1) + (Len(t) + 1) = Len(q) + Len(t)
    BY <1>1
  <2> QED BY <1>1, <1>2, <2>1, <2>2
<1>7. \A i \in 1..Len(r) : 1 <= r[i] /\ r[i] <= a
  BY <1>2, <1>3 DEF Split
<1>8. \A i \in 1..Len(u) : u[i] <= a
  <2> TAKE i \in 1..Len(u)
  <2>1. CASE i \in 1..Len(t) /\ u[i] = t[i]
    BY <2>1 DEF Split
  <2>2. CASE u[i] = q[k]
    BY <1>4, <2>2
  <2> QED BY <1>5, <2>1, <2>2
<1>9. \A i, j \in 1..Len(r) : i # j => r[i] # r[j]
  <2> TAKE i, j \in 1..Len(r)
  <2> HAVE i # j
  <2>1. at(i) \in 1..Len(q) /\ at(j) \in 1..Len(q) /\ at(i) # at(j)
    BY <1>3
  <2>2. q[at(i)] # q[at(j)]
    BY <2>1 DEF Split
  <2>3. r[i] = q[at(i)] /\ r[j] = q[at(j)]
    BY <1>2
  <2> QED BY <2>2, <2>3
<1>10. \A i \in 1..Len(r), j \in 1..Len(u) : r[i] # u[j]
  <2> TAKE i \in 1..Len(r), j \in 1..Len(u)
  <2>1. r[i] = q[at(i)] /\ at(i) \in 1..Len(q) /\ at(i) # k
    BY <1>2, <1>3
  <2>2. CASE j \in 1..Len(t) /\ u[j] = t[j]
    BY <2>1, <2>2 DEF Split
  <2>3. CASE u[j] = q[k]
    BY <2>1, <2>3 DEF Split
  <2> QED BY <1>5, <2>2, <2>3
<1> QED BY <1>1, <1>4, <1>6, <1>7, <1>8, <1>9, <1>10 DEF Split

-----------------------------------------------------------------------------
(* Facts about the sequences of the pipeline.                              *)
LEMMA Lengths ==
  ASSUME TypeOK
  PROVE  /\ Len(queue) \in Nat /\ Len(sent) \in Nat /\ Len(buffered) \in Nat
         /\ Len(channel) \in Nat /\ Got \in Nat /\ accepted \in Nat
         /\ queue \in Seq(Nat) /\ sent \in Seq(Nat) /\ buffered \in Seq(Nat)
  BY DEF TypeOK, QueueOK, BufferOK, ChannelOK, PlacesOK, Got

(* A queue that grows by one.                                              *)
LEMMA Appended ==
  ASSUME NEW q \in Seq(Nat), NEW n \in Nat
  PROVE  Append(q, n) \in Seq(Nat) /\ Len(Append(q, n)) = Len(q) + 1
  OBVIOUS

LEMMA QueueGrows ==
  ASSUME TypeOK, Accepting, NEW n \in Nat, queue' = Append(queue, n)
  PROVE  QueueOK'
<1>1. Len(queue) < Queue /\ Len(queue) \in Nat /\ queue \in Seq(Nat)
  BY Lengths DEF Accepting
<1>2. queue' \in Seq(Nat) /\ Len(queue') = Len(queue) + 1
  BY <1>1, Appended
<1>3. Len(queue') <= Queue
  BY <1>1, <1>2
<1> QED BY <1>2, <1>3 DEF QueueOK

(* A step that leaves the queue and the buffer alone keeps what they hold. *)
LEMMA StreamKept ==
  ASSUME StreamInv, UNCHANGED <<accepted, queue, buffered, sent>>,
         \/ UNCHANGED thread
         \/ {thread, thread'} \cap {"failed", "broker"} = {}
  PROVE  StreamInv'
  BY DEF StreamInv, BufferInv, QueueInv, Holds, Got, Split

(* Nothing was logged yet.                                                 *)
LEMMA InitInv == Init => IInv
<1> SUFFICES ASSUME Init PROVE IInv
  OBVIOUS
<1>1. PlacesOK /\ ChannelOK /\ QueueOK
  <2>1. PlacesOK
    BY DEF Init, make_writer, PlacesOK
  <2>2. ChannelOK /\ QueueOK
    BY DEF Init, make_writer, ChannelOK, QueueOK
  <2> QED BY <2>1, <2>2
<1>2. BufferOK
  BY DEF Init, make_writer, BufferOK
<1>3. PlaceInv
  BY DEF Init, make_writer, PlaceInv, ConfigType
<1>4. StreamInv
  BY DEF Init, make_writer, StreamInv, BufferInv, QueueInv, Holds, Got, Split
<1> QED BY <1>1, <1>2, <1>3, <1>4 DEF IInv, TypeOK

(* The steps that touch neither the queue nor the buffer.                  *)
LEMMA QuietInv ==
  ASSUME IInv,
         \/ \E p \in Loggers : Log(p) \/ Unblock(p)
         \/ Guard \/ WorkerReadsShutdown \/ WorkerFindsNoMore \/ AppenderCancels
         \/ Cancelled \/ PeriodicFlush \/ UNCHANGED vars
  PROVE  IInv'
<1> USE DEF IInv, produced, sender, vars, Selecting
<1>1. PlacesOK'
  <2>1. CASE \E p \in Loggers : Log(p) \/ Unblock(p)
    BY <2>1 DEF TypeOK, PlacesOK, Log, Unblock
  <2>2. CASE Guard
    BY <2>2 DEF TypeOK, PlacesOK, Guard, DropGuard, GuardTells, GuardGivesUp
  <2>3. CASE WorkerReadsShutdown \/ WorkerFindsNoMore \/ AppenderCancels
    BY <2>3 DEF TypeOK, PlacesOK, WorkerReadsShutdown, WorkerFindsNoMore, AppenderCancels
  <2>4. CASE Cancelled \/ PeriodicFlush \/ UNCHANGED vars
    BY <2>4 DEF TypeOK, PlacesOK, Cancelled, PeriodicFlush
  <2> QED BY <2>1, <2>2, <2>3, <2>4
<1>2. ChannelOK'
  BY DEF TypeOK, ChannelOK, Log, Unblock, HasRoom, Guard, DropGuard, GuardTells,
         GuardGivesUp, WorkerReadsShutdown, WorkerFindsNoMore, AppenderCancels,
         Cancelled, PeriodicFlush
<1>3. /\ UNCHANGED <<accepted, queue, buffered, sent>>
      /\ UNCHANGED thread \/ {thread, thread'} \cap {"failed", "broker"} = {}
      /\ \/ UNCHANGED <<cfg, thread>>
         \/ UNCHANGED <<cfg, token, worker>> /\ (Cancelled \/ PeriodicFlush)
  BY DEF Log, Unblock, Guard, DropGuard, GuardTells, GuardGivesUp,
         WorkerReadsShutdown, WorkerFindsNoMore, AppenderCancels, Cancelled, PeriodicFlush
<1>4. QueueOK' /\ BufferOK'
  BY <1>3 DEF TypeOK, QueueOK, BufferOK, Cancelled, PeriodicFlush
<1>5. StreamInv'
  BY <1>3, StreamKept
<1>6. PlaceInv'
  <2>1. CASE Cancelled \/ PeriodicFlush
    BY <1>3, <2>1 DEF PlaceInv, Cancelled, PeriodicFlush
  <2>2. CASE UNCHANGED <<cfg, thread>>
    <3>1. \/ UNCHANGED worker /\ UNCHANGED token
          \/ WorkerReadsShutdown \/ WorkerFindsNoMore \/ AppenderCancels
      BY DEF Log, Unblock, Guard, DropGuard, GuardTells, GuardGivesUp, Cancelled, PeriodicFlush
    <3>2. CASE UNCHANGED worker /\ UNCHANGED token
      BY <1>3, <2>2, <3>2 DEF PlaceInv
    <3>3. CASE WorkerReadsShutdown \/ WorkerFindsNoMore
      BY <1>3, <2>2, <3>3 DEF PlaceInv, WorkerReadsShutdown, WorkerFindsNoMore
    <3>4. CASE AppenderCancels
      BY <1>3, <2>2, <3>4 DEF PlaceInv, AppenderCancels
    <3> QED BY <3>1, <3>2, <3>3, <3>4
  <2> QED BY <1>3, <2>1, <2>2
<1> QED BY <1>1, <1>2, <1>4, <1>5, <1>6 DEF TypeOK

(* The steps in which the worker uses the appender.                        *)
LEMMA WorkerInv ==
  ASSUME IInv, WorkerWrites \/ WorkerFlushes \/ WorkerEnds
  PROVE  IInv'
<1> USE DEF IInv
<1>0. UNCHANGED <<cfg, thread, buffered, sent, token>> /\ Got' = Got
  BY DEF WorkerWrites, WorkerFlushes, WorkerEnds, Got, sender
<1>1. CASE WorkerWrites
  <2>1. PICK ok \in BOOLEAN : write(ok) /\ worker' = IF ok THEN "more" ELSE "recv"
    BY <1>1 DEF WorkerWrites
  <2>2. \/ UNCHANGED <<accepted, queue>>
        \/ Accepting /\ accepted' = accepted + 1 /\ queue' = Append(queue, accepted + 1)
    BY <2>1 DEF write, MayRefuse
  <2>3. token = FALSE /\ worker \notin {"closing", "gone"} /\ thread # "done"
    BY <1>1 DEF TypeOK, PlacesOK, PlaceInv, WorkerWrites
  <2>4. PlacesOK'
    BY <1>1, <2>1, <2>2 DEF TypeOK, PlacesOK, WorkerWrites, sender
  <2>5. ChannelOK'
    BY <1>1 DEF TypeOK, ChannelOK, WorkerWrites
  <2>6. QueueOK'
    <3>1. CASE queue' = queue
      BY <3>1 DEF TypeOK, QueueOK
    <3>2. CASE Accepting /\ queue' = Append(queue, accepted + 1)
      BY <3>2, QueueGrows, Lengths
    <3> QED BY <2>2, <3>1, <3>2
  <2>7. BufferOK'
    BY <1>0 DEF TypeOK, BufferOK
  <2>8. PlaceInv'
    <3>1. thread \notin {"sending_chunk", "done"}
      BY <2>3 DEF TypeOK, PlacesOK
    <3> QED BY <1>0, <2>1, <2>3, <3>1 DEF PlaceInv
  <2>9. StreamInv'
    <3>1. CASE UNCHANGED <<accepted, queue>>
      BY <1>0, <3>1, StreamKept
    <3>2. CASE /\ thread = "broker"
               /\ accepted' = accepted + 1 /\ queue' = Append(queue, accepted + 1)
      <4>1. Split(queue', sent', accepted')
        BY <1>0, <3>2, SplitGrows, Lengths DEF StreamInv
      <4> QED BY <1>0, <3>2, <4>1 DEF StreamInv, BufferInv
    <3>3. CASE /\ Accepting /\ thread # "broker"
               /\ accepted' = accepted + 1 /\ queue' = Append(queue, accepted + 1)
      <4>1. QueueInv /\ Got <= accepted
        BY <3>3 DEF StreamInv, Accepting
      <4>2. QueueInv'
        <5>1. Holds(queue', Got', accepted')
          BY <1>0, <3>3, <4>1, AppendRecord, Lengths DEF QueueInv
        <5> QED BY <5>1 DEF QueueInv, Holds
      <4>3. Got' <= accepted'
        BY <1>0, <3>3, <4>1, Lengths
      <4>4. BufferInv'
        BY <1>0 DEF StreamInv, BufferInv
      <4> QED BY <1>0, <3>3, <4>2, <4>3, <4>4 DEF StreamInv
    <3> QED BY <2>2, <3>1, <3>2, <3>3
  <2> QED BY <2>4, <2>5, <2>6, <2>7, <2>8, <2>9 DEF TypeOK
<1>2. CASE WorkerFlushes
  <2>1. PICK ok \in BOOLEAN :
          flush(ok) /\ worker' = IF ok /\ worker = "last" THEN "closing" ELSE "recv"
    BY <1>2 DEF WorkerFlushes
  <2>2. /\ accepted' = accepted
        /\ \/ queue' = queue
           \/ cfg.dest = "http" /\ Accepting /\ queue' = Append(queue, Flush)
    BY <2>1 DEF flush, KafkaFlush
  <2>3. token = FALSE /\ worker \notin {"closing", "gone"} /\ thread # "done"
    BY <1>2 DEF TypeOK, PlacesOK, PlaceInv, WorkerFlushes
  <2>4. PlacesOK'
    BY <1>2, <2>1, <2>2 DEF TypeOK, PlacesOK, WorkerFlushes, sender, produced
  <2>5. ChannelOK'
    BY <1>2 DEF TypeOK, ChannelOK, WorkerFlushes, produced
  <2>6. QueueOK'
    <3>1. CASE queue' = queue
      BY <3>1 DEF TypeOK, QueueOK
    <3>2. CASE Accepting /\ queue' = Append(queue, Flush)
      BY <3>2, QueueGrows, Lengths
    <3> QED BY <2>2, <3>1, <3>2
  <2>7. BufferOK'
    BY <1>0 DEF TypeOK, BufferOK
  <2>8. PlaceInv'
    <3>1. thread = "broker" => queue' = queue
      BY <2>2 DEF PlaceInv
    <3>2. thread = "broker" /\ worker' = "closing" => queue = <<>>
      BY <2>1 DEF PlaceInv, flush, KafkaFlush
    <3>3. thread \notin {"sending_chunk", "done"} /\ worker' # "gone"
      BY <2>1, <2>3 DEF TypeOK, PlacesOK
    <3> QED BY <1>0, <2>3, <3>1, <3>2, <3>3 DEF PlaceInv
  <2>9. StreamInv'
    <3>1. CASE queue' = queue
      BY <1>0, <2>2, <3>1, StreamKept
    <3>2. CASE cfg.dest = "http" /\ Accepting /\ queue' = Append(queue, Flush)
      <4>1. QueueInv /\ Got <= accepted /\ thread # "broker"
        BY <3>2 DEF StreamInv, Accepting, PlaceInv
      <4>2. QueueInv'
        <5>1. Holds(queue', Got', accepted')
          BY <1>0, <2>2, <3>2, <4>1, AppendFlush, Lengths DEF QueueInv
        <5> QED BY <5>1 DEF QueueInv, Holds
      <4>3. Got' <= accepted'
        BY <1>0, <2>2, <4>1, Lengths
      <4>4. BufferInv'
        BY <1>0 DEF StreamInv, BufferInv
      <4> QED BY <1>0, <4>1, <4>2, <4>3, <4>4 DEF StreamInv
    <3> QED BY <2>2, <3>1, <3>2
  <2> QED BY <2>4, <2>5, <2>6, <2>7, <2>8, <2>9 DEF TypeOK
<1>3. CASE WorkerEnds
  <2>1. accepted' = accepted /\ queue' = <<>> /\ channel' = <<>> /\ worker' = "gone"
    BY <1>3 DEF WorkerEnds
  <2>2. thread \in {"failed", "done", "broker"}
    BY <1>3 DEF WorkerEnds, PlaceInv, TypeOK, PlacesOK, ConfigType
  <2>3. thread = "failed" \/ queue = <<>>
    BY <1>3, <2>2 DEF WorkerEnds, PlaceInv
  <2>4. PlacesOK'
    BY <1>3 DEF TypeOK, PlacesOK, WorkerEnds, sender
  <2>5. ChannelOK' /\ QueueOK'
    BY <2>1 DEF ChannelOK, QueueOK
  <2>6. BufferOK'
    BY <1>0 DEF TypeOK, BufferOK
  <2>7. PlaceInv'
    BY <1>0, <2>1, <2>2 DEF PlaceInv
  <2>8. StreamInv'
    BY <1>0, <2>1, <2>3 DEF StreamInv, BufferInv, QueueInv, Split
  <2> QED BY <2>4, <2>5, <2>6, <2>7, <2>8 DEF TypeOK
<1> QED BY <1>1, <1>2, <1>3

(* A queue that shrinks by one.                                            *)
LEMMA QueueShrinks ==
  ASSUME TypeOK, queue # <<>>, queue' = Tail(queue)
  PROVE  QueueOK' /\ Head(queue) \in Nat
<1>1. Len(queue) <= Queue /\ Len(queue) \in Nat /\ queue \in Seq(Nat)
  BY Lengths DEF TypeOK, QueueOK
<1>2. queue' \in Seq(Nat) /\ Len(queue') = Len(queue) - 1 /\ Head(queue) \in Nat
  BY <1>1, TailIs
<1> QED BY <1>1, <1>2 DEF QueueOK

(* A record moved from the queue to the buffer.                            *)
LEMMA Moved ==
  ASSUME IInv, {thread, thread'} \cap {"failed", "broker"} = {},
         queue # <<>>, Head(queue) # Flush, queue' = Tail(queue),
         buffered' = Append(buffered, Head(queue)), UNCHANGED <<accepted, sent>>
  PROVE  StreamInv' /\ buffered' \in Seq(Nat) /\ Len(buffered') = Len(buffered) + 1
<1>1. /\ Len(sent) \in Nat /\ Len(buffered) \in Nat /\ Got \in Nat /\ accepted \in Nat
      /\ queue \in Seq(Nat) /\ buffered \in Seq(Nat) /\ Head(queue) \in Nat
  BY Lengths, QueueShrinks DEF IInv
<1>2. Holds(queue, Got, accepted) /\ BufferInv
  BY DEF IInv, StreamInv, QueueInv
<1>3. Head(queue) = Got + 1 /\ Got + 1 <= accepted
  BY <1>1, <1>2, HeadIsNext
<1>4. Holds(queue', Got + 1, accepted)
  BY <1>1, <1>2, TakeRecord
<1>5. /\ Len(buffered') = Len(buffered) + 1 /\ buffered' \in Seq(Nat)
      /\ \A i \in 1..Len(buffered) : buffered'[i] = buffered[i]
      /\ buffered'[Len(buffered) + 1] = Got + 1
  BY <1>1, <1>3
<1>6. Got' = Got + 1
  BY <1>1, <1>5 DEF Got
<1>7. BufferInv'
  <2>1. \A i \in 1..Len(buffered') : i \in 1..Len(buffered) \/ i = Len(buffered) + 1
    BY <1>1, <1>5
  <2>2. \A i \in 1..Len(buffered) : buffered'[i] = Len(sent) + i
    BY <1>2, <1>5 DEF BufferInv
  <2>3. buffered'[Len(buffered) + 1] = Len(sent) + (Len(buffered) + 1)
    BY <1>1, <1>5 DEF Got
  <2> QED BY <2>1, <2>2, <2>3 DEF BufferInv
<1>8. Holds(queue', Got', accepted')
  BY <1>4, <1>6
<1>9. QueueInv'
  BY <1>8 DEF QueueInv, Holds
<1>10. Got' <= accepted'
  BY <1>3, <1>6
<1> QED BY <1>5, <1>7, <1>9, <1>10 DEF StreamInv

(* A flush that is passed over.                                            *)
LEMMA PassedOver ==
  ASSUME IInv, {thread, thread'} \cap {"failed", "broker"} = {},
         queue # <<>>, Head(queue) = Flush,
         queue' = Tail(queue), UNCHANGED <<accepted, buffered, sent>>
  PROVE  StreamInv'
<1>1. queue \in Seq(Nat) /\ Got \in Nat /\ accepted \in Nat
  BY Lengths DEF IInv
<1>2. Holds(queue', Got, accepted)
  BY <1>1, TakeFlush DEF IInv, StreamInv, QueueInv
<1>3. Got' = Got
  BY DEF Got
<1>4. QueueInv'
  BY <1>2, <1>3 DEF QueueInv, Holds
<1> QED BY <1>3, <1>4 DEF IInv, StreamInv, BufferInv

(* The first n records of the buffer are numbered from the last one sent.  *)
LEMMA Sent ==
  ASSUME TypeOK, BufferInv, NEW n \in 1..Len(buffered),
         sent' = sent \o SubSeq(buffered, 1, n),
         buffered' = SubSeq(buffered, n + 1, Len(buffered))
  PROVE  /\ sent' = sent \o [i \in 1..n |-> Len(sent) + i]
         /\ sent' \in Seq(Nat) /\ buffered' \in Seq(Nat)
         /\ Len(sent') = Len(sent) + n /\ Len(buffered') = Len(buffered) - n
         /\ Got' = Got /\ BufferInv'
<1>1. Len(sent) \in Nat /\ Len(buffered) \in Nat /\ sent \in Seq(Nat) /\ buffered \in Seq(Nat)
  BY Lengths
<1> DEFINE c == SubSeq(buffered, 1, n)
<1>2. c \in Seq(Nat) /\ Len(c) = n /\ \A i \in 1..n : c[i] = buffered[i]
  BY <1>1
<1>3. c = [i \in 1..n |-> Len(sent) + i]
  <2>1. DOMAIN c = 1..n /\ c = [i \in DOMAIN c |-> c[i]]
    BY <1>1
  <2>2. \A i \in 1..n : c[i] = Len(sent) + i
    BY <1>1, <1>2 DEF BufferInv
  <2> HIDE DEF c
  <2> QED BY <2>1, <2>2
<1>4. /\ buffered' \in Seq(Nat) /\ Len(buffered') = Len(buffered) - n
      /\ \A i \in 1..Len(buffered) - n : buffered'[i] = buffered[i + n]
  BY <1>1
<1> HIDE DEF c
<1>5. sent' = sent \o c
  BY DEF c
<1>6. sent' \in Seq(Nat) /\ Len(sent') = Len(sent) + n
  BY <1>1, <1>2, <1>5
<1>7. Got' = Got
  <2>1. n \in Nat
    OBVIOUS
  <2>2. Got' = (Len(sent) + n) + (Len(buffered) - n)
    BY <1>4, <1>6 DEF Got
  <2>3. (Len(sent) + n) + (Len(buffered) - n) = Len(sent) + Len(buffered)
    BY <1>1, <2>1
  <2>4. Got = Len(sent) + Len(buffered)
    BY DEF Got
  <2> QED BY <2>2, <2>3, <2>4
<1>8. BufferInv'
  BY <1>1, <1>4, <1>6 DEF BufferInv
<1> QED BY <1>3, <1>4, <1>5, <1>6, <1>7, <1>8

(* Starting, waiting and ending: the sender takes nothing out of the queue. *)
LEMMA StartInv ==
  ASSUME IInv, http_logger_thread \/ NextChunk
  PROVE  IInv'
<1> USE DEF IInv
<1>1. CASE http_logger_thread
  <2>1. PlacesOK' /\ ChannelOK' /\ BufferOK'
    <3>1. PlacesOK'
      BY <1>1 DEF TypeOK, PlacesOK, http_logger_thread, produced
    <3>2. ChannelOK'
      BY <1>1 DEF TypeOK, ChannelOK, http_logger_thread, produced
    <3>3. buffered = <<>> /\ UNCHANGED <<buffered, sent>> /\ thread' \in {"select", "failed"}
      BY <1>1 DEF PlaceInv, http_logger_thread
    <3>4. BufferOK'
      BY <3>3 DEF TypeOK, BufferOK
    <3> QED BY <3>1, <3>2, <3>4
  <2>2. QueueOK'
    <3>1. QueueOK /\ queue' \in {queue, <<>>}
      BY <1>1 DEF TypeOK, http_logger_thread
    <3>2. CASE queue' = queue
      BY <3>1, <3>2 DEF QueueOK
    <3>3. CASE queue' = <<>>
      BY <3>3 DEF QueueOK
    <3> QED BY <3>1, <3>2, <3>3
  <2>3. PlaceInv'
    BY <1>1 DEF PlaceInv, http_logger_thread
  <2>4. StreamInv'
    <3>1. CASE thread' = "select" /\ UNCHANGED queue
      <4>1. UNCHANGED <<accepted, queue, buffered, sent>> /\ thread = "start"
        BY <1>1, <3>1 DEF http_logger_thread
      <4> QED BY <3>1, <4>1, StreamKept
    <3>2. CASE thread' = "failed"
      BY <1>1, <3>2 DEF StreamInv, BufferInv, http_logger_thread
    <3> QED BY <1>1, <3>1, <3>2 DEF http_logger_thread
  <2> QED BY <2>1, <2>2, <2>3, <2>4 DEF TypeOK
<1>2. CASE NextChunk
  <2>1. /\ UNCHANGED <<cfg, channel, worker, token, accepted, queue, buffered, sent>>
        /\ thread = "slurp" /\ queue = <<>>
        /\ thread' = IF buffered = <<>> THEN "done" ELSE "sending_chunk"
    BY <1>2 DEF NextChunk, produced
  <2>2. PlacesOK'
    BY <1>2 DEF TypeOK, PlacesOK, NextChunk, produced
  <2>3. ChannelOK' /\ QueueOK' /\ BufferOK'
    BY <2>1 DEF TypeOK, ChannelOK, QueueOK, BufferOK
  <2>4. PlaceInv'
    BY <2>1 DEF PlaceInv
  <2>5. StreamInv'
    BY <2>1, StreamKept
  <2> QED BY <2>2, <2>3, <2>4, <2>5 DEF TypeOK
<1> QED BY <1>1, <1>2

(* The sender takes a flush or a record out of the queue.                  *)
LEMMA ReceiveInv ==
  ASSUME IInv, ReceivesFlush \/ ReceivesMessage \/ Slurp
  PROVE  IInv'
<1> USE DEF IInv
<1> USE DEF Selecting
<1>1. /\ UNCHANGED <<cfg, channel, worker, token, accepted, sent>>
      /\ thread \in {"select", "slurp"} /\ queue # <<>> /\ queue' = Tail(queue)
      /\ thread' \in {"select", "slurp", "sending"} /\ (thread' = "slurp" => thread = "slurp")
  BY DEF ReceivesFlush, ReceivesMessage, Slurp, produced
<1>2. QueueOK'
  BY <1>1, QueueShrinks
<1>3. PlacesOK'
  BY <1>1 DEF TypeOK, PlacesOK, ReceivesFlush, ReceivesMessage, Slurp, produced
<1>4. ChannelOK'
  BY <1>1 DEF TypeOK, ChannelOK
<1>5. \/ Head(queue) = Flush /\ UNCHANGED buffered
      \/ Head(queue) # Flush /\ buffered' = Append(buffered, Head(queue))
  BY DEF ReceivesFlush, ReceivesMessage, Slurp
<1>6. StreamInv'
  BY <1>1, <1>5, Moved, PassedOver
<1>7. BufferOK' /\ (thread' = "sending" => buffered' # <<>>)
  <2>1. Len(buffered) \in Nat /\ buffered \in Seq(Nat)
    BY Lengths
  <2>2. CASE Head(queue) = Flush /\ UNCHANGED buffered
    <3>1. \/ thread' = thread
          \/ thread = "select" /\ thread' = "sending" /\ buffered # <<>>
      BY <2>2 DEF ReceivesFlush, ReceivesMessage, Slurp
    <3> QED BY <1>1, <2>1, <2>2, <3>1 DEF TypeOK, BufferOK
  <2>3. CASE Head(queue) # Flush /\ buffered' = Append(buffered, Head(queue))
    <3>1. buffered' \in Seq(Nat) /\ Len(buffered') = Len(buffered) + 1
      BY <1>1, <2>3, Moved
    <3>2. buffered' # <<>>
      BY <2>1, <3>1
    <3>3. CASE Slurp
      BY <1>1, <3>1, <3>2, <3>3 DEF TypeOK, BufferOK, Slurp
    <3>4. CASE ReceivesMessage
      <4>1. Len(buffered) < MaxBatch
        BY <3>4 DEF TypeOK, BufferOK, ReceivesMessage
      <4>2. thread' = IF Len(buffered') >= MaxBatch THEN "sending" ELSE "select"
        BY <3>4 DEF ReceivesMessage
      <4>3. thread' = "select" => Len(buffered') < MaxBatch
        BY <2>1, <3>1, <4>2
      <4>4. Len(buffered') <= MaxBatch
        BY <2>1, <3>1, <4>1
      <4> QED BY <1>1, <3>1, <3>2, <4>3, <4>4 DEF TypeOK, BufferOK
    <3> QED BY <2>3, <3>3, <3>4 DEF ReceivesFlush
  <2> QED BY <1>5, <2>2, <2>3
<1>8. PlaceInv'
  BY <1>1, <1>7 DEF PlaceInv
<1> QED BY <1>2, <1>3, <1>4, <1>6, <1>7, <1>8 DEF TypeOK

(* A request that ended carried the first records of the buffer.           *)
LEMMA RequestCarries ==
  ASSUME IInv, SendEnds \/ ChunkEnds
  PROVE  \E n \in 1..MaxBatch :
           /\ n \in 1..Len(buffered)
           /\ sent' = sent \o SubSeq(buffered, 1, n)
           /\ buffered' = SubSeq(buffered, n + 1, Len(buffered))
<1>1. /\ Len(buffered) \in Nat /\ buffered \in Seq(Nat) /\ buffered # <<>>
      /\ MaxBatch \in Nat /\ MaxBatch # 0
  BY Lengths DEF IInv, PlaceInv, SendEnds, ChunkEnds
<1>2. Len(buffered) # 0
  BY <1>1
<1>3. CASE SendEnds
  <2>1. Len(buffered) \in 1..MaxBatch /\ Len(buffered) \in 1..Len(buffered)
    BY <1>1, <1>2, <1>3 DEF IInv, TypeOK, BufferOK, SendEnds
  <2>2. sent' = sent \o buffered /\ buffered' = <<>>
    BY <1>3 DEF SendEnds
  <2>3. /\ buffered = SubSeq(buffered, 1, Len(buffered))
        /\ <<>> = SubSeq(buffered, Len(buffered) + 1, Len(buffered))
    BY <1>1
  <2> QED BY <2>1, <2>2, <2>3
<1>4. CASE ChunkEnds
  <2> DEFINE n == IF Len(buffered) < MaxBatch THEN Len(buffered) ELSE MaxBatch
  <2>1. n \in 1..MaxBatch /\ n \in 1..Len(buffered)
    BY <1>1, <1>2
  <2>2. Chunk = SubSeq(buffered, 1, n)
    BY DEF Chunk
  <2> HIDE DEF n
  <2>3. Len(Chunk) = n
    BY <1>1, <2>1, <2>2
  <2>4. /\ sent' = sent \o SubSeq(buffered, 1, n)
        /\ buffered' = SubSeq(buffered, n + 1, Len(buffered))
    BY <1>4, <2>2, <2>3 DEF ChunkEnds
  <2> QED BY <2>1, <2>4
<1> QED BY <1>3, <1>4

(* The broker takes a record that was not sent.                            *)
LEMMA BrokerCarries ==
  ASSUME IInv, BrokerTakes
  PROVE  /\ thread = "broker" /\ UNCHANGED <<accepted, thread, buffered>>
         /\ \E r \in 1..accepted : /\ \A i \in 1..Len(sent) : sent[i] # r
                                   /\ sent' = Append(sent, r)
         /\ sent' \in Seq(Nat) /\ QueueOK' /\ StreamInv' /\ queue # <<>>
<1> USE DEF IInv
<1>1. PICK k \in 1..Len(queue) :
        /\ sent' = Append(sent, queue[k])
        /\ queue' = Without(queue, k)
  BY DEF BrokerTakes
<1>2. /\ queue \in Seq(Nat) /\ sent \in Seq(Nat) /\ accepted \in Nat
      /\ Len(queue) \in Nat /\ Len(queue) <= Queue
  BY Lengths DEF TypeOK, QueueOK
<1>3. /\ thread = "broker" /\ buffered = <<>>
      /\ UNCHANGED <<accepted, thread, buffered>>
  BY DEF BrokerTakes, PlaceInv
<1>4. Split(queue, sent, accepted)
  BY <1>3 DEF StreamInv
<1>5. /\ Split(queue', sent', accepted) /\ sent' \in Seq(Nat)
      /\ queue[k] \in 1..accepted /\ \A i \in 1..Len(sent) : sent[i] # queue[k]
  <2>1. Len(queue) \in Nat /\ k \in 1..Len(queue)
    BY <1>2
  <2> QED BY <1>1, <1>2, <1>4, <2>1, SplitMoves
<1>6. QueueOK'
  <2>1. queue' \in Seq(Nat) /\ Len(queue') = Len(queue) - 1
    BY <1>1, <1>2, WithoutIs
  <2> QED BY <1>2, <2>1 DEF QueueOK
<1>7. StreamInv'
  BY <1>3, <1>5 DEF StreamInv, BufferInv
<1>8. queue # <<>>
  BY <1>1, <1>2
<1> QED BY <1>1, <1>3, <1>5, <1>6, <1>7, <1>8

(* The steps that deliver.                                                 *)
LEMMA RemoteInv ==
  ASSUME IInv, Remote
  PROVE  IInv'
<1> USE DEF IInv
<1>0. /\ UNCHANGED <<cfg, channel, worker, token, accepted>>
      /\ PlacesOK'
  BY DEF Remote, SendEnds, ChunkEnds, BrokerTakes, TypeOK, PlacesOK, produced
<1>1. ChannelOK'
  BY <1>0 DEF TypeOK, ChannelOK
<1>2. CASE SendEnds \/ ChunkEnds
  <2>1. PICK n \in 1..MaxBatch :
          /\ n \in 1..Len(buffered)
          /\ sent' = sent \o SubSeq(buffered, 1, n)
          /\ buffered' = SubSeq(buffered, n + 1, Len(buffered))
    BY <1>2, RequestCarries
  <2>2. UNCHANGED queue /\ thread \in Sending /\ thread' \in {"select", "slurp"}
    BY <1>2 DEF SendEnds, ChunkEnds
  <2>3. Got' = Got /\ BufferInv' /\ sent' \in Seq(Nat) /\ buffered' \in Seq(Nat)
    BY <2>1, Sent DEF StreamInv
  <2>4. QueueOK'
    BY <2>2 DEF TypeOK, QueueOK
  <2>5. BufferOK'
    <3>1. thread' = "select" => Len(buffered') < MaxBatch
      BY <1>2 DEF SendEnds, ChunkEnds
    <3> QED BY <2>2, <2>3, <3>1 DEF BufferOK
  <2>6. PlaceInv'
    BY <1>0, <2>2 DEF PlaceInv
  <2>7. StreamInv'
    <3>1. Holds(queue', Got', accepted') /\ Got' <= accepted'
      BY <1>0, <2>2, <2>3 DEF StreamInv, QueueInv
    <3>2. QueueInv'
      BY <3>1 DEF QueueInv, Holds
    <3> QED BY <2>2, <2>3, <3>1, <3>2 DEF StreamInv
  <2> QED BY <1>0, <1>1, <2>4, <2>5, <2>6, <2>7 DEF TypeOK
<1>3. CASE BrokerTakes
  <2>1. /\ thread = "broker" /\ UNCHANGED <<thread, buffered>> /\ queue # <<>>
        /\ sent' \in Seq(Nat) /\ QueueOK' /\ StreamInv'
    BY <1>3, BrokerCarries
  <2>2. BufferOK'
    BY <2>1 DEF TypeOK, BufferOK
  <2>3. PlaceInv'
    BY <1>0, <2>1 DEF PlaceInv
  <2> QED BY <1>0, <1>1, <2>1, <2>2, <2>3 DEF TypeOK
<1> QED BY <1>2, <1>3 DEF Remote

(* Every step keeps the invariant.                                         *)
LEMMA StepInv == IInv /\ [Next]_vars => IInv'
  BY QuietInv, WorkerInv, StartInv, ReceiveInv, RemoteInv DEF Next, Worker, Sender

(* What the pipeline holds is always what was accepted and not yet sent,   *)
(* each record once, and for the HTTP appender in the order it was         *)
(* accepted: the invariant everything below rests on.                      *)
THEOREM Invariance == Spec => []IInv
<1> QED BY InitInv, StepInv, PTL DEF Spec

(* The channel and the queue keep their bounds, a batch that is full is    *)
(* being sent, and leftovers are drained only after the cancellation, for  *)
(* every size and setting (logging/http.rs, logging/mod.rs).               *)
THEOREM TypeCorrect == Spec => []TypeOK
<1>1. IInv => TypeOK
  BY DEF IInv
<1> QED BY <1>1, Invariance, PTL

-----------------------------------------------------------------------------
(* Nothing is waiting: everything accepted was sent.                       *)
LEMMA AllSent ==
  ASSUME IInv, thread # "failed", queue = <<>>, buffered = <<>>
  PROVE  Len(sent) = accepted
<1>1. Len(sent) \in Nat /\ accepted \in Nat /\ Got = Len(sent) /\ Len(queue) = 0
  BY Lengths DEF IInv, Got
<1>2. CASE thread = "broker"
  BY <1>1, <1>2 DEF IInv, StreamInv, Split
<1>3. CASE thread # "broker"
  <2>1. Len(sent) <= accepted /\ Holds(queue, Len(sent), accepted)
    BY <1>1, <1>3 DEF IInv, StreamInv, QueueInv
  <2>2. ~(Len(sent) < accepted)
    <3>1. 1..Len(queue) = {}
      BY <1>1
    <3> QED BY <1>1, <2>1, <3>1 DEF Holds
  <2> QED BY <1>1, <2>1, <2>2
<1> QED BY <1>2, <1>3

(* A stutter of the abstract stream.                                       *)
LEMMA Stutters ==
  ASSUME UNCHANGED <<cfg, token, accepted, sent, worker>>,
         \/ UNCHANGED thread
         \/ {thread, thread'} \cap {"done", "failed", "broker"} = {}
  PROVE  UNCHANGED Stream!streamVars
<1>1. UNCHANGED Open
  BY DEF Open
<1>2. UNCHANGED Pressed
  BY DEF Pressed
<1>3. UNCHANGED Ordered
  BY DEF Ordered
<1> QED BY <1>1, <1>2, <1>3 DEF Stream!streamVars

(* Each step is a step of the abstract stream, or a stutter of it.         *)
LEMMA StreamStep ==
  ASSUME IInv, [Next]_vars
  PROVE  [Stream!Next]_(Stream!streamVars)
<1> USE DEF produced, sender, vars, Selecting
<1>0. UNCHANGED Ordered
  BY DEF Ordered, Next, Log, Unblock, Guard, DropGuard, GuardTells, GuardGivesUp,
     Worker, WorkerWrites, WorkerReadsShutdown, WorkerFindsNoMore, WorkerFlushes,
     AppenderCancels, WorkerEnds, Remote, SendEnds, ChunkEnds, BrokerTakes, Sender,
     http_logger_thread, ReceivesFlush, ReceivesMessage, Slurp, NextChunk, Cancelled,
     PeriodicFlush
<1>1. CASE \/ \E p \in Loggers : Log(p) \/ Unblock(p)
           \/ Guard \/ Cancelled \/ PeriodicFlush \/ UNCHANGED vars
  <2>1. /\ UNCHANGED <<cfg, token, accepted, sent, worker>>
        /\ UNCHANGED thread \/ {thread, thread'} \cap {"done", "failed", "broker"} = {}
    BY <1>1 DEF Log, Unblock, Guard, DropGuard, GuardTells, GuardGivesUp,
       Cancelled, PeriodicFlush
  <2> QED BY <2>1, Stutters
<1>2. CASE ReceivesFlush \/ ReceivesMessage \/ Slurp
  <2>1. /\ UNCHANGED <<cfg, token, accepted, sent, worker>>
        /\ {thread, thread'} \cap {"done", "failed", "broker"} = {}
    BY <1>2 DEF ReceivesFlush, ReceivesMessage, Slurp
  <2> QED BY <2>1, Stutters
<1>3. CASE http_logger_thread
  <2>1. /\ UNCHANGED <<cfg, token, accepted, sent, worker>>
        /\ thread = "start" /\ thread' \in {"select", "failed"}
    BY <1>3 DEF http_logger_thread
  <2>2. CASE thread' = "select"
    BY <2>1, <2>2, Stutters
  <2>3. CASE thread' = "failed"
    <3>1. cfg.dest = "http" /\ sent = <<>>
      BY <2>1 DEF IInv, PlaceInv, TypeOK, PlacesOK, ConfigType
    <3>2. Open /\ Open' = FALSE /\ UNCHANGED Pressed
      BY <2>1, <2>3, <3>1 DEF Open, Pressed
    <3>3. Stream!Break
      BY <1>0, <2>1, <3>1, <3>2 DEF Stream!Break
    <3> QED BY <3>3 DEF Stream!Next
  <2> QED BY <2>1, <2>2, <2>3
<1>4. CASE NextChunk
  <2>1. /\ UNCHANGED <<cfg, token, accepted, sent, worker>>
        /\ thread = "slurp" /\ queue = <<>>
        /\ thread' = IF buffered = <<>> THEN "done" ELSE "sending_chunk"
    BY <1>4 DEF NextChunk
  <2>2. CASE buffered # <<>>
    BY <2>1, <2>2, Stutters
  <2>3. CASE buffered = <<>>
    <3>1. cfg.dest = "http" /\ Len(sent) = accepted
      BY <2>1, <2>3, AllSent DEF IInv, PlaceInv, TypeOK, PlacesOK, ConfigType
    <3>2. Open /\ Open' = FALSE /\ UNCHANGED Pressed
      BY <2>1, <2>3, <3>1 DEF Open, Pressed
    <3>3. Stream!Close
      BY <1>0, <2>1, <3>1, <3>2 DEF Stream!Close
    <3> QED BY <3>3 DEF Stream!Next
  <2> QED BY <2>2, <2>3
<1>5. CASE WorkerWrites \/ WorkerReadsShutdown \/ WorkerFindsNoMore \/ WorkerFlushes
  <2>1. /\ UNCHANGED <<cfg, token, sent, thread>>
        /\ worker # "gone" /\ worker' # "gone"
        /\ accepted' = accepted \/ (Accepting /\ accepted' = accepted + 1)
    BY <1>5 DEF WorkerWrites, WorkerReadsShutdown, WorkerFindsNoMore, WorkerFlushes,
       write, MayRefuse, flush, KafkaFlush
  <2>2. UNCHANGED Open /\ UNCHANGED Pressed
    BY <2>1 DEF Open, Pressed
  <2>3. CASE accepted' = accepted
    BY <1>0, <2>1, <2>2, <2>3 DEF Stream!streamVars
  <2>4. CASE Accepting /\ accepted' = accepted + 1
    <3>1. token = FALSE
      BY <1>5 DEF IInv, PlaceInv, TypeOK, PlacesOK,
         WorkerWrites, WorkerReadsShutdown, WorkerFindsNoMore, WorkerFlushes
    <3>2. thread \notin {"done", "failed"}
      BY <2>4, <3>1 DEF IInv, TypeOK, PlacesOK, Accepting
    <3>3. Open
      BY <2>1, <3>2 DEF Open
    <3>4. Stream!Accept
      BY <1>0, <2>1, <2>2, <2>4, <3>3 DEF Stream!Accept
    <3> QED BY <3>4 DEF Stream!Next
  <2> QED BY <2>1, <2>3, <2>4
<1>6. CASE AppenderCancels
  <2>1. /\ UNCHANGED <<cfg, accepted, sent, thread, worker>>
        /\ token = FALSE /\ token' = TRUE
    BY <1>6 DEF AppenderCancels, IInv, TypeOK, PlacesOK
  <2>2. UNCHANGED Open
    BY <2>1 DEF Open
  <2>3. Pressed \in BOOLEAN /\ Pressed' \in BOOLEAN /\ (Pressed => Pressed')
    BY <2>1 DEF Pressed, IInv, TypeOK, PlacesOK, ConfigType
  <2>4. CASE Pressed' = Pressed
    BY <1>0, <2>1, <2>2, <2>4 DEF Stream!streamVars
  <2>5. CASE ~Pressed /\ Pressed' = TRUE
    <3>1. Stream!Press
      BY <1>0, <2>1, <2>2, <2>5 DEF Stream!Press
    <3> QED BY <3>1 DEF Stream!Next
  <2> QED BY <2>3, <2>4, <2>5
<1>7. CASE WorkerEnds
  <2>1. /\ UNCHANGED <<cfg, token, accepted, sent, thread>>
        /\ worker = "closing" /\ worker' = "gone"
    BY <1>7 DEF WorkerEnds
  <2>2. UNCHANGED Pressed
    BY <2>1 DEF Pressed
  <2>3. CASE cfg.dest = "http"
    <3>1. UNCHANGED Open
      BY <2>1, <2>3 DEF Open
    <3> QED BY <1>0, <2>1, <2>2, <3>1 DEF Stream!streamVars
  <2>4. CASE cfg.dest # "http"
    <3>1. thread = "broker" /\ queue = <<>> /\ buffered = <<>>
      BY <2>1, <2>4 DEF IInv, PlaceInv, TypeOK, PlacesOK, ConfigType
    <3>2. Len(sent) = accepted
      BY <3>1, AllSent
    <3>3. Open /\ Open' = FALSE
      BY <2>1, <2>4 DEF Open
    <3>4. Stream!Close
      BY <1>0, <2>1, <2>2, <3>2, <3>3 DEF Stream!Close
    <3> QED BY <3>4 DEF Stream!Next
  <2> QED BY <2>3, <2>4
<1>8. CASE Remote
  <2>1. /\ UNCHANGED <<cfg, token, accepted, worker>>
        /\ thread \in Sending \cup {"broker"}
        /\ UNCHANGED thread \/ {thread, thread'} \cap {"done", "failed", "broker"} = {}
    BY <1>8 DEF Remote, SendEnds, ChunkEnds, BrokerTakes
  <2>2. UNCHANGED Open /\ UNCHANGED Pressed
    BY <2>1 DEF Open, Pressed
  <2>3. Open
    <3>1. CASE thread \in Sending
      <4>1. cfg.dest = "http"
        BY <3>1 DEF IInv, PlaceInv, TypeOK, PlacesOK, ConfigType
      <4> QED BY <3>1, <4>1 DEF Open
    <3>2. CASE thread = "broker"
      <4>1. cfg.dest = "kafka" /\ queue # <<>>
        BY <1>8, <3>2, BrokerCarries DEF IInv, PlaceInv, Remote, SendEnds, ChunkEnds
      <4>2. worker # "gone"
        BY <4>1 DEF IInv, PlaceInv
      <4> QED BY <4>1, <4>2 DEF Open
    <3> QED BY <2>1, <3>1, <3>2
  <2>4. CASE SendEnds \/ ChunkEnds
    <3>1. PICK n \in 1..MaxBatch :
            /\ n \in 1..Len(buffered)
            /\ sent' = sent \o SubSeq(buffered, 1, n)
            /\ buffered' = SubSeq(buffered, n + 1, Len(buffered))
      BY <2>4, RequestCarries
    <3>2. sent' = sent \o [i \in 1..n |-> Len(sent) + i]
      BY <3>1, Sent DEF IInv, StreamInv
    <3>3. Len(sent) + n <= accepted
      <4>1. thread \notin {"failed", "broker"}
        BY <2>4 DEF SendEnds, ChunkEnds
      <4>2. Len(sent) + Len(buffered) <= accepted
        BY <4>1 DEF IInv, StreamInv, Got
      <4>3. /\ n \in Nat /\ n <= Len(buffered)
            /\ Len(sent) \in Nat /\ Len(buffered) \in Nat /\ accepted \in Nat
        BY <3>1, Lengths DEF IInv
      <4> QED BY <4>2, <4>3
    <3>4. Ordered
      BY <2>4 DEF IInv, PlaceInv, TypeOK, PlacesOK, ConfigType, SendEnds, ChunkEnds, Ordered
    <3>5. Stream!DeliverNext
      BY <1>0, <2>1, <2>2, <2>3, <3>2, <3>3, <3>4 DEF Stream!DeliverNext
    <3> QED BY <3>5 DEF Stream!Deliver, Stream!Next
  <2>5. CASE BrokerTakes
    <3>1. ~Ordered
      BY <2>5, BrokerCarries DEF IInv, PlaceInv, Ordered
    <3>2. Stream!DeliverAny
      BY <1>0, <2>1, <2>2, <2>3, <2>5, <3>1, BrokerCarries DEF Stream!DeliverAny
    <3> QED BY <3>2 DEF Stream!Deliver, Stream!Next
  <2> QED BY <1>8, <2>4, <2>5 DEF Remote
<1> QED BY <1>1, <1>2, <1>3, <1>4, <1>5, <1>6, <1>7, <1>8 DEF Next, Worker, Sender

(* The pipeline implements LogStream: whatever full batches, flushes,      *)
(* ticks and the shutdown interleave, an appender delivers each record it  *)
(* accepted once, the HTTP one in order and never more than a batch        *)
(* together, and it ends with all of them delivered (http_logger_task,     *)
(* KafkaLogAppender; of the order in which Kafka's records end up nothing  *)
(* is claimed).                                                            *)
THEOREM Refinement == Spec => StreamSpec
<1>1. Init => Stream!Init
  <2> SUFFICES ASSUME Init PROVE Stream!Init
    OBVIOUS
  <2>1. Open = TRUE
    BY DEF Init, make_writer, Open
  <2>2. Pressed \in BOOLEAN
    BY DEF Pressed, Init, make_writer, ConfigType
  <2>3. Ordered \in BOOLEAN
    BY DEF Ordered
  <2> QED BY <2>1, <2>2, <2>3 DEF Init, make_writer, Stream!Init
<1>2. IInv /\ [Next]_vars => [Stream!Next]_(Stream!streamVars)
  BY StreamStep
<1> QED BY <1>1, <1>2, Invariance, PTL DEF Spec, StreamSpec, Stream!Spec
=============================================================================
