-------------------------- MODULE HttpClientProofs --------------------------
(***************************************************************************)
(* Theorems about HttpClient, for any number of concurrent calls, any      *)
(* threshold, history lengths and waiting time of the breaker, and any     *)
(* number of retries.                                                      *)
(***************************************************************************)
EXTENDS HttpClient, FiniteSetTheorems, TLAPS

(* The types, with the history that the breaker decides by: it holds the   *)
(* verdicts of the calls that ended since the breaker last changed.        *)
DataOK ==
  /\ breaker \in {"closed", "open", "half_open"}
  /\ ring \in Seq(BOOLEAN) /\ Len(ring) <= Buffer(breaker) /\ log = ring
  /\ wait \in 0..open_wait
  /\ pc \in [Call -> {"idle", "sending", "backoff"}]
  /\ past \in [Call -> 0..max_attempts]
  /\ ended \in [Call -> {"none", "response", "errored", "unbooked", "rejected",
                         "cancelled"}]
  /\ active \in Int /\ up \in BOOLEAN /\ cancels \in 0..MaxCancels
  /\ before \subseteq Call /\ traffic \in Nat

(* A call pauses only after a retry was counted.                           *)
PausesCounted == \A c \in Call : pc[c] = "backoff" => past[c] > 0

(* What the calls that were in flight when the breaker opened may still    *)
(* send: <<c, i>> for the i-th retry of c.                                 *)
StillToSend ==
  {p \in before \X (1..max_attempts) :
     /\ pc[p[1]] # "idle"
     /\ \/ past[p[1]] < p[2]
        \/ pc[p[1]] = "backoff" /\ past[p[1]] = p[2]}

(* While the breaker is open, what was sent and what may still be sent     *)
(* stay within the retries of the calls it had let through.                *)
Quiet ==
  (breaker = "open" /\ wait > 0) =>
     /\ InFlight \subseteq before
     /\ traffic + Cardinality(StillToSend) <= max_attempts * Cardinality(before)

(* The gauge is the calls in flight and those dropped, which nothing takes *)
(* back.                                                                   *)
GaugeLeaks == active = Cardinality(InFlight) + cancels

IInv == DataOK /\ PausesCounted /\ GaugeLeaks /\ Quiet

USE HttpClientAssumption

(* The history that slides over the last n verdicts is one of at most n.   *)
LEMMA SlideType ==
  ASSUME NEW r \in Seq(BOOLEAN), NEW n \in Nat \ {0}, Len(r) <= n, NEW v \in BOOLEAN
  PROVE  Slide(r, n, v) \in Seq(BOOLEAN) /\ Len(Slide(r, n, v)) <= n
<1>1. Append(r, v) \in Seq(BOOLEAN) /\ Len(Append(r, v)) = Len(r) + 1
  OBVIOUS
<1>2. Append(r, v) # <<>>
  BY <1>1
<1>3. Tail(Append(r, v)) \in Seq(BOOLEAN) /\ Len(Tail(Append(r, v))) = Len(r)
  BY <1>1, <1>2
<1>4. Slide(r, n, v) = IF Len(Append(r, v)) > n THEN Tail(Append(r, v)) ELSE Append(r, v)
  BY DEF Slide
<1>5. CASE Len(r) + 1 > n
  BY <1>1, <1>3, <1>4, <1>5
<1>6. CASE Len(r) + 1 <= n
  <2>1. Slide(r, n, v) = Append(r, v)
    BY <1>1, <1>4, <1>6
  <2> QED BY <1>1, <1>6, <2>1
<1>7. Len(r) \in Nat
  OBVIOUS
<1> QED BY <1>5, <1>6, <1>7

(* How long a history is kept is a number.                                 *)
LEMMA BufferType == ASSUME NEW b PROVE Buffer(b) \in Nat \ {0}
BY DEF Buffer

(* What a verdict may do to the breaker: trip it, close it, be ignored by  *)
(* an open one, or be remembered.                                          *)
LEMMA VerdictCases ==
  ASSUME NEW c, NEW failed \in BOOLEAN, Verdict(c, failed)
  PROVE  \/ /\ breaker # "open" /\ failed /\ Exceeds(Slide(ring, Buffer(breaker), failed), Buffer(breaker))
            /\ BreakerEnters("open") /\ before' = InFlight \ {c}
         \/ /\ breaker = "half_open" /\ ~failed /\ BreakerEnters("closed") /\ before' = before
         \/ breaker = "open" /\ UNCHANGED <<breaker, ring, wait, log, before, traffic>>
         \/ /\ breaker # "open"
            /\ ~(failed /\ Exceeds(Slide(ring, Buffer(breaker), failed), Buffer(breaker)))
            /\ ring' = Slide(ring, Buffer(breaker), failed)
            /\ log' = Slide(log, Buffer(breaker), failed)
            /\ UNCHANGED <<breaker, wait, before, traffic>>
BY DEF Verdict

(* Among B calls there are max_attempts retries each.                      *)
LEMMA Retries ==
  ASSUME NEW B, B \subseteq Call, NEW S, S \subseteq B \X (1..max_attempts)
  PROVE  /\ IsFiniteSet(B) /\ Cardinality(B) \in Nat
         /\ IsFiniteSet(S) /\ Cardinality(S) \in Nat
         /\ Cardinality(S) <= max_attempts * Cardinality(B)
<1>1. IsFiniteSet(B) /\ Cardinality(B) \in Nat
  BY FS_Subset, FS_CardinalityType
<1>2. max_attempts \in Int /\ 1 \in Int
  OBVIOUS
<1>3. /\ IsFiniteSet(1..max_attempts)
      /\ Cardinality(1..max_attempts) = IF 1 > max_attempts THEN 0 ELSE max_attempts - 1 + 1
  BY <1>2, FS_Interval
<1>4. (IF 1 > max_attempts THEN 0 ELSE max_attempts - 1 + 1) = max_attempts
  OBVIOUS
<1>5. /\ IsFiniteSet(B \X (1..max_attempts))
      /\ Cardinality(B \X (1..max_attempts)) = Cardinality(B) * Cardinality(1..max_attempts)
  BY <1>1, <1>3, FS_Product
<1>6. Cardinality(B) * Cardinality(1..max_attempts) = max_attempts * Cardinality(B)
  BY <1>1, <1>3, <1>4
<1>7. IsFiniteSet(S) /\ Cardinality(S) <= Cardinality(B \X (1..max_attempts))
  BY <1>5, FS_Subset
<1> QED BY <1>1, <1>5, <1>6, <1>7, FS_CardinalityType

(* The calls in flight, and what they may still send, are finitely many.   *)
LEMMA Finite ==
  ASSUME DataOK
  PROVE  /\ IsFiniteSet(InFlight) /\ Cardinality(InFlight) \in Nat
         /\ Cardinality(before) \in Nat
         /\ IsFiniteSet(StillToSend) /\ Cardinality(StillToSend) \in Nat
<1>1. IsFiniteSet(InFlight) /\ Cardinality(InFlight) \in Nat
  BY FS_Subset, FS_CardinalityType DEF InFlight
<1>2. before \subseteq Call /\ StillToSend \subseteq before \X (1..max_attempts)
  BY DEF StillToSend, DataOK
<1> QED BY <1>1, <1>2, Retries

(* Initially nothing is in flight.                                         *)
LEMMA InitInv == Init => IInv
<1> SUFFICES ASSUME Init PROVE IInv
  OBVIOUS
<1>1. DataOK
  BY DEF Init, DataOK, Buffer
<1>2. PausesCounted /\ Quiet
  BY DEF Init, PausesCounted, Quiet
<1>3. InFlight = {}
  BY DEF Init, InFlight
<1>4. GaugeLeaks
  BY <1>3, FS_EmptySet DEF Init, GaugeLeaks
<1> QED BY <1>1, <1>2, <1>4 DEF IInv

(* The verdict of a call leaves the breaker's state typed.                 *)
LEMMA VerdictType ==
  ASSUME DataOK, NEW c \in Call, NEW failed \in BOOLEAN, Verdict(c, failed)
  PROVE  /\ breaker' \in {"closed", "open", "half_open"}
         /\ ring' \in Seq(BOOLEAN) /\ Len(ring') <= Buffer(breaker') /\ log' = ring'
         /\ wait' \in 0..open_wait /\ before' \subseteq Call /\ traffic' \in Nat
<1> DEFINE r == Slide(ring, Buffer(breaker), failed)
<1>1. r \in Seq(BOOLEAN) /\ Len(r) <= Buffer(breaker)
  BY SlideType, BufferType DEF DataOK
<1>2. <<>> \in Seq(BOOLEAN) /\ Len(<<>>) = 0
  OBVIOUS
<1>3. CASE breaker # "open" /\ BreakerEnters("open") /\ before' = InFlight \ {c}
  BY <1>2, <1>3, BufferType DEF BreakerEnters, InFlight, DataOK
<1>4. CASE BreakerEnters("closed") /\ before' = before
  BY <1>2, <1>4, BufferType DEF BreakerEnters, DataOK
<1>5. CASE UNCHANGED <<breaker, ring, wait, log, before, traffic>>
  BY <1>5 DEF DataOK
<1>6. CASE ring' = r /\ log' = Slide(log, Buffer(breaker), failed) /\ UNCHANGED <<breaker, wait, before, traffic>>
  <2>1. log' = r
    BY <1>6 DEF DataOK
  <2> HIDE DEF r
  <2> QED BY <1>1, <1>6, <2>1 DEF DataOK
<1> HIDE DEF r
<1> QED BY <1>3, <1>4, <1>5, <1>6, VerdictCases DEF r

(* A step of the data: the cases of Next, each on the variables it writes. *)
LEMMA DataStep ==
  ASSUME DataOK, [Next]_vars PROVE DataOK'
<1> USE DEF DataOK
<1>1. CASE UNCHANGED vars
  BY <1>1 DEF vars, Buffer
<1>2. CASE Tick
  BY <1>2 DEF Tick, Buffer
<1>3. CASE RemoteChanges
  BY <1>3 DEF RemoteChanges, Buffer
<1>4. ASSUME NEW c \in Call, Start(c) PROVE DataOK'
  <2>1. CASE ~Permitted(c)
    BY <1>4, <2>1 DEF Start, Buffer
  <2>2. CASE Permitted(c) /\ breaker = "open"
    <3>1. /\ breaker' = "half_open" /\ ring' = <<>> /\ log' = <<>> /\ wait' = 0 /\ traffic' = 0
          /\ UNCHANGED <<before, up, cancels>> /\ active' = active + 1
          /\ pc' = [pc EXCEPT ![c] = "sending"] /\ past' = [past EXCEPT ![c] = 0]
          /\ ended' = [ended EXCEPT ![c] = "none"]
      BY <1>4, <2>2 DEF Start, BreakerEnters
    <3>2. ring' \in Seq(BOOLEAN) /\ Len(ring') <= Buffer(breaker')
      BY <3>1, BufferType
    <3> QED BY <3>1, <3>2
  <2>3. CASE Permitted(c) /\ breaker # "open"
    <3>1. /\ UNCHANGED <<breaker, ring, wait, before, traffic, log, up, cancels>>
          /\ active' = active + 1
          /\ pc' = [pc EXCEPT ![c] = "sending"] /\ past' = [past EXCEPT ![c] = 0]
          /\ ended' = [ended EXCEPT ![c] = "none"]
      BY <1>4, <2>3 DEF Start
    <3> QED BY <3>1 DEF Buffer
  <2> QED BY <2>1, <2>2, <2>3
<1>5. ASSUME NEW c \in Call, Resend(c) PROVE DataOK'
  BY <1>5 DEF Resend, Buffer
<1>6. ASSUME NEW c \in Call, Cancel(c) PROVE DataOK'
  BY <1>6 DEF Cancel, Buffer
<1>7. ASSUME NEW c \in Call, NEW o \in Outcome, AttemptEnds(c, o) PROVE DataOK'
  <2>1. CASE Transient(o) /\ should_retry(c)
    <3>1. /\ UNCHANGED <<breaker, ring, wait, ended, active, before, traffic, log, up, cancels>>
          /\ pc' = [pc EXCEPT ![c] = "backoff"] /\ past' = [past EXCEPT ![c] = @ + 1]
      BY <1>7, <2>1 DEF AttemptEnds, Retry
    <3>2. past[c] + 1 \in 0..max_attempts
      BY <2>1 DEF should_retry
    <3> QED BY <3>1, <3>2 DEF Buffer
  <2>2. CASE ~(Transient(o) /\ should_retry(c))
    <3>1. EndCall(c, o) /\ UNCHANGED <<up, cancels>>
      BY <1>7, <2>2 DEF AttemptEnds
    <3>2. (o \in {"down", "broken"}) \in BOOLEAN /\ Verdict(c, o \in {"down", "broken"})
      BY <3>1 DEF EndCall
    <3>3. /\ breaker' \in {"closed", "open", "half_open"}
          /\ ring' \in Seq(BOOLEAN) /\ Len(ring') <= Buffer(breaker') /\ log' = ring'
          /\ wait' \in 0..open_wait /\ before' \subseteq Call /\ traffic' \in Nat
      BY <3>2, VerdictType
    <3>4. EndOf(o) \in {"response", "errored", "unbooked"}
      BY DEF EndOf
    <3>5. /\ pc' \in [Call -> {"idle", "sending", "backoff"}] /\ past' = past
          /\ ended' \in [Call -> {"none", "response", "errored", "unbooked", "rejected",
                                  "cancelled"}]
          /\ active' \in Int
      BY <3>1, <3>4 DEF EndCall
    <3> QED BY <3>1, <3>3, <3>5
  <2> QED BY <2>1, <2>2
<1> QED BY <1>1, <1>2, <1>3, <1>4, <1>5, <1>6, <1>7 DEF Next, SomeStart

(* A retry is counted before the pause that precedes it.                   *)
LEMMA PausesStep ==
  ASSUME DataOK, PausesCounted, [Next]_vars PROVE PausesCounted'
<1> USE DEF DataOK, PausesCounted
<1>1. CASE UNCHANGED vars \/ Tick \/ RemoteChanges
  BY <1>1 DEF vars, Tick, RemoteChanges
<1>2. ASSUME NEW c \in Call, Start(c) PROVE PausesCounted'
  BY <1>2 DEF Start
<1>3. ASSUME NEW c \in Call, Resend(c) \/ Cancel(c) PROVE PausesCounted'
  BY <1>3 DEF Resend, Cancel
<1>4. ASSUME NEW c \in Call, NEW o \in Outcome, AttemptEnds(c, o) PROVE PausesCounted'
  <2>1. CASE Retry(c, o)
    BY <2>1 DEF Retry
  <2>2. CASE EndCall(c, o)
    BY <2>2 DEF EndCall
  <2> QED BY <1>4, <2>1, <2>2 DEF AttemptEnds
<1> QED BY <1>1, <1>2, <1>3, <1>4 DEF Next, SomeStart

(* What a step of one call does to the set of calls in flight.             *)
LEMMA FlightChanges ==
  ASSUME DataOK, NEW c \in Call, \A d \in Call \ {c} : pc'[d] = pc[d]
  PROVE  /\ (pc[c] = "idle") = (pc'[c] = "idle") => InFlight' = InFlight
         /\ pc[c] = "idle" /\ pc'[c] # "idle" =>
              InFlight' = InFlight \cup {c} /\ Cardinality(InFlight') = Cardinality(InFlight) + 1
         /\ pc[c] # "idle" /\ pc'[c] = "idle" =>
              InFlight' = InFlight \ {c} /\ Cardinality(InFlight') = Cardinality(InFlight) - 1
<1>1. ASSUME pc[c] = "idle", pc'[c] # "idle" PROVE c \notin InFlight /\ InFlight' = InFlight \cup {c}
  BY <1>1 DEF InFlight
<1>2. ASSUME pc[c] # "idle", pc'[c] = "idle" PROVE c \in InFlight /\ InFlight' = InFlight \ {c}
  BY <1>2 DEF InFlight
<1>3. ASSUME (pc[c] = "idle") = (pc'[c] = "idle") PROVE InFlight' = InFlight
  BY <1>3 DEF InFlight
<1>5. ASSUME c \notin InFlight PROVE Cardinality(InFlight \cup {c}) = Cardinality(InFlight) + 1
  BY <1>5, Finite, FS_AddElement
<1>6. ASSUME c \in InFlight PROVE Cardinality(InFlight \ {c}) = Cardinality(InFlight) - 1
  BY <1>6, Finite, FS_RemoveElement
<1> QED BY <1>1, <1>2, <1>3, <1>5, <1>6

(* The gauge follows the calls in flight and keeps those dropped.          *)
LEMMA GaugeStep ==
  ASSUME DataOK, GaugeLeaks, [Next]_vars PROVE GaugeLeaks'
<1>0. /\ Cardinality(InFlight) \in Nat /\ active \in Int /\ cancels \in Int
      /\ pc \in [Call -> {"idle", "sending", "backoff"}]
  BY Finite DEF DataOK
<1>1. CASE UNCHANGED vars \/ Tick \/ RemoteChanges
  <2>1. UNCHANGED <<active, cancels, pc>>
    BY <1>1 DEF vars, Tick, RemoteChanges
  <2> QED BY <2>1 DEF GaugeLeaks, InFlight
<1>2. ASSUME NEW c \in Call, Start(c) PROVE GaugeLeaks'
  <2>1. CASE UNCHANGED <<active, cancels, pc>>
    BY <2>1 DEF GaugeLeaks, InFlight
  <2>2. CASE /\ pc[c] = "idle" /\ active' = active + 1 /\ cancels' = cancels
             /\ pc' = [pc EXCEPT ![c] = "sending"]
    <3>1. Cardinality(InFlight') = Cardinality(InFlight) + 1
      BY <1>0, <2>2, FlightChanges
    <3> QED BY <1>0, <2>2, <3>1 DEF GaugeLeaks
  <2> QED BY <1>2, <2>1, <2>2 DEF Start
<1>3. ASSUME NEW c \in Call, Resend(c) PROVE GaugeLeaks'
  <2>1. InFlight' = InFlight
    BY <1>0, <1>3, FlightChanges DEF Resend
  <2> QED BY <1>3, <2>1 DEF Resend, GaugeLeaks
<1>4. ASSUME NEW c \in Call, Cancel(c) PROVE GaugeLeaks'
  <2>1. Cardinality(InFlight') = Cardinality(InFlight) - 1
    BY <1>0, <1>4, FlightChanges DEF Cancel
  <2>2. active' = active /\ cancels' = cancels + 1
    BY <1>4 DEF Cancel
  <2> QED BY <1>0, <2>1, <2>2 DEF GaugeLeaks
<1>5. ASSUME NEW c \in Call, NEW o \in Outcome, AttemptEnds(c, o) PROVE GaugeLeaks'
  <2>1. CASE Retry(c, o)
    <3>1. InFlight' = InFlight
      BY <1>0, <1>5, <2>1, FlightChanges DEF AttemptEnds, Retry
    <3> QED BY <1>5, <2>1, <3>1 DEF AttemptEnds, Retry, GaugeLeaks
  <2>2. CASE EndCall(c, o)
    <3>1. Cardinality(InFlight') = Cardinality(InFlight) - 1
      BY <1>0, <1>5, <2>2, FlightChanges DEF AttemptEnds, EndCall
    <3>2. active' = active - 1 /\ cancels' = cancels
      BY <1>5, <2>2 DEF AttemptEnds, EndCall
    <3> QED BY <1>0, <3>1, <3>2 DEF GaugeLeaks
  <2> QED BY <1>5, <2>1, <2>2 DEF AttemptEnds
<1> QED BY <1>1, <1>2, <1>3, <1>4, <1>5 DEF Next, SomeStart

(* What is sent again was counted as still to be sent.                     *)
LEMMA ResendCounted ==
  ASSUME DataOK, PausesCounted, NEW c \in before, Resend(c)
  PROVE  Cardinality(StillToSend') = Cardinality(StillToSend) - 1
<1> DEFINE p == <<c, past[c]>>
<1>1. /\ past[c] \in 1..max_attempts /\ pc[c] = "backoff" /\ c \in Call
      /\ pc' = [pc EXCEPT ![c] = "sending"] /\ before' = before /\ past' = past
      /\ pc \in [Call -> {"idle", "sending", "backoff"}] /\ before \subseteq Call
      /\ past \in [Call -> 0..max_attempts]
  BY DEF Resend, DataOK, PausesCounted
<1>2. p \in StillToSend
  BY <1>1 DEF StillToSend
<1>3. ASSUME NEW d \in before, NEW i \in 1..max_attempts
      PROVE  <<d, i>> \in StillToSend' <=> <<d, i>> \in StillToSend /\ <<d, i>> # p
  BY <1>1 DEF StillToSend
<1>4. StillToSend' = StillToSend \ {p}
  BY <1>1, <1>3 DEF StillToSend
<1> HIDE DEF p
<1> QED BY <1>2, <1>4, Finite, FS_RemoveElement

(* Whatever else a call does leaves no more to send than before.           *)
LEMMA LessToSend ==
  ASSUME DataOK, UNCHANGED <<before, traffic>>, StillToSend' \subseteq StillToSend
  PROVE  traffic' + Cardinality(StillToSend') <= traffic + Cardinality(StillToSend)
<1>1. Cardinality(StillToSend') <= Cardinality(StillToSend) /\ IsFiniteSet(StillToSend')
  BY Finite, FS_Subset
<1>2. Cardinality(StillToSend') \in Nat /\ Cardinality(StillToSend) \in Nat /\ traffic \in Nat
  BY <1>1, Finite, FS_CardinalityType DEF DataOK
<1> QED BY <1>1, <1>2

(* An open breaker lets nothing new through until its time is over.        *)
LEMMA QuietStep ==
  ASSUME DataOK, DataOK', PausesCounted, Quiet, [Next]_vars PROVE Quiet'
<1>0. /\ pc \in [Call -> {"idle", "sending", "backoff"}] /\ past \in [Call -> 0..max_attempts]
      /\ before \subseteq Call /\ traffic \in Nat /\ wait \in Nat
      /\ Cardinality(before) \in Nat /\ Cardinality(StillToSend) \in Nat
      /\ Cardinality(StillToSend') \in Nat
  <2>1. before' \subseteq Call /\ StillToSend' \subseteq before' \X (1..max_attempts)
    BY DEF StillToSend, DataOK
  <2>2. Cardinality(StillToSend') \in Nat
    BY <2>1, Retries
  <2> QED BY <2>2, Finite DEF DataOK
<1>1. ASSUME UNCHANGED <<breaker, before, traffic>>, wait' > 0 => wait > 0,
             InFlight' \subseteq InFlight, StillToSend' \subseteq StillToSend
      PROVE  Quiet'
  <2> SUFFICES ASSUME breaker' = "open", wait' > 0
               PROVE  /\ InFlight' \subseteq before'
                      /\ traffic' + Cardinality(StillToSend') <= max_attempts * Cardinality(before')
    BY DEF Quiet
  <2>1. /\ InFlight \subseteq before
        /\ traffic + Cardinality(StillToSend) <= max_attempts * Cardinality(before)
    BY <1>1 DEF Quiet
  <2>2. traffic' + Cardinality(StillToSend') <= traffic + Cardinality(StillToSend)
    BY <1>1, LessToSend
  <2>3. max_attempts * Cardinality(before) \in Int /\ traffic' \in Nat /\ before' = before
    BY <1>0, <1>1
  <2> QED BY <1>0, <1>1, <2>1, <2>2, <2>3
<1>2. CASE UNCHANGED vars \/ Tick \/ RemoteChanges
  <2>1. UNCHANGED <<breaker, before, traffic, pc, past>> /\ (wait' > 0 => wait > 0)
    BY <1>0, <1>2 DEF vars, Tick, RemoteChanges
  <2>2. InFlight' = InFlight /\ StillToSend' = StillToSend
    BY <2>1 DEF InFlight, StillToSend
  <2> QED BY <1>1, <2>1, <2>2
<1>3. ASSUME NEW c \in Call, Start(c) PROVE Quiet'
  <2>1. CASE UNCHANGED <<breaker, wait, before, traffic, pc, past>>
    <3>1. InFlight' = InFlight /\ StillToSend' = StillToSend
      BY <2>1 DEF InFlight, StillToSend
    <3> QED BY <1>1, <2>1, <3>1
  <2>2. CASE breaker' # "open"
    BY <2>2 DEF Quiet
  <2> QED BY <1>3, <2>1, <2>2 DEF Start, BreakerEnters
<1>4. ASSUME NEW c \in Call, Cancel(c) PROVE Quiet'
  <2>1. UNCHANGED <<breaker, wait, before, traffic, past>> /\ pc' = [pc EXCEPT ![c] = "idle"]
    BY <1>4 DEF Cancel
  <2>2. InFlight' \subseteq InFlight /\ StillToSend' \subseteq StillToSend
    BY <1>0, <2>1 DEF InFlight, StillToSend
  <2> QED BY <1>1, <2>1, <2>2
<1>5. ASSUME NEW c \in Call, Resend(c) PROVE Quiet'
  <2> SUFFICES ASSUME breaker' = "open", wait' > 0
               PROVE  /\ InFlight' \subseteq before'
                      /\ traffic' + Cardinality(StillToSend') <= max_attempts * Cardinality(before')
    BY DEF Quiet
  <2>1. /\ UNCHANGED <<breaker, wait, before, past>> /\ pc' = [pc EXCEPT ![c] = "sending"]
        /\ pc[c] = "backoff"
    BY <1>5 DEF Resend
  <2>2. traffic' = traffic + 1
    BY <1>5, <2>1 DEF Resend
  <2>3. /\ InFlight \subseteq before
        /\ traffic + Cardinality(StillToSend) <= max_attempts * Cardinality(before)
    BY <2>1 DEF Quiet
  <2>4. InFlight' = InFlight /\ c \in InFlight
    BY <1>0, <2>1 DEF InFlight
  <2>5. Cardinality(StillToSend') = Cardinality(StillToSend) - 1
    BY <1>5, <2>3, <2>4, ResendCounted
  <2>6. max_attempts * Cardinality(before) \in Int
    BY <1>0
  <2> QED BY <1>0, <2>1, <2>2, <2>3, <2>4, <2>5, <2>6
<1>6. ASSUME NEW c \in Call, NEW o \in Outcome, AttemptEnds(c, o) PROVE Quiet'
  <2>1. CASE Retry(c, o)
    <3>1. /\ UNCHANGED <<breaker, wait, before, traffic>> /\ pc[c] = "sending"
          /\ pc' = [pc EXCEPT ![c] = "backoff"] /\ past' = [past EXCEPT ![c] = @ + 1]
      BY <1>6, <2>1 DEF AttemptEnds, Retry
    <3>2. InFlight' = InFlight
      BY <1>0, <3>1 DEF InFlight
    <3>3. ASSUME NEW d \in before, NEW i \in 1..max_attempts, <<d, i>> \in StillToSend'
          PROVE  <<d, i>> \in StillToSend
      BY <1>0, <3>1, <3>3 DEF StillToSend
    <3>4. StillToSend' \subseteq StillToSend
      BY <3>1, <3>3 DEF StillToSend
    <3> QED BY <1>1, <3>1, <3>2, <3>4
  <2>2. CASE EndCall(c, o)
    <3>1. pc' = [pc EXCEPT ![c] = "idle"] /\ past' = past /\ Verdict(c, o \in {"down", "broken"})
      BY <2>2 DEF EndCall
    <3>2. InFlight' = InFlight \ {c}
      BY <1>0, <3>1 DEF InFlight
    <3>3. CASE BreakerEnters("open") /\ before' = InFlight \ {c}
      <4>1. traffic' = 0 /\ InFlight' \subseteq before'
        BY <3>2, <3>3 DEF BreakerEnters
      <4>2. before' \subseteq Call /\ StillToSend' \subseteq before' \X (1..max_attempts)
        BY DEF StillToSend, DataOK
      <4>3. Cardinality(StillToSend') <= max_attempts * Cardinality(before')
        BY <4>2, Retries
      <4> QED BY <1>0, <4>1, <4>3 DEF Quiet
    <3>4. CASE BreakerEnters("closed")
      BY <3>4 DEF Quiet, BreakerEnters
    <3>5. CASE UNCHANGED <<breaker, wait, before, traffic>>
      <4>1. InFlight' \subseteq InFlight /\ StillToSend' \subseteq StillToSend
        BY <1>0, <3>1, <3>2, <3>5 DEF StillToSend
      <4> QED BY <1>1, <3>5, <4>1
    <3>6. (o \in {"down", "broken"}) \in BOOLEAN
      OBVIOUS
    <3> QED BY <3>1, <3>3, <3>4, <3>5, <3>6, VerdictCases
  <2> QED BY <1>6, <2>1, <2>2 DEF AttemptEnds
<1> QED BY <1>2, <1>3, <1>4, <1>5, <1>6 DEF Next, SomeStart

(* The strengthened invariant holds from the first state on.               *)
LEMMA Invariance == Spec => []IInv
<1>1. IInv /\ [Next]_vars => IInv'
  BY DataStep, PausesStep, GaugeStep, QuietStep DEF IInv
<1> QED BY <1>1, InitInv, PTL DEF Spec

(* Every variable of the client keeps its type: the gauge never goes below *)
(* zero, and the breaker's history never outgrows its buffer.              *)
THEOREM TypeCorrect == Spec => []TypeOK
<1>1. IInv => TypeOK
  BY Finite DEF IInv, DataOK, GaugeLeaks, TypeOK
<1> QED BY <1>1, Invariance, PTL

(* The gauge of active requests is never less than the calls in flight,    *)
(* and exactly these as long as no call is dropped.                        *)
THEOREM GaugeTold == Spec => []GaugeTellsInFlight
<1>1. ASSUME IInv PROVE GaugeTellsInFlight
  <2>1. Cardinality(InFlight) \in Nat /\ cancels \in Nat
    BY <1>1, Finite DEF IInv, DataOK
  <2> QED BY <1>1, <2>1 DEF IInv, GaugeLeaks, GaugeTellsInFlight
<1> QED BY <1>1, Invariance, PTL

(* While the breaker is open nothing is on the wire but calls it had let   *)
(* through, and these send no more than their remaining retries.           *)
THEOREM OpenBreakerQuiet == Spec => []OpenIsQuiet
<1>1. ASSUME IInv PROVE OpenIsQuiet
  <2>1. Cardinality(StillToSend) \in Nat /\ Cardinality(before) \in Nat /\ traffic \in Nat
    BY <1>1, Finite DEF IInv, DataOK
  <2>2. max_attempts * Cardinality(before) \in Int
    BY <2>1
  <2> QED BY <1>1, <2>1, <2>2 DEF IInv, Quiet, OpenIsQuiet
<1> QED BY <1>1, Invariance, PTL

(* The breaker trips exactly when the share of failed calls among the last *)
(* ones it saw end exceeds the threshold.                                  *)
THEOREM TripsAsConfigured == Spec => TripsOnFailedCalls
<1> DEFINE Trips ==
      \A c \in Call :
        (pc[c] = "sending" /\ pc'[c] = "idle" /\ breaker # "open"
           /\ ended'[c] \in {"errored", "unbooked"})
         => (breaker' = "open" <=> Exceeds(LastCalls(TRUE), Buffer(breaker)))
<1>1. ASSUME IInv, [Next]_vars PROVE [Trips]_vars
  <2> SUFFICES ASSUME Next, NEW c \in Call, pc[c] = "sending", pc'[c] = "idle",
                      breaker # "open", ended'[c] \in {"errored", "unbooked"}
               PROVE  breaker' = "open" <=> Exceeds(LastCalls(TRUE), Buffer(breaker))
    BY <1>1
  <2>0. /\ pc \in [Call -> {"idle", "sending", "backoff"}]
        /\ ended \in [Call -> {"none", "response", "errored", "unbooked", "rejected",
                               "cancelled"}]
        /\ log = ring
    BY <1>1 DEF IInv, DataOK
  <2>1. PICK o \in Outcome : AttemptEnds(c, o)
    <3>1. ASSUME NEW d \in Call, Start(d) \/ Resend(d) PROVE pc'[c] # "idle"
      BY <2>0, <3>1 DEF Start, Resend
    <3>2. ASSUME NEW d \in Call, Cancel(d) PROVE FALSE
      BY <2>0, <3>2 DEF Cancel
    <3>3. ~Tick /\ ~RemoteChanges
      BY <2>0 DEF Tick, RemoteChanges
    <3>4. ASSUME NEW d \in Call, NEW o \in Outcome, AttemptEnds(d, o) PROVE d = c
      <4>1. pc'[c] # pc[c]
        OBVIOUS
      <4>2. \E s : pc' = [pc EXCEPT ![d] = s]
        BY <3>4 DEF AttemptEnds, Retry, EndCall
      <4> QED BY <2>0, <4>1, <4>2
    <3> QED BY <3>1, <3>2, <3>3, <3>4 DEF Next, SomeStart
  <2>2. EndCall(c, o)
    BY <2>0, <2>1 DEF AttemptEnds, Retry
  <2>3. ended'[c] = EndOf(o)
    BY <2>0, <2>2 DEF EndCall
  <2>4. o \in {"down", "broken"}
    BY <2>1, <2>3 DEF EndOf, Outcome
  <2>5. Verdict(c, TRUE)
    <3>1. (o \in {"down", "broken"}) = TRUE
      BY <2>4
    <3> QED BY <2>2, <3>1 DEF EndCall
  <2>6. breaker' = "open" <=> Exceeds(Slide(ring, Buffer(breaker), TRUE), Buffer(breaker))
    BY <2>5, VerdictCases DEF BreakerEnters
  <2> QED BY <2>0, <2>6 DEF LastCalls
<1> QED BY <1>1, Invariance, PTL DEF Spec, TripsOnFailedCalls
=============================================================================
