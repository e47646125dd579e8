----------------------------- MODULE HttpClient -----------------------------
(***************************************************************************)
(* An instrumented HTTP client: the middleware stack that wrap_client of   *)
(* src/http_client/middleware.rs builds, outermost first                   *)
(*                                                                         *)
(*   metrics -> circuit breaker -> retry -> reqwest                        *)
(*                                                                         *)
(* (header propagation and tracing come before them and keep no state).    *)
(* Calls of one client run concurrently and share the breaker.  A call is  *)
(* a future: it advances at its await points and may be dropped at any of  *)
(* them, most often because the handler it belongs to timed out.           *)
(*                                                                         *)
(* The breaker itself is the recloser crate, the retry loop reqwest-retry, *)
(* the transport reqwest: external, modelled by what cb.rs, retry.rs and   *)
(* metrics.rs rely on.                                                     *)
(***************************************************************************)
EXTENDS Integers, Sequences, FiniteSets

CONSTANTS
  Call,           \* identities of the calls in flight at one time
  error_rate,     \* the threshold <<n, d>> that stands for n / d
  closed_len,     \* verdicts amassed before a closed breaker may trip
  half_open_len,  \* the same for a half-open breaker
  open_wait,      \* ticks an open breaker rejects
  max_attempts,   \* retries after the first attempt; 0: no retry policy
  request_timeout,\* whether the client has a total request timeout
  MaxCancels      \* bound on the calls dropped

ASSUME HttpClientAssumption ==
  /\ IsFiniteSet(Call)
  /\ error_rate \in Nat \X (Nat \ {0})
  /\ closed_len \in Nat \ {0} /\ half_open_len \in Nat \ {0}
  /\ open_wait \in Nat \ {0} /\ max_attempts \in Nat /\ MaxCancels \in Nat
  /\ request_timeout \in BOOLEAN

VARIABLES
  breaker,  \* "closed", "open" or "half_open"
  ring,     \* the breaker's history buffer: TRUE for a failure
  wait,     \* ticks left before an open breaker lets a call through
  pc,       \* "idle", "sending" or "backoff"
  past,     \* n_past_retries of the call
  ended,    \* how the latest call ended
  active,   \* the gauge http.client.active_requests
  up,       \* the remote answers well
  cancels,  \* history: calls dropped
  before,   \* history: calls in flight when the breaker opened
  traffic,  \* history: requests sent since the breaker opened
  log       \* history: verdicts of the calls ended since the breaker last
            \* changed its state, latest last

vars == <<breaker, ring, wait, pc, past, ended, active, up, cancels, before,
          traffic, log>>

Outcome  == {"ok", "busy", "down", "broken"}
InFlight == {c \in Call : pc[c] # "idle"}

Init ==
  /\ breaker = "closed" /\ ring = <<>> /\ wait = 0
  /\ pc = [c \in Call |-> "idle"] /\ past = [c \in Call |-> 0]
  /\ ended = [c \in Call |-> "none"]
  /\ active = 0 /\ up = TRUE /\ cancels = 0
  /\ before = {} /\ traffic = 0 /\ log = <<>>

-----------------------------------------------------------------------------
(* External: recloser.  The buffer slides; a rate exists once it is full.  *)
Slide(r, n, v)  == LET s == Append(r, v)
                   IN  IF Len(s) > n THEN Tail(s) ELSE s
Failures(r)     == Cardinality({i \in DOMAIN r : r[i]})
Exceeds(r, n)   == /\ Len(r) >= n
                   /\ Failures(r) * error_rate[2] > error_rate[1] * n
WithinRate(r, n) == Len(r) >= n /\ ~Exceeds(r, n)
Buffer(b)       == IF b = "closed" THEN closed_len ELSE half_open_len

Permitted(c) == breaker = "open" => wait = 0

BreakerEnters(b) ==
  /\ breaker' = b /\ ring' = <<>> /\ log' = <<>>
  /\ wait' = IF b = "open" THEN open_wait ELSE 0
  /\ traffic' = 0

(* Mutant: a half-open breaker does not close.                             *)
Verdict_StaysHalfOpen(c, failed) ==
  LET r == Slide(ring, Buffer(breaker), failed)
  IN  IF breaker # "open" /\ failed /\ Exceeds(r, Buffer(breaker))
      THEN BreakerEnters("open") /\ before' = InFlight \ {c}
      ELSE /\ ring' = IF breaker = "open" THEN ring ELSE r
           /\ log' = IF breaker = "open" THEN log
                     ELSE Slide(log, Buffer(breaker), failed)
           /\ UNCHANGED <<breaker, wait, before, traffic>>
(* A call has ended: its verdict is for the breaker as it is then, which   *)
(* may have changed since the call was let through.                        *)
Verdict(c, failed) ==
  LET n == Buffer(breaker)
      r == Slide(ring, n, failed)
  IN  CASE breaker # "open" /\ failed /\ Exceeds(r, n) ->
             BreakerEnters("open") /\ before' = InFlight \ {c}
        [] breaker = "half_open" /\ ~failed /\ WithinRate(r, n) ->
             BreakerEnters("closed") /\ UNCHANGED before
        [] breaker = "open" -> UNCHANGED <<breaker, ring, wait, log, before, traffic>>
        [] OTHER -> /\ ring' = r /\ log' = Slide(log, n, failed)
                    /\ UNCHANGED <<breaker, wait, before, traffic>>

-----------------------------------------------------------------------------
(* Mutant: the breaker is asked, its answer is not heeded.                 *)
Start_NotRejected(c) ==
  /\ pc[c] = "idle"
  /\ active' = active + 1
  /\ pc' = [pc EXCEPT ![c] = "sending"] /\ past' = [past EXCEPT ![c] = 0]
  /\ ended' = [ended EXCEPT ![c] = "none"]
  /\ IF breaker = "open" /\ wait = 0
     THEN BreakerEnters("half_open") /\ UNCHANGED before
     ELSE UNCHANGED <<breaker, ring, wait, before, traffic, log>>
  /\ UNCHANGED <<up, cancels>>

(* A call runs down to the transport: it counts as active, the breaker     *)
(* lets it through, and the first request goes out, all before the first   *)
(* await.  A rejected call has ended by then (the gauge went up and down). *)
Start(c) ==
  /\ pc[c] = "idle"
  /\ \/ /\ ~Permitted(c)
        /\ ended' = [ended EXCEPT ![c] = "rejected"]
        /\ UNCHANGED <<breaker, ring, wait, pc, past, active, before, traffic, log>>
     \/ /\ Permitted(c)
        /\ active' = active + 1
        /\ pc' = [pc EXCEPT ![c] = "sending"] /\ past' = [past EXCEPT ![c] = 0]
        /\ ended' = [ended EXCEPT ![c] = "none"]
        /\ IF breaker = "open" THEN BreakerEnters("half_open") /\ UNCHANGED before
           ELSE UNCHANGED <<breaker, ring, wait, before, traffic, log>>
  /\ UNCHANGED <<up, cancels>>

(* External, the retryable strategy: 5xx, 408 and 429 responses ("busy")   *)
(* and connection errors or timeouts ("down") are transient.               *)
Transient(o) == o \in {"busy", "down"}

(* Mutant: one retry too many.                                             *)
should_retry_OneMore(c) == max_attempts > 0 /\ past[c] <= max_attempts
should_retry(c) == past[c] < max_attempts

(* What the caller gets.  A transport error that came through the retry    *)
(* middleware is wrapped, and only then does metrics.rs book it: it looks  *)
(* for Error::Middleware.  "rejected" is booked as rejected.               *)
EndOf(o) == IF o \in {"ok", "busy"} THEN "response"
            ELSE IF max_attempts > 0 THEN "errored" ELSE "unbooked"

(* Mutants: the retry is not counted; each attempt is judged, as if the    *)
(* breaker were inside the retry loop.                                     *)
Retry_NotCounted(c, o) ==
  /\ pc' = [pc EXCEPT ![c] = "backoff"]
  /\ UNCHANGED <<breaker, ring, wait, past, ended, active, before, traffic, log>>
Retry_Judged(c, o) ==
  /\ pc' = [pc EXCEPT ![c] = "backoff"] /\ past' = [past EXCEPT ![c] = @ + 1]
  /\ ring' = Slide(ring, Buffer(breaker), o = "down")
  /\ UNCHANGED <<breaker, wait, ended, active, before, traffic, log>>
Retry(c, o) ==
  /\ pc' = [pc EXCEPT ![c] = "backoff"] /\ past' = [past EXCEPT ![c] = @ + 1]
  /\ UNCHANGED <<breaker, ring, wait, ended, active, before, traffic, log>>

(* Mutant: the gauge goes down on a response only.                         *)
EndCall_ErrorStaysActive(c, o) ==
  /\ pc' = [pc EXCEPT ![c] = "idle"] /\ ended' = [ended EXCEPT ![c] = EndOf(o)]
  /\ active' = IF EndOf(o) = "response" THEN active - 1 ELSE active
  /\ Verdict(c, o \in {"down", "broken"})
  /\ UNCHANGED past
(* The call ends.  Only an error is a failure to the breaker: a 5xx        *)
(* response is not.                                                        *)
EndCall(c, o) ==
  /\ pc' = [pc EXCEPT ![c] = "idle"] /\ ended' = [ended EXCEPT ![c] = EndOf(o)]
  /\ active' = active - 1
  /\ Verdict(c, o \in {"down", "broken"})
  /\ UNCHANGED past

(* An attempt ends: it is retried after a pause, or the call ends with it. *)
AttemptEnds(c, o) ==
  /\ pc[c] = "sending" /\ (up <=> o = "ok")
  /\ IF Transient(o) /\ should_retry(c) THEN Retry(c, o) ELSE EndCall(c, o)
  /\ UNCHANGED <<up, cancels>>

(* The pause is over: the request is sent again.  The breaker is not asked.*)
Resend(c) ==
  /\ pc[c] = "backoff"
  /\ pc' = [pc EXCEPT ![c] = "sending"]
  /\ traffic' = IF breaker = "open" /\ wait > 0 THEN traffic + 1 ELSE traffic
  /\ UNCHANGED <<breaker, ring, wait, past, ended, active, up, cancels, before, log>>

(* The future of a call is dropped: no verdict, and the gauge stays up.    *)
Cancel(c) ==
  /\ pc[c] # "idle" /\ cancels < MaxCancels
  /\ pc' = [pc EXCEPT ![c] = "idle"] /\ ended' = [ended EXCEPT ![c] = "cancelled"]
  /\ cancels' = cancels + 1
  /\ UNCHANGED <<breaker, ring, wait, past, active, up, before, traffic, log>>

Tick ==
  /\ wait > 0 /\ wait' = wait - 1
  /\ UNCHANGED <<breaker, ring, pc, past, ended, active, up, cancels, before,
                 traffic, log>>

RemoteChanges ==
  /\ up' = ~up
  /\ UNCHANGED <<breaker, ring, wait, pc, past, ended, active, cancels, before,
                 traffic, log>>

SomeStart == \E c \in Call : Start(c)
Next ==
  \/ Tick \/ RemoteChanges \/ SomeStart
  \/ \E c \in Call : \/ Resend(c) \/ Cancel(c)
                     \/ \E o \in Outcome : AttemptEnds(c, o)

(* Timers fire; with a request timeout every attempt ends, without one it  *)
(* ends only if the remote is up.                                          *)
Fairness ==
  /\ WF_vars(Tick)
  /\ \A c \in Call :
       /\ WF_vars(Resend(c))
       /\ WF_vars((request_timeout \/ up) /\ \E o \in Outcome : AttemptEnds(c, o))

Spec     == Init /\ [][Next]_vars
FairSpec == Spec /\ Fairness

-----------------------------------------------------------------------------
(* Every variable keeps its type.                                          *)
TypeOK ==
  /\ breaker \in {"closed", "open", "half_open"}
  /\ ring \in Seq(BOOLEAN) /\ log \in Seq(BOOLEAN)
  /\ Len(ring) <= Buffer(breaker)
  /\ wait \in 0..open_wait
  /\ pc \in [Call -> {"idle", "sending", "backoff"}]
  /\ past \in [Call -> 0..max_attempts]
  /\ ended \in [Call -> {"none", "response", "errored", "unbooked", "rejected",
                         "cancelled"}]
  /\ active \in Nat /\ up \in BOOLEAN /\ cancels \in 0..MaxCancels
  /\ before \subseteq Call /\ traffic \in Nat

(* cb.rs of open_wait: time that the breaker stays open.  While it does,   *)
(* nothing is on the wire but calls it had let through before, and these   *)
(* send no more than their remaining retries.                              *)
OpenIsQuiet ==
  (breaker = "open" /\ wait > 0) =>
     /\ InFlight \subseteq before
     /\ traffic <= max_attempts * Cardinality(before)

(* cb.rs of error_rate and closed_len: the breaker trips exactly when the  *)
(* share of failed calls, not attempts, among the last closed_len (or      *)
(* half_open_len) calls it saw end exceeds the threshold.                  *)
LastCalls(f) == Slide(log, Buffer(breaker), f)
TripsOnFailedCalls ==
  [][ \A c \in Call :
        (pc[c] = "sending" /\ pc'[c] = "idle" /\ breaker # "open"
           /\ ended'[c] \in {"errored", "unbooked"})
         => (breaker' = "open" <=> Exceeds(LastCalls(TRUE), Buffer(breaker))) ]_vars

(* metrics.rs:329 calls http.client.active_requests "the number of active  *)
(* HTTP requests".  It is never less than the calls in flight, and as long *)
(* as nobody drops a call it is exactly these, whatever is retried,        *)
(* rejected or errors.  Of a dropped call nothing is claimed.              *)
GaugeTellsInFlight ==
  /\ active >= Cardinality(InFlight)
  /\ cancels = 0 => active = Cardinality(InFlight)

(* A client whose remote recovers, and that keeps being used without its   *)
(* calls being dropped, ends up with a closed breaker for good, whatever   *)
(* verdicts of older calls arrive late.                                    *)
Recovers ==
  (/\ <>[]up
   /\ []<><<SomeStart>>_vars
   /\ <>[][\A c \in Call : ended'[c] = "cancelled" => ended[c] = "cancelled"]_vars)
    => <>[](breaker = "closed")

(* With a request timeout every call ends, whatever the remote does.       *)
CallsEnd == request_timeout => \A c \in Call : (pc[c] # "idle") ~> (pc[c] = "idle")
=============================================================================
