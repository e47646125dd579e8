------------------------------- MODULE Request -------------------------------
(***************************************************************************)
(* A request on its way through the application that AppBuilder::build of  *)
(* src/builder/app.rs assembles, outermost layer first:                    *)
(*                                                                         *)
(*   metrics -> catch panic -> route -> error handler -> authentication    *)
(*     -> rate limit -> timeout -> handler                                 *)
(*                                                                         *)
(* Nothing awaits until the handler runs, so a request gets there, or is   *)
(* answered on the way, in one step.  From then on the handler, its calls  *)
(* to other services, its deadline and the client race.                    *)
(*                                                                         *)
(* The rate limit is a bucket of `burst` requests here; RateLimit models   *)
(* it in full.  The outgoing call is the one HttpClient models.            *)
(***************************************************************************)
EXTENDS Auth, FiniteSets

CONSTANTS
  Client,     \* identities of the connections; each has one request at a time
  Handler,    \* names of the handlers compiled into the application
  Declared,   \* handler -> [no_auth, permissions], from the handler macro
  Config,     \* handler -> HandlerConfig: [disabled, burst,
              \*   use_x_timeout, default_timeout, min_timeout, max_timeout]
  Requests,   \* what a request may carry (see Auth)
  XTimeouts,  \* values of X-Timeout: a duration, or one of these:
  None,       \*   absent; also no duration, no deadline, no limit
  Garbled,    \*   not an ISO 8601 duration
  Calendar,   \*   months or years, which are no fixed duration
  MaxDrops    \* bound on the connections dropped

ASSUME RequestAssumption ==
  /\ IsFiniteSet(Client) /\ MaxDrops \in Nat
  /\ \A h \in Handler :
       /\ Config[h].burst \in Nat
       /\ {Config[h].default_timeout, Config[h].min_timeout, Config[h].max_timeout}
            \subseteq Nat \cup {None}
       /\ DOMAIN Declared[h].permissions \subseteq Nat
  /\ XTimeouts \subseteq Nat \cup {None, Garbled, Calendar}
  /\ \A r \in Requests :
       /\ r.authz.scheme \in {"absent", "malformed", "basic", "bearer", "other"}
       /\ r.authz.scheme = "bearer" =>
            r.authz.secret \in {"valid", "expired", "forged", "garbled"}

VARIABLES
  stage,    \* "idle", "running" or "replied"
  request,  \* history: the request that runs or was turned away:
            \* [handler, carries, x_timeout]
  left,     \* time until the deadline of the running handler
  call,     \* its outgoing call: None, or [x_timeout |-> the header sent]
  reply,    \* the latest one; see Response in Auth
  tokens,   \* the rate limit of each handler
  active,   \* the gauge http.server.active_requests
  drops     \* history: requests dropped by their client

vars == <<stage, request, left, call, reply, tokens, active, drops>>

NoRequest == [handler |-> None, carries |-> None, x_timeout |-> None]
Running   == {c \in Client : stage[c] = "running"}

Init ==
  /\ stage = [c \in Client |-> "idle"] /\ request = [c \in Client |-> NoRequest]
  /\ left = [c \in Client |-> None] /\ call = [c \in Client |-> None]
  /\ reply = [c \in Client |-> None]
  /\ tokens = [h \in Handler |-> Config[h].burst]
  /\ active = 0 /\ drops = 0

-----------------------------------------------------------------------------
(* HandlerTimeoutConfig::make_layer and get_deadline: a duration out of    *)
(* bounds sets no deadline at all.                                         *)
HasTimeoutLayer(t) == t.use_x_timeout \/ t.default_timeout # None

Asked(t, header) ==
  IF ~t.use_x_timeout \/ header = None \/ header = Garbled THEN t.default_timeout
  ELSE IF header = Calendar THEN None ELSE header

(* Mutant: a client may not ask for anything.                              *)
get_deadline_Never(t, header) == None
get_deadline(t, header) ==
  LET d == Asked(t, header) IN
  IF ~HasTimeoutLayer(t) \/ d = None THEN None
  ELSE IF t.min_timeout # None /\ t.min_timeout > d THEN None
  ELSE IF t.max_timeout # None /\ t.max_timeout < d THEN None
  ELSE d

(* Deadline::time_left, the duration since the deadline: there is none     *)
(* before it.                                                              *)
time_left(c) == IF left[c] # None /\ left[c] = 0 THEN 0 ELSE None

-----------------------------------------------------------------------------
(* The answers that are not about authentication: their status.            *)
Bare(s) == Response(s, Absent, Absent)

(* Mutants: a panic skips the gauge; an outgoing call outlives its handler.*)
Reply_NoGauge(c, s) ==
  /\ stage' = [stage EXCEPT ![c] = "replied"]
  /\ reply' = [reply EXCEPT ![c] = Bare(s)]
  /\ request' = [request EXCEPT ![c] = NoRequest]
  /\ left' = [left EXCEPT ![c] = None] /\ call' = [call EXCEPT ![c] = None]
  /\ active' = IF s = 500 THEN active ELSE active - 1
Reply_CallGoesOn(c, s) ==
  /\ stage' = [stage EXCEPT ![c] = "replied"]
  /\ reply' = [reply EXCEPT ![c] = Bare(s)]
  /\ request' = [request EXCEPT ![c] = NoRequest]
  /\ left' = [left EXCEPT ![c] = None] /\ UNCHANGED call
  /\ active' = active - 1
(* A running handler is through; whatever it was waiting for is dropped.   *)
Reply(c, s) ==
  /\ stage' = [stage EXCEPT ![c] = "replied"]
  /\ reply' = [reply EXCEPT ![c] = Bare(s)]
  /\ request' = [request EXCEPT ![c] = NoRequest]
  /\ left' = [left EXCEPT ![c] = None] /\ call' = [call EXCEPT ![c] = None]
  /\ active' = active - 1

(* A disabled handler has no route: the fallback handler answers 404.      *)
Routed(h) == ~Config[h].disabled

(* Answered before any handler ran.                                        *)
Turned(c, h, r, response) ==
  /\ stage' = [stage EXCEPT ![c] = "replied"] /\ reply' = [reply EXCEPT ![c] = response]
  /\ request' = [request EXCEPT ![c] = [handler |-> h, carries |-> r, x_timeout |-> None]]
  /\ UNCHANGED <<left, call, active>>

(* Through all layers: the handler starts.                                 *)
Runs(c, h, r, xt) ==
  /\ stage' = [stage EXCEPT ![c] = "running"]
  /\ request' = [request EXCEPT ![c] = [handler |-> h, carries |-> r, x_timeout |-> xt]]
  /\ left' = [left EXCEPT ![c] = get_deadline(Config[h], xt)]
  /\ reply' = [reply EXCEPT ![c] = None]
  /\ active' = active + 1
  /\ UNCHANGED call

AuthError(h, r) == IF Declared[h].no_auth THEN NoError
                   ELSE Verdict(r, Declared[h].permissions)
Limited(h) == Config[h].burst > 0
(* Mutant: a request over the limit is let through.                        *)
Exhausted_Never(h) == FALSE
Exhausted(h) == Limited(h) /\ tokens[h] = 0
Spend(h)   == tokens' = [tokens EXCEPT ![h] = IF Limited(h) THEN @ - 1 ELSE @]

(* Mutant: the rate limit comes before authentication.                     *)
Arrive_LimitFirst(c, h, r, xt) ==
  /\ stage[c] # "running"
  /\ IF ~Routed(h) THEN Turned(c, h, r, Bare(404)) /\ UNCHANGED tokens
     ELSE IF Exhausted(h) THEN Turned(c, h, r, Bare(429)) /\ UNCHANGED tokens
     ELSE /\ Spend(h)
          /\ LET e == AuthError(h, r)
             IN  IF e # NoError THEN Turned(c, h, r, error_response(e))
                               ELSE Runs(c, h, r, xt)
  /\ UNCHANGED drops

(* A request arrives: route, authenticate, take from the rate limit, run.  *)
Arrive(c, h, r, xt) ==
  /\ stage[c] # "running"
  /\ LET e == AuthError(h, r) IN
     IF ~Routed(h)        THEN Turned(c, h, r, Bare(404)) /\ UNCHANGED tokens
     ELSE IF e # NoError   THEN Turned(c, h, r, error_response(e)) /\ UNCHANGED tokens
     ELSE IF Exhausted(h) THEN Turned(c, h, r, Bare(429)) /\ UNCHANGED tokens
     ELSE Spend(h) /\ Runs(c, h, r, xt)
  /\ UNCHANGED drops

(* The handler calls another service: HeaderPropagationMiddleware sets     *)
(* X-Timeout from the time left.                                           *)
SendCall(c) ==
  /\ stage[c] = "running" /\ call[c] = None
  /\ call' = [call EXCEPT ![c] = [x_timeout |-> time_left(c)]]
  /\ UNCHANGED <<stage, request, left, reply, tokens, active, drops>>

CallReturns(c) ==
  /\ call[c] # None
  /\ call' = [call EXCEPT ![c] = None]
  /\ UNCHANGED <<stage, request, left, reply, tokens, active, drops>>

(* The handler finishes, or panics.  It is polled before the timer is, so  *)
(* an answer that is ready counts even when the deadline has passed.       *)
Answers(c) ==
  /\ stage[c] = "running" /\ call[c] = None /\ Reply(c, 200)
  /\ UNCHANGED <<tokens, drops>>

Panics(c) ==
  /\ stage[c] = "running" /\ Reply(c, 500)
  /\ UNCHANGED <<tokens, drops>>

TimesOut(c) ==
  /\ stage[c] = "running" /\ left[c] = 0 /\ Reply(c, 504)
  /\ UNCHANGED <<tokens, drops>>

(* The client goes away and the request is dropped, the metrics future     *)
(* with it: the gauge is not taken back.                                   *)
ClientLeaves(c) ==
  /\ stage[c] = "running" /\ drops < MaxDrops
  /\ stage' = [stage EXCEPT ![c] = "idle"]
  /\ request' = [request EXCEPT ![c] = NoRequest]
  /\ left' = [left EXCEPT ![c] = None] /\ call' = [call EXCEPT ![c] = None]
  /\ drops' = drops + 1
  /\ UNCHANGED <<reply, tokens, active>>

(* Time passes for every deadline at once.                                 *)
Ticking(c) == left[c] # None /\ left[c] > 0
Tick ==
  /\ \E c \in Client : Ticking(c)
  /\ left' = [c \in Client |-> IF Ticking(c) THEN left[c] - 1 ELSE left[c]]
  /\ UNCHANGED <<stage, request, call, reply, tokens, active, drops>>

Refill(h) ==
  /\ tokens[h] < Config[h].burst
  /\ tokens' = [tokens EXCEPT ![h] = @ + 1]
  /\ UNCHANGED <<stage, request, left, call, reply, active, drops>>

Next ==
  \/ Tick
  \/ \E h \in Handler : Refill(h)
  \/ \E c \in Client :
       \/ \E h \in Handler, r \in Requests, xt \in XTimeouts : Arrive(c, h, r, xt)
       \/ SendCall(c) \/ CallReturns(c) \/ Answers(c) \/ Panics(c)
       \/ TimesOut(c) \/ ClientLeaves(c)

(* Timers fire.  Nothing is assumed of handlers, other services, clients.  *)
Spec     == Init /\ [][Next]_vars
FairSpec == Spec /\ WF_vars(Tick) /\ \A c \in Client : WF_vars(TimesOut(c))

-----------------------------------------------------------------------------
Statuses == {200, 400, 401, 403, 404, 429, 500, 504}

(* Every variable keeps its type.                                          *)
TypeOK ==
  /\ stage \in [Client -> {"idle", "running", "replied"}]
  /\ \A c \in Client : left[c] # None => left[c] \in Nat /\ stage[c] = "running"
  /\ \A c \in Client : call[c] # None => call[c].x_timeout \in {None, 0}
  /\ \A c \in Client : reply[c] # None =>
       reply[c].status \in Statuses /\ (reply[c].challenge # Absent => reply[c].status = 401)
  /\ \A h \in Handler : tokens[h] \in 0..Config[h].burst
  /\ active \in Nat /\ drops \in 0..MaxDrops

(* A handler that wants authentication runs for nobody who did not prove,  *)
(* in a configured way, to be a user that all its permissions are granted  *)
(* to, however the extractors are stacked and whatever credentials a       *)
(* request combines.                                                       *)
PermsOf(h) == {Declared[h].permissions[i] : i \in DOMAIN Declared[h].permissions}
OnlyPermittedRun ==
  \A c \in Running :
    LET q == request[c]
    IN  Declared[q.handler].no_auth \/ MayRun(q.carries, PermsOf(q.handler))

(* errors.rs of UserNotFound and AuthFailed: exactly the same response.    *)
(* Two requests with the same kinds of well-formed passwords, neither of   *)
(* which proves anything, cannot be told apart by their replies: not by    *)
(* the status, not by the text of the error and not by the challenge.      *)
Refused(c) == /\ stage[c] = "replied" /\ request[c] # NoRequest
              /\ reply[c].status \in {400, 401, 403, 500}
Plain(r)   == /\ r.authz.scheme \in {"absent", "basic"}
              /\ "garbled" \notin {r.authz.secret, r.key.user, r.key.secret}
              /\ r.peer = Absent
Shape(r)   == <<r.authz.scheme, r.key.user = Absent, r.key.secret = Absent>>
ProvesNothing(r) == \A u \in DOMAIN Users : ~Proves(r, u)
RefusalsTellNothing ==
  \A c, d \in Client :
    LET q == request[c]   p == request[d] IN
    (/\ Refused(c) /\ Refused(d) /\ q.handler = p.handler
     /\ Plain(q.carries) /\ Plain(p.carries) /\ Shape(q.carries) = Shape(p.carries)
     /\ ProvesNothing(q.carries) /\ ProvesNothing(p.carries))
      => reply[c] = reply[d]

(* Whoever is turned away takes nothing from the rate limit: each request  *)
(* taken from it is spent on a handler that starts to run.                 *)
TokensBuyRuns ==
  [][ \A h \in Handler :
        tokens'[h] < tokens[h] =>
          \E c \in Client : /\ stage[c] # "running" /\ stage'[c] = "running"
                            /\ request'[c].handler = h ]_vars

(* No outgoing call goes on for a request that was answered, timed out or  *)
(* dropped.                                                                *)
NoOrphanCalls == \A c \in Client : call[c] # None => stage[c] = "running"

(* http.server.active_requests, "the number of active HTTP requests", is     *)
(* never less than that, and exactly that while no request was dropped by  *)
(* its client.                                                             *)
GaugeTellsRunning ==
  /\ active >= Cardinality(Running)
  /\ drops = 0 => active = Cardinality(Running)

(* A request with a duration within the bounds of its handler is answered  *)
(* or dropped in the end, even if the handler and the services it calls    *)
(* hang.                                                                   *)
WithinBounds(t, d) == /\ d \notin {None, Garbled, Calendar}
                      /\ t.min_timeout = None \/ t.min_timeout <= d
                      /\ t.max_timeout = None \/ d <= t.max_timeout
MustEnd(c) ==
  LET t == Config[request[c].handler]
  IN  t.use_x_timeout /\ WithinBounds(t, request[c].x_timeout)
BoundedRequestsEnd ==
  \A c \in Client : (stage[c] = "running" /\ MustEnd(c)) ~> (stage[c] # "running")

-----------------------------------------------------------------------------
(* timeout.rs of min_timeout and max_timeout: durations outside will       *)
(* automatically be responded with a 504 HTTP status code.                 *)
OutOfBoundsIs504 ==
  \A c \in Running :
    LET t == Config[request[c].handler]
        d == request[c].x_timeout
    IN  (t.use_x_timeout /\ d \notin {None, Garbled, Calendar})
          => WithinBounds(t, d)

(* ext.rs of time_left: get remaining time, None if the deadline has       *)
(* passed.  So an outgoing call tells the other service how long it has.   *)
DeadlinePropagated ==
  [][ \A c \in Client :
        (call[c] = None /\ call'[c] # None /\ left[c] # None /\ left[c] > 0)
          => call'[c].x_timeout = left[c] ]_vars
=============================================================================
