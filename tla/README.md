# A formal model of uxum

uxum is a Rust framework for HTTP microservices on axum, tokio and tower. This
directory holds TLA+ models of the parts of it that have state, TLC instances of
them, and TLAPS proofs of what matters most. Paths are relative to the
repository; `rate.rs:538` is a line of `src/src/layers/rate.rs`, and so on.

Check one instance with `tlc -config MCHandle.cfg MCHandle.tla`, one proof
module with `tlapm HandleProofs.tla`. `PROJECT.json` lists runs, theorems,
mutants, hazards, and for each definition the lines it stands for.

## 1. Inventory

What each component keeps, does, and must get right. *Modelled in* names the
module, or says that there is none yet.

| component | state | operations | hard behaviour | what makes it correct | modelled in |
|---|---|---|---|---|---|
| service handle (`handle.rs`) | server tasks, the axum handle they share, tokens, timeouts | `start`, `run`, `wait`, `shutdown`, `graceful_shutdown`, `abort`, `Drop`, `AppConfig::handle` | servers, signals and calls interleave; a start fails half-way; a call's future is dropped | no server is lost; shutdown returns when nothing runs; a panic is no success; a signal ends the service | Handle, ServiceLife |
| signals (`signal.rs`) | registered listeners, pending signals | one task: next signal, stop or reload | signals coalesce; arrive before, during, after a start | a stop signal is never lost while the task listens | Handle |
| supervisor (`notify.rs`) | what systemd was last told | `on_ready`, `on_shutdown`, `on_reload`, watchdog | told ready after a stop | — | Handle (partly) |
| rate limits (`layers/rate.rs`, `layers/util.rs`) | a cell per key, a counter of checks | extract key, count, evict, check, chain | concurrent requests and evictions; inheritance of overrides; rounding | quotas are the documented ones; eviction loses nothing; the store is bounded | RateLimit, TokenBucket |
| HTTP client (`http_client/*`) | breaker, gauge, calls under way | header propagation, metrics, breaker, retries | late verdicts; retries while open; dropped calls; breaker and retry nesting | opens when it should, is quiet while open, recovers | HttpClient |
| authentication (`auth/*`) | none (configuration) | extract, stack, authenticate, authorize, refuse | stacked extractors, mixed credentials | only permitted users run; refusals tell nothing | Auth, Request |
| request pipeline (`builder/app.rs`, `layers/timeout.rs`, `layers/ext.rs`) | stage of each request, deadline, outgoing call, gauge | layers in order; handler, panic, timeout, drop | deadline, reply, client and outgoing call race | refusals cost nothing; bounded requests end; no orphan calls | Request |
| pools (`uxum-pools/src`) | time of the last gathering per instance, gauges and histograms | `instrument`, `get`, `try_get`, `get_timeout`, `update_metrics`, `clone`, operations, drops | race for gathering; failure after the acquisition; clones | no connection lost, histograms agree, gauges fresh | Pool |
| probes and watchdog (`probes.rs`, `watchdog.rs`) | maintenance flag, time of the last tick | two probes, maintenance on and off, the watchdog task | stalls of the runtime; flag read before an await | a stuck runtime is reported, a healthy one never is | Probes |
| metrics (`metrics/mod.rs`) | instruments, exporters | a layer that records; a task; scrapes | a reply is recorded in four steps while scrapes collect; dropped futures | a scrape tells what was recorded; gauge counts | Metrics, Handle, Request |
| text exporter (`metrics/text_exporter/*`) | none | serialises metrics for Prometheus | names, suffixes, labels from four sources, buckets | no series twice; buckets cumulative | Metrics |
| logging to a remote end (`logging/mod.rs`, `logging/http.rs`, `kafka/mod.rs`) | channel of lines, worker thread, the appender's queue, its sender thread and buffer, the guards in the handle | `write`, `flush`, batches, ticks, cancellation, join; `Drop` of guard and appender | queues full or closed; a hung collector; the shutdown races with everything | each once, over HTTP in order and in bounded batches; nobody waits for ever for the remote end; what was accepted is sent before the end | LogPipeline, LogStream |
| application state (`state.rs`) | a registry by type | `put`, `get` under one lock | — | last `put` wins | not modelled |
| server builder (`builder/server.rs`), TLS, SPIFFE, crypto | — | start-up I/O | failure at start-up | (as `BuildFailed` in Handle) | outcome only |
| configuration, formatting of logs, tracing, telemetry, CORS, API docs, responses, utilities, macros | — | formatting, set-up, code generation | — | — | not modelled |

How they interact. The application makes a `Handle` from its configuration;
`start` builds servers from the router of `AppBuilder::build` and spawns them;
the signal task, `wait` and the stop methods speak to them through one shared
`axum_server::Handle`. Each request passes metrics, panic catcher, router,
authentication, rate limit, timeout, handler; the handler may call out through an
instrumented client and may hold connections of instrumented pools. The deadline
of the request is meant to reach the outgoing call as `X-Timeout`. The
supervisor asks the probes; the watchdog behind them runs on the runtime that it
watches. Every part logs, through a channel that all threads of the process share;
the handle keeps the guards of it, and dropping the handle ends it.

## 2. The modules

| module | what it is |
|---|---|
| `Handle` | the handle, its signal task, its servers, the supervisor, the runtime metrics task |
| `ServiceLife` | what a handle promises, in four variables; `Handle` implements it |
| `HandleProofs` | theorems about `Handle` |
| `RateLimit` | the rate limiting layer, from its configuration to concurrent requests |
| `TokenBucket` | what one quota promises; `RateLimit` implements one per key |
| `RateLimitProofs` | theorems about the two |
| `HttpClient` | calls through metrics, breaker and retries |
| `HttpClientProofs` | theorems about `HttpClient` |
| `Auth` | extractors, providers and the authentication layer, as pure operators |
| `Request` | requests through the layers of an application (extends `Auth`) |
| `RequestProofs` | theorems about `Auth` and `Request` |
| `Pool` | instrumented connection pools |
| `PoolProofs` | theorems about `Pool` |
| `Probes` | probes, maintenance mode, watchdog |
| `ProbesProofs` | theorems about `Probes` |
| `Metrics` | recording of requests, scrapes, the Prometheus text |
| `MetricsProofs` | theorems about `Metrics` |
| `LogPipeline` | log records from whoever logs to an HTTP collector or to Kafka |
| `LogStream` | what an appender promises, in order or not; `LogPipeline` implements it |
| `LogPipelineProofs` | theorems about `LogPipeline` |
| `MC*` | instances for TLC |

Definitions named `X_Something` next to a definition `X` are faulty versions of
it, the kind of bug its properties exist to catch; nothing refers to them.

### Handle

Methods take `&mut self`, so one call is in progress at a time: `call` says which
`.await` it is at. Its future may be dropped at any of them (`CancelCall`).
Everything up to the next await is one action: `StartCall`, then one
`BuildServer` or `BuildFailed` per server (binding awaits), `Started`;
`WaitCall`, `WaitFirst`, `WaitRest` per further server, `WaitDone`;
`ShutdownCall` and `GracefulShutdownCall`, then `JoinAll`; `AbortCall`,
`DropHandle`. `SignalReceived` is one turn of the signal task. Servers are
axum_server's accept loop as the handle sees it: serving, draining with or
without a deadline (read when the accept loop ends), finished, failed, panicked,
aborted. `severed` is history: some call gave up tasks (dropped, aborted, or left
early on a `JoinError`).

What the model shows and no property forbids: a call of `wait` that is dropped
detaches its servers, and `shutdown` then returns at once; a second stop signal
is swallowed, since the signal task has ended; `wait(None)` after a signal
replaces the five seconds of the signal by no deadline; `on_ready` is sent
although a stop was asked for already (`handle.rs:280`); the supervisor is not
told of a stop by signal; a failing `AppConfig::handle` leaves the runtime metrics
task behind (`handle.rs:425`). Left out: re-registering a listener whose stream
ended (`signal.rs:121-127`), because tokio's streams do not end; the supervisor
watchdog task, which reads and keeps nothing: its pings go on, whatever became of
the servers.

### RateLimit

Configuration is translated in full: `quota`, `with_override`, parsing of override
keys, which limits make a limiter (`MakesLimiter`), key extraction with proxy headers
and IPv4-mapped addresses. A request then arrives and goes through the chain: at a
keyed limiter, `CountCheck` (the `fetch_add`), with every `EVICTION_INTERVAL`-th check
`Evict` (`retain_recent`), and the check itself (`Admit` or `Reject`) are separate
steps of concurrent requests. So a thread may be held up between its count and its
eviction while others store new keys: `StoreBounded` allows `EVICTION_INTERVAL` keys
for every eviction that is due and not done (`evicting`), on top of what the last one
left and was counted since. Without that term it is violated, by a second client that
stores its key in between. The clock has `TicksPerSec` units per second. governor's
cell is external: the GCRA on one `tat` per key. A rate over 10^9 per second would
make a period zero and `Quota::with_period` panic; `RateLimitAssumption` excludes it,
and `ConfigAssumption` says what the types of the configuration and of addresses say
(rates are `NonZeroU32`). `retain_recent` is one step, though governor, which is
external, goes shard by shard: an eviction touches full buckets only, and commutes
with checks of other keys.

### HttpClient

The order of the stack is that of `middleware.rs:54-82`: the breaker is around
the retries, so a call is one verdict; a call that is dropped gives none. The
breaker (recloser), the retry loop (reqwest-retry) and the transport are external;
their parameters come from `cb.rs` and `retry.rs`. A half-open breaker admits any
number of calls; verdicts of calls that started before it tripped count in its
half-open ring. A transport error without a retry policy ends `unbooked`: neither
the errored nor the rejected counter sees it (`http_client/metrics.rs:61`).

### Auth and Request

Credentials are records of members of small sets; hashes, tokens and decodings
appear by their outcomes (`"garbled"` stands for all payloads that cannot be decoded,
which are answered alike). A response is its status, its title and its challenge:
`to_string` is the text of an error, which `UserNotFound` and `AuthFailed` share, and
`error_response` is that of the first extractor of the stack, with the `WWW-Authenticate`
header of `Challenging` ones, or the bare 500 when the realm makes no valid header
(`InvalidRealm`). `Arrive` is the path of a request through all layers up
to its handler: nothing awaits on the way, so it is one step, in the order of
`app.rs:480-518`. From then on handler, outgoing call (`SendCall`,
`CallReturns`), panic, deadline (`TimesOut`) and client (`ClientLeaves`) race.
The rate limit is a bucket of `burst` here, refilled at any time. A handler that
blocks its thread is outside: no timer helps against it.

### Pool

`lib` is the library the pool comes from: bb8, deadpool, r2d2, or another
implementation, which has the defaults of the trait and may fail to read its state
(the three libraries never do). A call waits, acquires, measures (`measure_acquire`,
with the test of the time of the last gathering under the lock), perhaps reads the
state (`get_state`) and records it (`record_state`), in separate steps of concurrent
callers. `instrument` records the state and then reads the clock (`pool.rs:50`, `54`),
which is one step, and so are the several gauges that `record_state` sets, which are
as old as that step, not as the reading of the state. The sync and async pools differ
only in that a waiting call of the latter can be dropped. `op`, `OpReady`, `OpDropped`
are operations, which as guards (`op`, `wrap`) may outlive the connection and as
futures (`wrap_async`) may not. Histograms are counted by differences (`unreturned`,
`unfinished`), so that nothing grows. Left out: cloning an `InstrumentedResource`,
which would record its use twice and which no connection of the three libraries
allows; pools that share a label overwrite each other's gauges, and only one pool is
modelled.

### Probes

`watchdog_task` is one tick: tokio's `tick()` returns when it was *due* (`last`),
the next is due an interval after it *ran* (`MissedTickBehavior::Delay`). The task
may be delayed for any time, which is how a stalled runtime looks. `ran` and
`late` are history. A readiness probe reads the flag, then awaits the
application. The task is aborted when the router and the last request are gone.

### Metrics

`Arrives`, `Answered` (or `Dropped`) and four times `Records` are what the metrics
layer records for a request: the gauge when it is called and when its reply is
ready, then counter and histograms one after the other, with nothing to hold off
a scrape. A scrape (`get_prom_metrics`) collects the instruments of the server
one by one (`Collects`; the SDK's locks and aggregation are external) and
`Replies` with the text. The text is a set of lines, as their order says nothing (each
carries what it is a sample of, so that two lines alike do not become one), built by
pure operators that carry the names of `serialize.rs`: names with units and
suffixes, labels of the point, the bucket, the scope and the resource, cumulative
buckets, `target_info`. A name is a sequence of words and separators. What the
rest of the service records (`Elsewhere`) is there once, so that all series that
`build_state` can give rise to are in the text. Left out: comments, escaping and
the format of numbers; the gRPC status label (`metrics/mod.rs:1041-1064`); version,
schema URL and attributes of a scope (`serialize.rs:272-295`), which uxum's own meter
does not set; a failing reader (answered 500); the instruments of the
pools, which have a scope and a meter of their own; digits at the start of names.

### LogPipeline

Three threads and whoever logs. `Log` is a thread that puts a line into the
channel of `tracing_appender`, drops it (`lossy`) or blocks; `Unblock` is its way
out. The worker (external, `Worker::work`) takes a line and gives it to the
appender (`WorkerWrites`), flushes when there are no more (`WorkerFlushes`), and
after the guard's shutdown flushes once more, then drops the appender
(`AppenderCancels`, `WorkerEnds`): unless that flush fails, for then it has
forgotten the shutdown. `write` and `flush` are the two appenders': a queue that is
full or closed is an error, or with `back_pressure` off is passed over in silence;
Kafka's producer may refuse a record for other reasons too (`MayRefuse`), and its
`flush` holds the worker (`worker = "flushing"`) until the queue is empty or
`flush_timeout` has passed. librdkafka (`BrokerTakes`, external) delivers the records
of its queue in any order: they have no key and no partition (`kafka/mod.rs:500`), and
idempotence is a setting. So `LogStream` claims order and batches of an HTTP
appender only (`ordered`), and of Kafka that each record is delivered once.
The sender thread is `http_logger_task` arm by arm: `Cancelled`, `PeriodicFlush`,
`ReceivesFlush` and `ReceivesMessage` are the arms of the `select!`, of which any
that is ready may be taken; an arm that sends is over with `SendEnds`. `Slurp`,
`NextChunk` and `ChunkEnds` are what follows the loop. A thread whose runtime
cannot be built is `failed`: its queue is closed. With `debug` the sender logs
about its own requests, in them and while it selects (its runtime then runs what
keeps the connections), and may block like everybody else.

Lines are alike until the appender accepts them, and are known by their numbers
from then on. `cfg` holds the settings of an instance; `answers` says whether
requests end at all, by a reply or by a timeout of the client. `sent` means that
the request with the record was made and has ended; an error is only printed
(`http.rs:326`), and so is that of a delivery to Kafka. Left out: destinations on
this machine; a channel of no lines (`LogAssumption`), over which nothing but a
rendezvous could pass; the rate at which errors are printed; that the process may
exit a second after the guard's shutdown, whatever is still under way.

## 3. What the runs show

| run | instance | what it shows |
|---|---|---|
| `handle` | 2 tasks, starts of up to 2 servers, TERM and HUP, fairness | `NoServerLost`, `StopMeansStopped`, `PanicNeverHidden`, `ImplementsLife`, `SignalEndsWait` |
| `handle_errors` | 2 tasks | *violated*: `WaitReportsServerErrors` |
| `rate_limits` | five limits, three clients, 2 ticks | `WindowBound` and its converse `RejectsOnlyExcess`, `BurstHonoured`, `NarrowLimitShieldsWide`, `StoreBounded`, `ImplementsBuckets` |
| `rate_retry` | user limit, then global | *violated*: `RetryAfterSuffices` |
| `client` | 2 calls, 1 of them retried, ring 3 and 2 | `OpenIsQuiet`, `TripsOnFailedCalls`, `GaugeTellsInFlight`, `CallsEnd`, `Recovers` |
| `request` | 2 clients, 3 handlers, 6 kinds of credentials | `OnlyPermittedRun`, `RefusalsTellNothing`, `TokensBuyRuns`, `NoOrphanCalls`, `GaugeTellsRunning`, `BoundedRequestsEnd` |
| `request_bounds`, `request_deadline` | the same | *violated*: `OutOfBoundsIs504`, `DeadlinePropagated` |
| `pool` | 2 callers, 2 connections, a clone, 4 libraries | `NoConnectionLost`, `MetersAgree`, `GatheredApart`, `GaugesFresh` |
| `probes` | 2 clients, 2 s and 7 s, 16 s | `StuckIsReported`, `NoFalseAlarm`, `MaintenanceHonoured` |
| `metrics` | 2 requests, 1 scraper, all settings off and on | `ScrapesTell`, `SeriesDistinct` |
| `logs` | 4 records, a channel of 1, a queue of 2, batches of 2, every setting | `RemoteBlocksNobody`, `ShutdownFlushes`, `ImplementsStream` |

Bounds, and why they are enough.

- `handle`: two servers of one start exit in every order, or a second `start` meets
  an axum handle that was told to stop. `MaxConns` = 1 decides whether draining is
  trivial. Graces are bounded, since an unbounded one is a deadline that never
  passes; `Grace` has both values in the proofs, which also cover all five safety
  properties for any number of tasks. Metrics are on: without them only the task
  that records them is missing.
- `rate_limits`: a bucket regains a request within the two ticks and is evicted
  when it has; `EvictionInterval` 2 has checks that evict and checks that do not;
  two clients share the bucket of an address, and one may be held up between count
  and eviction while the other goes on. `VIEW` drops the latest answers,
  which no step reads. Larger chains, bursts and times are the theorems'.
- `client`: three verdicts trip the breaker, so that two concurrent calls are
  worth less than a ring and late verdicts meet the next state; `MaxCancels` 2
  drops both calls.
- `request`: two requests suffice for every property that compares two; one
  drop; the deadline is one tick, which the handler may or may not meet.
- `pool`: `PROBE_INTERVAL` 1 and five ticks are two gatherings after the first;
  two callers race for one, and one may sit on an old one through the next.
- `probes`: the real configuration, over more than two timeouts.
- `metrics`: two requests that end alike share every series and two that do not
  share none but the gauge; their measurements lie below, on and above the two
  boundaries. One scraper at a time, again and again: scrapes only read.

- `logs`: a channel of one line is full as soon as anybody else logs; a queue of two
  fills while a request is under way, and so overflows; four records are two
  batches, or one that is full and one that is not when the shutdown comes.

Deadlock is checked but for the handle, the probes and the logs, where a dropped
handle or router, or a pipeline that was shut down, rightly does nothing more.

Fairness. `Handle`: woken tasks are polled, timers fire, and connections go away
once axum was told to stop hard; nothing is assumed of the application or of
connections otherwise. `HttpClient`: time passes, retries are resent, and an
attempt ends if a request timeout is set or the remote is up; `Recovers` names in
its premise what else it needs (a remote that stays up, and a client in use).
`Request`: time passes and deadlines fire; handlers and remote services may hang.
`LogPipeline`: threads are scheduled, a thread that waits for room goes on when
there is some, and no arm of `select!` is passed over for ever, as they are polled
in random order; requests end only in the instances whose settings say so.
`RemoteBlocksNobody` does without that last one, `ShutdownFlushes` needs it, and says
what else it needs: no `back_pressure`, and no `debug` over a channel that blocks;
without either, TLC shows how it fails. The other modules have no liveness
properties.

## 4. What is proved

All safety properties that the passing runs check hold for every value of the
constants, with the assumptions the modules state. The bounds on
time, on dropped calls and so on are constants too, of any size.

- `HandleProofs`. `Invariance`: `IInv == TypeOK /\ CallInv /\ StopInv /\
  NoServerLost` is inductive. `NoServerLost` alone is not: whether a task is
  covered by `taken \ joined` depends on what the call in progress holds
  (`CallInv`), and whether a draining task may exist at all depends on who has
  told axum (`StopInv`: whoever can be seen to have asked for a stop has told
  axum before). From it follow `TypeCorrect`, `NothingLost`, `StopIsComplete`
  (the action property `StopMeansStopped`), and `Refinement`, the safety part of
  `ImplementsLife`, action by action: each step of `Handle` launches one server,
  ends one, asks for the stop, or changes nothing that `ServiceLife` sees.
  `PanicsShow` (`PanicNeverHidden`) needs what `wait` has seen so far (`PanicInv`), and
  that a task which has exited never changes again.
- `RateLimitProofs`. `LayerImplementsBuckets`: the layer implements one ideal bucket
  per key (`TokenBucket`), with `debt` as the time until `tat`; forgetting a key
  changes nothing, since only buckets without debt are forgotten. The rest of the
  argument is about these buckets alone (`BucketSpec`: one is taken from, or time
  passes). `WindowBounded`: what a bucket let through since any of its requests is
  paid for by its debt, `(n - j + 1) * Period <= debt + (now - log[j])`.
  `OwesForRecent` is the converse: a debt is exactly, for some request `j`, what was
  let through since then, less the time passed. `OwesWhatItLet`: `debt <= n * Period`.
  So they are facts about the layer: `QuotaHolds` (`WindowBound`), `RejectsExcess`
  (`RejectsOnlyExcess`) and `BurstGranted` (`BurstHonoured`), for any configuration,
  number of clients and interleaving with evictions. The last two also need that a
  request still in the chain has no outcome (`Undecided`), so that only its own
  rejection can give it that one; and `BurstGranted` needs what the configuration
  comes to, `BucketIsDocumented`: the burst of a key's bucket is no less than the
  documented one, inheritance of overrides included, and a key that was taken from a
  request is one that an override may name (`KeyParses`). `StoreStaysBounded`
  (`StoreBounded`) is inductive with the requests that were counted and have not
  stored their key yet on the left-hand side (`StoreInv`), and with where those are
  (`CountedHere`); a count that makes an eviction due pays for its `EVICTION_INTERVAL`
  keys, and the eviction itself starts anew. `NarrowShields`
  (`NarrowLimitShieldsWide`) is inductive with the requests on their way from the one
  limiter to the other added to what the later one let through (`ThroughInv`).
- `HttpClientProofs`. `TypeCorrect`, `GaugeTold`, `OpenBreakerQuiet` and
  `TripsAsConfigured`. The gauge is kept as what it comes to in this code, the calls
  in flight and those dropped (`GaugeLeaks`, an invariant of the proof and no
  requirement; `RequestProofs` has its like). The breaker's ring is what the history
  `log` says, so that it trips on just those verdicts; what an open breaker may still
  see on the wire is bounded by traffic so far and the set of retries its calls have
  left (`StillToSend`), which shrinks by one whenever one is sent.
- `ProbesProofs`. `MaintenanceKept`, `StuckReported` and `NoAlarmInVain`: all three
  properties, for any interval and timeout. What the watchdog stored is when its tick
  was due, `late` before it ran, and the next is due an interval after it ran
  (`WatchOK`).
- `RequestProofs`. About `Auth` alone, whatever the stack of extractors, the users,
  roles and permissions: `VerdictSound` (who is let through proved to be a user, and
  all permissions are granted to one) and `RefusedAlike` (the refusal, with status,
  title and challenge, depends on the shape of the request). About the application,
  for any number of connections and any handlers: `TypeCorrect`, `PermittedRun`,
  `RefusalsAlike`, `CallsOwned`, `GaugeTold` and `TokensSpentOnRuns`. The invariant
  adds that a running call belongs to a running handler (`Owned`), and that what a
  request was answered, or that it runs, is what its verdict says (`Judged`).
- `PoolProofs`. All five properties of the pools: `PoolTypeOK`,
  `ConnectionsKept`, `MetersMatch`, `GatheringsApart` and `GaugesAreFresh`, for any
  number of callers, clones and connections, any library and any interval. The
  inductive invariant adds where a call is and what it has then (`Places`), that no
  gathering under way began later than its instance's `last_gathered_at`
  (`Clocks`: without it a new one need not be far from the others), and that an
  instance marked since the gauges were recorded is being gathered, or that failed
  (`Fresh`: what a caller reads is the mark, what it relies on is the gauges).
  The sums are related to the callers by counting sets (`MetersStep`).
- `LogPipelineProofs`. `Invariance`: over HTTP, the buffer holds the records right
  after those sent, and the queue, with its flushes taken out, those right after that,
  up to the last accepted; with Kafka, queue and sent divide the accepted records
  between them, each record once (`Split`; both are `StreamInv`); it is inductive with
  what the sender and the worker hold at each of their places (`PlaceInv`: an appender
  that is gone left nothing behind, nothing is queued once the leftovers are being
  sent, and so on). That no record is left out has to be said of the queue itself
  (`Holds`): its length says nothing, since any number of flushes lie between records.
  From it `TypeCorrect`, and `Refinement`, the safety part of `ImplementsStream`, step
  by step.

- `MetricsProofs`. About the text alone: `TextDistinct`, no series twice and no
  label twice in a line, whatever was recorded by requests or elsewhere (`Known`) and
  whatever the settings of the exporter. Two lines of one name are of one instrument
  (the names that `FinalName` makes of the instruments differ, and go on differing
  with the suffixes of a histogram), and then of one set of labels, as the keys are
  told apart after they have been sanitized. `CumulativeCounts`: the count of a bucket
  is the number of measurements up to its boundary. About scrapes: `MetricsInvariant`
  (each point is what its request recorded at that step of its way; a scrape that is
  past an instrument has seen all that was recorded in it before the scrape began,
  and nothing that has not been recorded since). From both, `EverySeriesOnce`
  (`SeriesDistinct`) and `EveryScrapeTells` (`ScrapesTell`): any number of requests,
  outcomes, boundaries and exporters. TLC checks the same invariant on the instance
  of the run `metrics`.

What the assumptions say. Sets of clients, calls and callers whose members are
counted are finite: there are only so many connections. Numbers of the configuration
are natural, and positive where the code has `NonZeroU32` or a length. `Limiters` is
a list of configured limits: `SelectSeq` is defined by recursion, and that it selects
members is all that is needed of it (TLC evaluates the assumption in each run).
`MetricsAssumption`: boundaries of histograms ascend, as the SDK requires, and are
written differently from each other and from `+Inf` (`BoundText`: how a number is
written is not modelled); and a key of the resource, or of a label that an
application adds, does not become the name of another key when it is sanitized
(`KeysAssumption`). The latter is a demand on the configuration that the code nowhere
checks: a service that breaks it is refused by Prometheus, see section 5.
Requests come in the shapes that `RequestAssumption` lists, those which the parsers
of headers can tell apart. No assumption relates the watchdog's interval to its
timeout, or one limit to another, since the code does not either.

The library's theorems of induction over data take an operator as a parameter, which
no prover here can instantiate. Two ways around it. A counterexample that is least:
that a set of naturals has a least element (`LeastNatural`) follows from the
well-foundedness of the subsets of a finite set, which the library states without
such a parameter. So the first extractor or permission that decides is found, and so
the recursive functions behind a cumulative count and a sum over a set are proved to
be the number of measurements (`CumulativeCounts`, `SumOfOnes`): take the least
place, or the smallest set, where they differ. And histories are never summed or
scanned: what a proof needs of one is kept by an invariant from step to step.

Only model-checked: every liveness property and the fairness parts of the two
refinements, `ENABLED` being out of reach too. What `SelectSeq` selects is left to
TLC: of `Limiters` the proofs assume what is said above, and of `prom` they need
nothing, being about any settings.

## 5. Where code and documentation disagree

Shown by runs:

1. `time_left` and `is_expired` are the wrong way round (`ext.rs:76-86`), so the
   deadline is not propagated (`request_deadline`).
2. The wait told to a rejected client is rounded down (`rate.rs:486`, `544`), so
   that waiting for it is not enough (`rate_retry`).
3. A duration out of bounds makes a request unbounded; the documentation says it
   is answered 504 (`timeout.rs:79`, `144`; `request_bounds`).
4. `wait` and `run` drop the errors of all servers but the first
   (`handle.rs:360`, `373`; `handle_errors`).

Met on the way, without a run:

- Liveness counts from when the last watchdog tick was due, the documentation
  from the last update (`watchdog.rs:26`): after a stall longer than
  timeout − interval the service stays "not alive" for up to another interval.
  `NoFalseAlarm` states what does hold.
- `get_timeout` of an r2d2 pool answers `Pool` for an expired wait, the trait says
  "Must return `Error::AcquireTimeout`" (`sync/mod.rs:38`, `sync/impls/r2d2.rs:22`).
- `get` of an instrumented pool fails, and drops the connection it acquired, when
  gathering fails; its documentation knows only problems of acquiring. A pool that
  leaves `get_state` at its default cannot be instrumented at all.
- The gauges of active requests and calls do not come down when a future is
  dropped (`metrics/mod.rs:956`, `http_client/metrics.rs:45`), against "The number of
  active HTTP requests." (`metrics/mod.rs:284`, `329`) and "Currently active requests."
  (`706`, `740`). The runs drop calls and requests; `GaugeTellsRunning` and
  `GaugeTellsInFlight` require the described value as long as none was dropped, and
  afterwards only that nothing active is left uncounted, so that they hold for this
  code and would hold if the gauge came down. Without their premise TLC refutes both.
- A transport error without a retry policy is counted nowhere.
- A stack of extractors answers with the reply of its first, whichever failed.
- `HandlerConfig::permissions`, "Required RBAC permissions." (`config.rs:268`), is
  never read: only the permissions of the handler macro count (`app.rs:505`).
- With two Prometheus exporters both paths are served with the settings of the
  last (`metrics/mod.rs:236-262`, `424-434`).
- `sanitize_name` leaves two underscores at the start of a name that needs no other
  change, its documentation says that they are collapsed
  (`text_exporter/serialize.rs:464-490`); units are not sanitized; labels that
  become the same name are written twice.
- The instruments of the pools are bound to the meter provider that is the global
  one when the first pool is instrumented (`uxum-pools/src/metrics.rs:14`): before
  `AppConfig::handle` that is one that records nowhere.
- "Unwritten logs will be flushed when dropping this object" (`handle.rs:86`) fails
  for the HTTP appender as it is configured by default: with `back_pressure` the last
  flush is an error when the queue is full, the worker of `tracing_appender` then
  forgets that it was told to end, and what is in the buffer stays there
  (`http.rs:217`; `ShutdownFlushes` without its premise `~cfg.back_pressure`).
- With `debug` and a channel that is not lossy, the drop of the appender may wait for
  a sender thread that waits for room in the channel (`http.rs:193`, `239`).
- A flush that did not fit into the queue is not made up for: without
  `periodic_flush` the last records of a burst stay in the buffer until the next one.
- `THREAD_COUNTER.fetch_and(1)` (`http.rs:150`) is always 0: every sender thread is
  `http-logger-0`.
- `kafka/mod.rs:153` calls `init_transactions` when `transaction` is configured, and
  nothing ever begins one.
- `HandlerConfig::throttle` is unused; the CORS layer is inside the method router,
  so that a preflight `OPTIONS` does not reach it (`app.rs:466-518`).

## 6. Plan

Done: 1 the handle and its refinement, 2 rate limits and theirs, 3 the HTTP
client, 4 authentication and the request pipeline, 5 pools, 6 probes, 7 metrics
and the text exporter, 8 logging to a remote end and its refinement;
and proofs of all their safety properties. Next, in this order:

1. The instruments of the pools in `Metrics`: a meter and a scope of their own.
2. A type invariant of `Probes`, from `ProbesOK` of its proofs.
3. What of the configuration decides behaviour (`builder/app.rs`, `config.rs`).

A composition of `Request` and `HttpClient` would be about `X-Timeout`, which is
computed once, outside the retries (`middleware.rs:34`). It waits for the code: as
long as `time_left` is the wrong way round the header is sent only when the deadline
has passed, and no handler is left by then that could send it.

## 7. Not modelled

- Start-up: resolving, binding, socket options, TLS, SPIFFE and keys; it succeeds or
  fails (`BuildFailed`), and no step of the running service changes what it set up.
- Formatting: the layouts of log records, spans, replies, OpenAPI documents.
- Set-up of third-party parts: the tokio runtime, OpenTelemetry exporters, CORS and
  buffering layers, librdkafka's settings.
- The application's registry of states: one map under one lock.
- Code generation by the macros, which runs in the compiler; what a handler declares
  is a constant of `Request`.
- `static/rapidoc-min.js`, the one JavaScript file under `src/`: a minified
  third-party viewer that `apidoc.rs` serves as it is. The program is the Rust code,
  and the map covers somewhat less than a third of that.
