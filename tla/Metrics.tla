------------------------------ MODULE Metrics ------------------------------
(***************************************************************************)
(* The metrics of a service: requests record into instruments while scrapes*)
(* of the Prometheus endpoints collect the instruments one by one, each on *)
(* a blocking thread, and render what they collected as text.  Aggregation *)
(* belongs to the OpenTelemetry SDK (external).                            *)
(*                                                                         *)
(* A name is the sequence of its words and of the characters between them: *)
(* "http.server.active_requests" is                                        *)
(* <<"http", ".", "server", ".", "active", "_", "requests">>.              *)
(***************************************************************************)
EXTENDS Integers, FiniteSetsExt, SequencesExt

CONSTANTS
  Request, Scraper,
  ExporterLists,     \* what may be configured: sequences of exporters
  Resource,          \* sequence of the keys of the resource's attributes
  Bounds,            \* boundaries of the histograms of the HTTP server
  Outcomes           \* how requests may end: status, extra labels, values

VARIABLES
  exporters,         \* the configured exporters
  request,           \* how far each request has come, and how it ended
  points,            \* what requests recorded
  scrape             \* what each scraper has collected

vars == <<exporters, request, points, scrape>>
-----------------------------------------------------------------------------
(* The elements of a sequence at some of its positions, in their order.    *)
Keep(s, I) ==
  LET rank == [i \in I |-> Cardinality({j \in I : j <= i})]
  IN  [k \in 1..Cardinality(I) |-> s[CHOOSE i \in I : rank[i] = k]]
-----------------------------------------------------------------------------
(* Names and units.  No name here begins with a digit.                     *)

Invalid == {".", "-", "!", " "}
NoRun(n)     == \A i \in 2..(Len(n) - 1) : ~(n[i] = "_" /\ n[i + 1] = "_")
(* An underscore right after another is left out.                          *)
Collapsed(n) == Keep(n, {i \in DOMAIN n : i = 1 \/ ~(n[i - 1] = "_" /\ n[i] = "_")})
(* A name that has nothing to replace, and no two underscores after its    *)
(* first character, stays as it is.                                        *)
sanitize_name(n) ==
  IF ToSet(n) \cap Invalid = {} /\ NoRun(n) THEN n
  ELSE Collapsed([i \in DOMAIN n |-> IF n[i] \in Invalid THEN "_" ELSE n[i]])

(* No instrument has a unit with a slash or with braces.                   *)
Expanded == [ms |-> "milliseconds", s |-> "seconds", m |-> "meters", kg |-> "kilograms",
             g |-> "grams", b |-> "bytes", By |-> "bytes"]
convert_unit(u) ==
  CASE u = ""                -> <<>>
    [] u = "1"               -> <<"ratio">>
    [] u = "%"               -> <<"percent">>
    [] u \in DOMAIN Expanded -> <<Expanded[u]>>
    [] OTHER                 -> <<u>>

(* Whether a name ends with a unit, perhaps in the middle of a word.       *)
EndsWith(n, u) ==
  \/ IsSuffix(u, n)
  \/ n # <<>> /\ <<Last(n), u>> \in {<<"milliseconds", <<"seconds">>>>}
add_unit_suffix(n, u) == IF u = <<>> \/ EndsWith(n, u) THEN n ELSE n \o <<"_">> \o u

prometheus_type(i) == IF i.kind = "up_down" THEN "gauge" ELSE i.kind

FinalName(cfg, i) ==
  LET n == add_unit_suffix(sanitize_name(i.name),
                           IF cfg.without_units THEN <<>> ELSE convert_unit(i.unit))
  IN  IF prometheus_type(i) = "counter" /\ ~cfg.without_counter_suffixes
           /\ ~IsSuffix(<<"_", "total">>, n)
      THEN n \o <<"_", "total">> ELSE n
-----------------------------------------------------------------------------
(* The instruments.                                                        *)

I(kind, unit, name) == [kind |-> kind, unit |-> unit, name |-> name]
Duration(side) == I("histogram", "s",  <<"http", ".", side, ".", "request", ".", "duration">>)
Total(side)    == I("counter",   "",   <<"http", ".", side, ".", "requests">>)
Active(side)   == I("up_down",   "",   <<"http", ".", side, ".", "active", "_", "requests">>)
Asked(side)    == I("histogram", "By", <<"http", ".", side, ".", "request", ".", "body", ".", "size">>)
Replied(side)  == I("histogram", "By", <<"http", ".", side, ".", "response", ".", "body", ".", "size">>)
Side(side)     == <<Duration(side), Total(side), Active(side), Asked(side), Replied(side)>>
ClientOnly == << I("counter", "", <<"http", ".", "client", ".", "rejected", "_", "requests">>),
                 I("counter", "", <<"http", ".", "client", ".", "errored", "_", "requests">>) >>
Spiffe  == << I("counter", "", <<"spiffe", ".", "source", ".", "errors">>),
              I("counter", "", <<"spiffe", ".", "source", ".", "updates">>),
              I("counter", "", <<"spiffe", ".", "source", ".", "reconnects">>) >>
Runtime ==
  << I("gauge", "",  <<"runtime", ".", "workers">>),
     I("gauge", "",  <<"runtime", ".", "alive", "_", "tasks">>),
     I("gauge", "",  <<"runtime", ".", "global", "_", "queue", "_", "depth">>),
     I("gauge", "s", <<"runtime", ".", "worker", ".", "total", "_", "busy", "_", "duration">>),
     I("gauge", "",  <<"runtime", ".", "worker", ".", "park", "_", "count">>),
     I("gauge", "",  <<"runtime", ".", "worker", ".", "park", "_", "unpark", "_", "count">>) >>

(* In the order in which build_state makes them.                           *)
Server == Side("server")
Instruments == ToSet(Server) \cup ToSet(Side("client")) \cup ToSet(ClientOnly)
               \cup ToSet(Spiffe) \cup ToSet(Runtime)
-----------------------------------------------------------------------------
(* Labels: sequences of keys with values.                                  *)

Label(key, value) == [key |-> key, value |-> value]
ActiveLabels == << Label(<<"http", ".", "request", ".", "method">>, "GET"),
                   Label(<<"url", ".", "scheme">>, "http"),
                   Label(<<"server", ".", "port">>, "80") >>
CustomLabels(keys) == [k \in DOMAIN keys |-> Label(keys[k], "x")]
AllLabels(o) ==
  ActiveLabels \o
  << Label(<<"http", ".", "response", ".", "status", "_", "code">>, o.status),
     Label(<<"http", ".", "route">>, "/"),
     Label(<<"uxum", ".", "handler">>, "hello") >> \o CustomLabels(o.custom)

Point(i, labels, value, by) == [instrument |-> i, labels |-> labels, value |-> value, by |-> by]

(* What the rest of the service has recorded, once each.                   *)
ClientLabels(i) ==
  << Label(<<"http", ".", "client">>, "api") >> \o SubSeq(ActiveLabels, 1, 2)
  \o (IF i \in ToSet(ClientOnly) \cup {Active("client")} THEN <<>>
      ELSE << Label(<<"http", ".", "response", ".", "status", "_", "code">>, "200") >>)
RuntimeLabels(i) ==
  IF i \in ToSet(SubSeq(Runtime, 4, 6)) THEN << Label(<<"runtime", ".", "worker">>, "0") >> ELSE <<>>
SpiffeLabels(i) ==
  IF i = Spiffe[1] THEN << Label(<<"spiffe", ".", "error", ".", "kind">>, "x") >> ELSE <<>>
Elsewhere ==
  {Point(i, ClientLabels(i), 1, "client") : i \in ToSet(Side("client") \o ClientOnly)}
  \cup {Point(i, RuntimeLabels(i), 1, "runtime") : i \in ToSet(Runtime)}
  \cup {Point(i, SpiffeLabels(i), 1, "spiffe") : i \in ToSet(Spiffe)}
-----------------------------------------------------------------------------
(* Text.  A line is a sample: its name, its labels, its value, and what it *)
(* is a sample of.  A text is a set of lines, as their order says nothing. *)

Line(of, name, labels, value) ==
  [of |-> of, name |-> name, labels |-> labels, value |-> value]
Sanitized(labels) == [k \in DOMAIN labels |-> [labels[k] EXCEPT !.key = sanitize_name(@)]]

matches(cfg, key) == cfg.selector = "all" \/ (cfg.selector = "some" /\ key \in cfg.allow_list)
ResourceLabels(Test(_)) ==
  LET keys == Keep(Resource, {k \in DOMAIN Resource : Test(Resource[k])})
  IN  Sanitized([k \in DOMAIN keys |-> Label(keys[k], "r")])
static_labels(cfg) == ResourceLabels(LAMBDA key : matches(cfg, key))
scope_labels(cfg)  == IF cfg.disable_scope_info THEN <<>>
                      ELSE << Label(<<"otel", "_", "scope", "_", "name">>, "uxum") >>

Written(cfg, labels, le) == Sanitized(labels) \o le \o scope_labels(cfg) \o static_labels(cfg)

SumOf(P) == MapThenSumSet(LAMBDA p : p.value, P)
Within(P, k) == {p \in P : /\ p.value <= Bounds[k]
                           /\ k = 1 \/ p.value > Bounds[k - 1]}

Cumulative_Not(P, k) == Cardinality(Within(P, k))
Cumulative(P, k) ==
  LET upTo[j \in 0..k] == IF j = 0 THEN 0 ELSE upTo[j - 1] + Cardinality(Within(P, j))
  IN  upTo[k]

BoundText(k) == ToString(Bounds[k])

serialize_histogram(cfg, i, labels, P) ==
  LET name  == FinalName(cfg, i)
      whole == Written(cfg, labels, <<>>)
      bucket(k, le, value) ==
        Line(<<i, labels, "bucket", k>>, name \o <<"_", "bucket">>,
             Written(cfg, labels, << Label(<<"le">>, le) >>), value)
  IN  {Line(<<i, labels, "count", 0>>, name \o <<"_", "count">>, whole, Cardinality(P)),
       Line(<<i, labels, "sum", 0>>, name \o <<"_", "sum">>, whole, SumOf(P))}
      \cup {bucket(k, BoundText(k), Cumulative(P, k)) : k \in DOMAIN Bounds}
      \cup {bucket(Len(Bounds) + 1, "+Inf", Cardinality(P))}

serialize_metric(cfg, i, P) ==
  LET lines(labels) ==
        LET Q == {p \in P : p.labels = labels} IN
        IF i.kind = "histogram" THEN serialize_histogram(cfg, i, labels, Q)
        ELSE {Line(<<i, labels, "value", 0>>, FinalName(cfg, i), Written(cfg, labels, <<>>), SumOf(Q))}
  IN  UNION {lines(p.labels) : p \in P}

TargetInfo_Twice(cfg) ==
  IF Resource = <<>> \/ cfg.disable_target_info THEN {}
  ELSE {Line(<<"target">>, <<"target", "_", "info">>,
             ResourceLabels(LAMBDA key : TRUE) \o static_labels(cfg), 1)}

(* The attributes that no other line has, and those that every line has.   *)
TargetInfo(cfg) ==
  IF Resource = <<>> \/ cfg.disable_target_info THEN {}
  ELSE {Line(<<"target">>, <<"target", "_", "info">>,
             ResourceLabels(LAMBDA key : ~matches(cfg, key)) \o static_labels(cfg), 1)}

serialize(cfg, P) ==
  (UNION {serialize_metric(cfg, i, {p \in P : p.instrument = i}) : i \in Instruments})
  \cup TargetInfo(cfg)
-----------------------------------------------------------------------------
(* What is measured, and how boundaries are written.                       *)
MeasuresAssumption ==
  /\ IsFiniteSet(Request)
  /\ \A o \in Outcomes : /\ o.status \in STRING
                         /\ o.custom \in Seq(Seq(STRING))
                         /\ {o.duration, o.request_size, o.response_size} \subseteq Nat
  /\ Bounds \in Seq(Int)
  /\ \A j, k \in DOMAIN Bounds : j < k => Bounds[j] < Bounds[k]
  /\ \A k \in DOMAIN Bounds : BoundText(k) # "+Inf"
  /\ \A j, k \in DOMAIN Bounds : BoundText(j) = BoundText(k) => j = k

(* The keys of the service itself.                                         *)
OwnKeys ==
  { <<"http", ".", "request", ".", "method">>, <<"url", ".", "scheme">>, <<"server", ".", "port">>,
    <<"http", ".", "response", ".", "status", "_", "code">>, <<"http", ".", "route">>,
    <<"uxum", ".", "handler">>, <<"http", ".", "client">>, <<"runtime", ".", "worker">>,
    <<"spiffe", ".", "error", ".", "kind">>, <<"le">>, <<"otel", "_", "scope", "_", "name">> }
CustomKeys == UNION {ToSet(o.custom) : o \in Outcomes}

(* Keys that are configured become names of their own: a service must not  *)
(* give a resource or a label a name that is taken, for nothing checks it. *)
KeysAssumption ==
  /\ Resource \in Seq(Seq(STRING)) /\ IsInjective(Resource)
  /\ \A o \in Outcomes : IsInjective(o.custom)
  /\ \A o, p \in Outcomes : ToSet(o.custom) = ToSet(p.custom) => o.custom = p.custom
  /\ ToSet(Resource) \cap CustomKeys = {}
  /\ \A a \in ToSet(Resource) \cup CustomKeys :
       /\ \A b \in OwnKeys : sanitize_name(a) # sanitize_name(b)
       /\ \A b \in ToSet(Resource) \cup CustomKeys : sanitize_name(a) = sanitize_name(b) => a = b

ASSUME MetricsAssumption == MeasuresAssumption /\ KeysAssumption
-----------------------------------------------------------------------------
build_exporter(c) ==
  [without_units            |-> ~c.with_units,
   without_counter_suffixes |-> ~c.with_counter_suffixes,
   disable_target_info      |-> ~c.with_target_info,
   disable_scope_info       |-> ~c.with_scope_info,
   selector                 |-> c.selector,
   allow_list               |-> c.included_labels]

IsPrometheus(e) == e.type = "prometheus"
Paths == {e.path : e \in {e \in ToSet(exporters) : IsPrometheus(e)}}
(* Every path is served by the exporter that is configured last.           *)
prom == build_exporter(Last(SelectSeq(exporters, IsPrometheus)))

Idle == [pc |-> "idle", next |-> 1, seen |-> {}, was |-> <<>>]

Init ==
  /\ exporters \in ExporterLists
  /\ request = [r \in Request |-> [pc |-> "new", recorded |-> 0, outcome |-> <<>>]]
  /\ points = {}
  /\ scrape = [s \in Scraper |-> Idle]

Arrives(r) ==
  /\ request[r].pc = "new"
  /\ request' = [request EXCEPT ![r].pc = "active"]
  /\ points' = points \cup {Point(Active("server"), ActiveLabels, 1, r)}
  /\ UNCHANGED <<exporters, scrape>>

(* The reply is ready (the service inside does not fail).                  *)
Answered(r) ==
  /\ request[r].pc = "active"
  /\ \E o \in Outcomes :
       request' = [request EXCEPT ![r].pc = "answered", ![r].outcome = o]
  /\ points' = points \cup {Point(Active("server"), ActiveLabels, -1, r)}
  /\ UNCHANGED <<exporters, scrape>>

(* The future is dropped before the reply is ready.                        *)
Dropped(r) ==
  /\ request[r].pc = "active"
  /\ request' = [request EXCEPT ![r].pc = "dropped"]
  /\ UNCHANGED <<exporters, points, scrape>>

(* What a request records when it is answered, in this order, with nothing *)
(* to keep a scrape out between two of them.                               *)
Recording(o) == << <<Total("server"), 1>>, <<Duration("server"), o.duration>>,
                   <<Asked("server"), o.request_size>>, <<Replied("server"), o.response_size>> >>

Records(r) ==
  LET o == request[r].outcome   n == request[r].recorded + 1 IN
  /\ request[r].pc = "answered" /\ n <= 4
  /\ request' = [request EXCEPT ![r].recorded = n]
  /\ points' = points \cup {Point(Recording(o)[n][1], AllLabels(o), Recording(o)[n][2], r)}
  /\ UNCHANGED <<exporters, scrape>>

(* A request for one of the paths.                                         *)
get_prom_metrics(s, path) ==
  /\ scrape[s].pc = "idle" /\ path \in Paths
  /\ scrape' = [scrape EXCEPT ![s] =
       [pc |-> "collecting", next |-> 1, seen |-> {},
        was |-> [r \in Request |-> request[r].recorded]]]
  /\ UNCHANGED <<exporters, request, points>>

(* External: the SDK goes through the instruments in the order in which    *)
(* they were made, and locks one at a time.                                *)
Collects(s) ==
  LET n == scrape[s].next IN
  /\ scrape[s].pc = "collecting"
  /\ scrape' = [scrape EXCEPT
       ![s].next = n + 1,
       ![s].seen = @ \cup {p \in points : p.instrument = Server[n]},
       ![s].pc = IF n = Len(Server) THEN "done" ELSE @]
  /\ UNCHANGED <<exporters, request, points>>

(* The text is rendered and sent.                                          *)
Replies(s) ==
  /\ scrape[s].pc = "done"
  /\ scrape' = [scrape EXCEPT ![s] = Idle]
  /\ UNCHANGED <<exporters, request, points>>

Next ==
  \/ \E r \in Request : Arrives(r) \/ Answered(r) \/ Dropped(r) \/ Records(r)
  \/ \E s \in Scraper, path \in Paths : get_prom_metrics(s, path)
  \/ \E s \in Scraper : Collects(s) \/ Replies(s)

Spec == Init /\ [][Next]_vars
-----------------------------------------------------------------------------
(* What a scrape that has collected all instruments is sent.               *)
export(s) == serialize(prom, scrape[s].seen \cup Elsewhere)
Done(s) == scrape[s].pc = "done"

(* What the text says of a series; 0 if it does not say anything.          *)
Shown(text, name, labels) ==
  LET found == {x \in text : x.name = name /\ x.labels = labels}
  IN  IF found = {} THEN 0 ELSE (CHOOSE x \in found : TRUE).value

RecordedBefore(s, n) == {r \in Request : scrape[s].was[r] >= n}
RecordedSince(n)     == {r \in Request : request[r].recorded >= n}
Labelled(R, o)       == {r \in R : AllLabels(request[r].outcome) = AllLabels(o)}
Tells(s) ==
  LET text == serialize(prom, scrape[s].seen) IN
  \A o \in Outcomes :
    LET labels(le) == Written(prom, AllLabels(o), le)
        Between(n, P(_), v) ==
          /\ Cardinality({r \in Labelled(RecordedBefore(s, n), o) : P(r)}) <= v
          /\ v <= Cardinality({r \in Labelled(RecordedSince(n), o) : P(r)})
    IN /\ Between(1, LAMBDA r : TRUE, Shown(text, FinalName(prom, Total("server")), labels(<<>>)))
       /\ \A n \in 2..4 :
            LET i == Recording(o)[n][1]
                shown(suffix, le) == Shown(text, FinalName(prom, i) \o <<"_", suffix>>, labels(le))
            IN /\ Between(n, LAMBDA r : TRUE, shown("count", <<>>))
               /\ \A k \in DOMAIN Bounds :
                    Between(n, LAMBDA r : Recording(request[r].outcome)[n][2] <= Bounds[k],
                            shown("bucket", << Label(<<"le">>, BoundText(k)) >>))

(* However requests and scrapes interleave, a scrape counts every request  *)
(* that was recorded before it began, none that has not been recorded      *)
(* since, and each within all the buckets whose bound it does not exceed.  *)
ScrapesTell == \A s \in Scraper : Done(s) => Tells(s)

Distinct(text) ==
  /\ \A x, y \in text : x.name = y.name /\ ToSet(x.labels) = ToSet(y.labels) => x = y
  /\ \A x \in text : \A j, k \in DOMAIN x.labels : x.labels[j].key = x.labels[k].key => j = k

(* No text has two lines for one series, or a label twice in a line: what  *)
(* Prometheus would refuse as a whole.                                     *)
SeriesDistinct == \A s \in Scraper : Done(s) => Distinct(export(s))
=============================================================================
