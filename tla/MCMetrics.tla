----------------------------- MODULE MCMetrics -----------------------------
(***************************************************************************)
(* An instance of Metrics: two requests with and without a label of their  *)
(* own, one scraper at a time, and exporters with the settings on or off.  *)
(***************************************************************************)
EXTENDS Metrics

CONSTANTS r1, r2, s1

TwoRequests == {r1, r2}
OneScraper  == {s1}
RequestSymmetry == Permutations(TwoRequests)

Prometheus(path, on, selector, keys) ==
  [type |-> "prometheus", path |-> path, with_units |-> on, with_counter_suffixes |-> on,
   with_target_info |-> TRUE, with_scope_info |-> on, selector |-> selector,
   included_labels |-> keys]
Pushed == [type |-> "otlp"]

Name    == <<"service", ".", "name">>
Version == <<"service", ".", "version">>
NameAndVersion == <<Name, Version>>

MCExporterLists ==
  { << Prometheus("/metrics", TRUE, "some", {Version}) >>,
    << Prometheus("/none", TRUE, "none", {}), Pushed, Prometheus("/all", FALSE, "all", {}) >> }
TwoBounds == <<1, 3>>
MCOutcomes ==
  { [status |-> "200", custom |-> << <<"tenant">> >>, duration |-> 1, request_size |-> 2, response_size |-> 4],
    [status |-> "500", custom |-> <<>>, duration |-> 4, request_size |-> 0, response_size |-> 3] }
=============================================================================
