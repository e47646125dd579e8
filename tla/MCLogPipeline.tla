---------------------------- MODULE MCLogPipeline ----------------------------
(***************************************************************************)
(* Instances of LogPipeline for TLC: every setting of either appender.     *)
(***************************************************************************)
EXTENDS LogPipeline

HttpConfigs == {c \in ConfigType : c.dest = "http"}
KafkaConfigs ==
  {c \in ConfigType : /\ c.dest = "kafka" /\ c.back_pressure
                      /\ ~c.ignore_flush /\ ~c.periodic_flush /\ ~c.debug}
AllConfigs == HttpConfigs \cup KafkaConfigs
=============================================================================
