----------------------------- MODULE ServingGate ----------------------------
(***************************************************************************)
(* The two decisions an evidence bundle carries about one alert: the gate  *)
(* of its topology subgraph, which decides whether a model is asked, and   *)
(* the self-healing policy, which the context views show beside it.  They  *)
(* read the same alert with ladders of their own.                          *)
(*                                                                         *)
(* A context is [similar, size, neighbors, depth]: recent similar alerts,  *)
(* cluster size (0 outside clusters), and what the topology knows.         *)
(***************************************************************************)
EXTENDS Representatives

HighValueScenarios ==
  {"induced_fault", "single_link_failure", "multiple_link_failure", "node_failure",
   "multiple_nodes_failures", "single_node_failure", "routing_misconfiguration",
   "misconfiguration", "line_card_failure", "icmp_blocked_firewall", "snmp_agent_failure"}

\* _root_score in hundredths.
RootScore(a, c) ==
  LET score == 35 + 18 * Bit(a.severity = "critical")
                  + 25 * Bit(a.scenario \in HighValueScenarios)
                  - 22 * Bit(a.scenario \in SelfHealing)
                  + 18 * Bit(c.size >= 3) + 8 * Bit(c.similar > 0)
                  + 8 * Bit(c.neighbors) + 6 * Bit(c.depth) IN
  Smaller(Larger(score, 5), 99)

\* _should_invoke_llm
ShouldInvoke(a, c) ==
  /\ ~(a.scenario \in SelfHealing /\ Larger(1, c.size) < 3)
  /\ RootScore(a, c) >= 65 \/ (a.severity = "critical" /\ a.scenario \notin SelfHealing)

NoiseNodes(a, c) ==
  Given(c.similar = 0 /\ c.size <= 1, "single slice")
  \cup Given(a.scenario \in SelfHealing, "self healing")
  \cup Given(~c.neighbors, "missing neighbor")

\* What the policy is told of a window: of none, of a cluster, or of a real one.
NoWindow == [count |-> 1, devices |-> 1, fanout |-> 0, label |-> "", recurrence |-> FALSE,
             topology |-> FALSE, spread |-> FALSE]
ClusterAsWindow(c) ==
  IF c.size = 0 THEN NoWindow
  ELSE [NoWindow EXCEPT !.count = c.size, !.recurrence = c.size >= 3]

Recurring(similar, window) == similar >= 3 \/ window.count >= 3 \/ window.recurrence
Pressed(a, neighbors, window) ==
  \/ window.topology \/ neighbors
  \/ (IF window.fanout # 0 THEN window.fanout ELSE a.fanout) >= 10

TransientDecision(a, similar, neighbors, window) ==
  IF window.label = "mixed_fault_and_transient" THEN "external_fault_context_window"
  ELSE IF window.spread \/ window.devices >= 2 THEN "external_multi_device_spread"
  ELSE IF Recurring(similar, window) THEN "external_repeated_transient"
  ELSE IF Pressed(a, neighbors, window) THEN "local_transient_with_pressure"
  ELSE "local_single_transient"

\* Mutant of Decision: critical alerts have no rung of their own.
DecisionUncritical(a, similar, neighbors, window) ==
  IF a.scenario \in HighValueScenarios THEN "external_induced_fault"
  ELSE IF a.scenario \in SelfHealing THEN TransientDecision(a, similar, neighbors, window)
  ELSE IF Recurring(similar, window) \/ Pressed(a, neighbors, window)
  THEN "external_unknown_with_pressure" ELSE "local_low_evidence"

\* assess_self_healing_decision
Decision(a, similar, neighbors, window) ==
  IF a.severity = "critical" THEN "external_critical_alert"
  ELSE IF a.scenario \in HighValueScenarios THEN "external_induced_fault"
  ELSE IF a.scenario \in SelfHealing THEN TransientDecision(a, similar, neighbors, window)
  ELSE IF Recurring(similar, window) \/ Pressed(a, neighbors, window)
  THEN "external_unknown_with_pressure" ELSE "local_low_evidence"

AsksOutside(decision) ==
  decision \in {"external_critical_alert", "external_induced_fault",
                "external_fault_context_window", "external_multi_device_spread",
                "external_repeated_transient", "external_unknown_with_pressure"}

\* llm_invocation_gate of extract_topology_aware_subgraph
Gate(a, c) ==
  [invoke |-> ShouldInvoke(a, c), score |-> RootScore(a, c), noise |-> NoiseNodes(a, c),
   policy |-> Decision(a, c.similar, c.neighbors, ClusterAsWindow(c))]
=============================================================================
