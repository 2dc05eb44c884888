--------------------------- MODULE IncidentWindows --------------------------
(***************************************************************************)
(* Incident windows: where a stream of alerts is cut, what a window says   *)
(* of its alerts, the risk it carries, and the two ladders of decisions    *)
(* that must agree: the label of a window and the policy for one alert.    *)
(*                                                                         *)
(* Times are whole seconds.  Medians, quartiles and tails are exact        *)
(* fractions here: Quantile is in twentieths of a second.                  *)
(***************************************************************************)
EXTENDS Representatives

\* n / d to the nearest whole number, a half to the even one.
Rounded(n, d) ==
  LET q == n \div d  r == 2 * (n % d) IN
  IF r > d \/ (r = d /\ q % 2 = 1) THEN q + 1 ELSE q

\* The quantile q / 20 of whole numbers, times 20; half the way lies between two.
Quantile(values, q) ==
  LET s == Ordered(values, [i \in 1..Len(values) |-> <<values[i]>>])
      at == q * (Len(s) - 1)
      low == 1 + at \div 20
      high == Smaller(low + 1, Len(s)) IN
  IF s = <<>> THEN 0 ELSE s[low] * (20 - (at % 20)) + s[high] * (at % 20)

\* The median distance from the median, times 400.
Spread(values) ==
  LET median == Quantile(values, 10)
      from(v) == IF 20 * v >= median THEN 20 * v - median ELSE median - 20 * v IN
  Quantile([i \in 1..Len(values) |-> from(values[i])], 10)

LeastGap(default) == Larger(60, default \div 4)

ObservedGaps(alerts) ==
  LET timed == Picked(alerts, LAMBDA a : a.ts # NoTime) IN
  [i \in 1..(Len(timed) - 1) |-> timed[i + 1].ts - timed[i].ts]

\* _estimate_group_idle_gap_sec, in four hundredths until it is rounded.
GroupIdleGap(gaps, default, longest) ==
  LET positive == Picked(gaps, LAMBDA g : g > 0)
      q(n) == 20 * Quantile(positive, n)
      tail == Larger(q(15) + Larger(q(15) - q(5), 400), q(10) + 3 * Larger(Spread(positive), 400))
      candidate == Smaller(Larger(q(18), tail), 400 * longest) IN
  IF Len(positive) < 3 THEN Larger(LeastGap(default), default)
  ELSE Rounded(Larger(400 * LeastGap(default), candidate), 400)

\* _dynamic_idle_gap_sec: the last three gaps of the window tell the next.
DynamicIdleGap(gaps, idle, default, longest) ==
  LET tail == SubSeq(gaps, Larger(1, Len(gaps) - 2), Len(gaps))
      median == 20 * Quantile(tail, 10)
      local == Larger(3 * median, median + 3 * Larger(Spread(tail), 400))
      candidate == Smaller(Smaller(400 * idle, local), 400 * longest) IN
  IF gaps = <<>> THEN idle ELSE Rounded(Larger(400 * LeastGap(default), candidate), 400)

-----------------------------------------------------------------------------
(* Where a window is cut for the sake of admission. *)

Weights ==
  [topology |-> [gap |-> 1, device |-> 2, path |-> 1, fanout |-> 1, family |-> 1,
                 novelty |-> 0, churn |-> 0, fault |-> 1],
   evidence |-> [gap |-> 1, device |-> 0, path |-> 1, fanout |-> 0, family |-> 2,
                 novelty |-> 2, churn |-> 1, fault |-> 2],
   hybrid |-> [gap |-> 1, device |-> 1, path |-> 1, fanout |-> 1, family |-> 2,
               novelty |-> 1, churn |-> 1, fault |-> 2]]

DownstreamTier(a) == CASE a.fanout >= 10 -> "high" [] a.fanout \in 3..9 -> "medium"
                       [] OTHER -> "low"

\* Windows name the link of an alert that has no path signature; the choice of
\* representatives does not.
PathOf(a) == IF a.path # "" THEN a.path ELSE a.link

BoundaryFeatures(a) ==
  {<<"device", a.device>>, <<"path", PathOf(a)>>, <<"family", Family(a)>>,
   <<"fanout", DownstreamTier(a)>>} \cup Given(IsHighValue(a), <<"value">>)

RepresentativeChurn(current, next) ==
  LET of(s) == Elements(RepresentativeIds(s, 2, s, "legacy", FALSE))
      before == of(current)  after == of(Append(current, next)) IN
  Cardinality((before \ after) \cup (after \ before))

\* _admission_boundary_score: the signals that the next alert opens another story.
BoundarySignals(current, next, gap, idle, dynamic, default) ==
  LET alerts == Elements(current)
      families == {Family(a) : a \in alerts} \ {"unknown", "normal"}
      known == UNION {BoundaryFeatures(a) : a \in alerts}
      soft == Larger(60, Rounded(35 * Smaller(Smaller(idle, dynamic), Larger(default, 60)), 100)) IN
  Given(gap >= soft, "gap")
  \cup Given(next.device \notin {""} \cup {a.device : a \in alerts}, "device")
  \cup Given(PathOf(next) \notin {""} \cup {PathOf(a) : a \in alerts}, "path")
  \cup Given(DownstreamTier(next) \notin {DownstreamTier(a) : a \in alerts}, "fanout")
  \cup Given(families # {} /\ Family(next) \notin families \cup {"unknown", "normal"}, "family")
  \cup Given(Cardinality(BoundaryFeatures(next) \ known) >= 2, "novelty")
  \cup Given(RepresentativeChurn(current, next) >= 2, "churn")
  \cup Given(/\ Family(next) = "fault" /\ Len(current) >= 2
             /\ \A a \in alerts : Family(a) = "transient", "fault")

Score(signals, strategy) == FoldFunctionOnSet(+, 0, Weights[strategy], signals)

SoftSplit(current, gap, duration, idle, dynamic, signals, strategy) ==
  LET score == Score(signals, strategy)
      threshold == IF strategy = "topology" THEN 4 ELSE 5
      soft == Larger(60, Rounded(35 * Smaller(idle, dynamic), 100)) IN
  /\ Len(current) >= 2 /\ signals # {}
  /\ \/ gap >= soft /\ score >= threshold
     \/ "fault" \in signals /\ gap >= 60 /\ score >= threshold
     \/ duration >= Larger(idle, dynamic) /\ score >= threshold + 1

-----------------------------------------------------------------------------
(* The window. *)

WindowLabel(high, healing, total, recurrence, topology, spread) ==
  CASE high > 0 /\ healing > 0 -> "mixed_fault_and_transient"
    [] high > 0 /\ healing = 0 -> "external_induced_fault"
    [] high = 0 /\ healing > 0 /\ spread -> "external_multi_device_spread"
    [] high = 0 /\ healing > 0 /\ ~spread /\ recurrence -> "external_repeated_transient"
    [] high = 0 /\ healing > 0 /\ ~spread /\ ~recurrence /\ topology ->
         "local_transient_with_pressure"
    [] high = 0 /\ healing = total /\ ~recurrence /\ ~topology -> "local_single_transient"
    [] high = 0 /\ healing = 0 /\ (recurrence \/ topology) -> "external_unknown_with_pressure"
    [] OTHER -> "local_low_evidence"

ExternalLabels == {"external_induced_fault", "mixed_fault_and_transient",
                   "external_multi_device_spread", "external_repeated_transient",
                   "external_unknown_with_pressure"}

QualityProxyLabel(high, healing, total, pressure) ==
  CASE high > 0 /\ healing > 0 -> "mixed_high_value_window"
    [] high > 0 /\ healing = 0 -> "high_value_window"
    [] high = 0 /\ healing = total /\ pressure > 0 -> "pressure_self_healing_window"
    [] high = 0 /\ healing = total /\ pressure = 0 -> "low_value_self_healing_window"
    [] high = 0 /\ healing # total /\ pressure > 0 -> "unknown_pressure_window"
    [] OTHER -> "low_evidence_window"

\* Mutant of CarrierIds: only the representatives carry the evidence.
CarrierIdsBare(representatives, high) == Elements(representatives)

\* The alerts that carry the evidence of a window whose branches matter.
CarrierIds(representatives, high) == Elements(representatives) \cup Elements(IdsOf(high))

\* Branches matter when a window is for a model and its alerts could differ.
BranchSensitive(alerts, label, strategy) ==
  /\ strategy # "legacy" /\ label \in ExternalLabels
  /\ \/ label \in {"mixed_fault_and_transient", "external_multi_device_spread",
                   "external_repeated_transient"}
     \/ Cardinality({a.device : a \in Elements(alerts)} \ {""}) >= 2
     \/ Cardinality({PathOf(a) : a \in Elements(alerts)} \ {""}) >= 2
     \/ Len(alerts) >= 3

\* What a model is shown of a window: the alerts that carry its evidence.
Surface(alerts, main, high, representatives, sensitive) ==
  LET carriers == IF sensitive THEN CarrierIds(representatives, high)
                  ELSE Elements(representatives)
      found == Picked(Sorted(alerts), LAMBDA a : a.id \in carriers) IN
  IF found = <<>> THEN main ELSE found

\* The surface as it is listed, and the alerts a model is not asked about.
Listed(alerts, label, ids, representatives, chosen) ==
  LET devices(t) == {a.device : a \in Elements(t)} \ {""} IN
  [ids |-> SubSeq(ids, 1, Smaller(12, Len(ids))),
   representatives |-> SubSeq(representatives, 1, Smaller(6, Len(representatives))),
   devices |-> IF devices(chosen) # {} THEN devices(chosen) ELSE devices(alerts),
   excluded |-> CASE label \notin ExternalLabels -> Elements(IdsOf(alerts))
                  [] label = "mixed_fault_and_transient" ->
                       Elements(IdsOf(Picked(alerts, IsTransient))) \ Elements(IdsOf(chosen))
                  [] OTHER -> {}]

TargetsFrom(alerts, label, main, high, representatives, sensitive) ==
  LET chosen == Surface(alerts, main, high, representatives, sensitive) IN
  Listed(alerts, label, IdsOf(IF sensitive THEN chosen ELSE main), representatives, chosen)

\* _window_evidence_targets
EvidenceTargets(alerts, label, limit, strategy) ==
  LET high == Picked(alerts, IsHighValue)
      main == IF high # <<>> THEN high ELSE alerts
      sensitive == BranchSensitive(alerts, label, strategy) IN
  TargetsFrom(alerts, label, main, high,
    RepresentativeIds(IF sensitive THEN alerts ELSE main, Larger(1, limit), alerts, strategy,
                      Len(alerts) > 1), sensitive)

HighRiskLabels == {"external_induced_fault", "mixed_fault_and_transient",
                   "external_multi_device_spread"}
MediumRiskLabels == {"external_repeated_transient", "external_unknown_with_pressure",
                     "local_transient_with_pressure"}

FourOf(S) ==
  IF Cardinality(S) <= 4 THEN S ELSE CHOOSE T \in SUBSET S : Cardinality(T) = 4

\* extract_window_risk_atoms: [key -> weight].  Windows share scopes; an
\* occurrence is the window's own.
RiskAtoms(w) ==
  LET scope(kind, S) == {<<kind, x>> : x \in FourOf(S)}
      keys ==
        Given(w.high > 0, <<"fault">>)
        \cup Given(w.label = "mixed_fault_and_transient", <<"mixed">>)
        \cup Given(w.spread, <<"spread">>) \cup Given(w.recurrence, <<"recurrence">>)
        \cup Given(w.topology, <<"topology">>)
        \cup Given(Cardinality(w.paths) >= 2, <<"multi path">>)
        \cup Given(w.fanout >= 10, <<"fanout">>)
        \cup Given(w.devices = {}, <<"no device">>) \cup Given(w.paths = {}, <<"no path">>)
        \cup Given(Len(w.alerts) <= 1, <<"no timeline">>)
        \cup scope("device", w.devices) \cup scope("shape", w.shapes)
        \cup Given(w.high > 0 \/ w.label \in HighRiskLabels, <<"occurrence", w.id>>)
        \cup Given(/\ w.high = 0 /\ w.label \notin HighRiskLabels
                   /\ w.recurrence \/ w.topology, <<"pressure", w.id>>) IN
  [k \in keys |->
     CASE k[1] = "fault" -> 10 [] k[1] = "mixed" -> 7 [] k[1] = "spread" -> 6
       [] k[1] \in {"recurrence", "topology"} -> 4 [] k[1] = "occurrence" -> 3
       [] k[1] \in {"multi path", "fanout", "no device", "no path"} -> 2 [] OTHER -> 1]

\* The weight of the atoms in S: each atom counts as often as it weighs.
Weight(atoms, S) == Cardinality(UNION {{k} \X (1..atoms[k]) : k \in S})

TierOf(score, label) ==
  IF label \in HighRiskLabels \/ score >= 12 THEN "high"
  ELSE IF label \in MediumRiskLabels \/ score >= 3 THEN "medium" ELSE "low"

\* score_window_risk: without high value, self healing takes 2 off.
Risk(w) ==
  LET atoms == RiskAtoms(w)
      score == Larger(0, Weight(atoms, DOMAIN atoms) - 2 * Bit(w.healing > 0 /\ w.high = 0)) IN
  [atoms |-> atoms, score |-> score, tier |-> TierOf(score, w.label)]

\* _build_window up to the risk: id stands for the hash of bucket, key and alerts.
Described(id, alerts, gap, longest, limit, strategy) ==
  LET times == {a.ts : a \in Elements(alerts)} \ {NoTime}
      devices == {a.device : a \in Elements(alerts)} \ {""}
      paths == {PathOf(a) : a \in Elements(alerts)} \ {""}
      fanout == Largest({a.fanout : a \in Elements(alerts)})
      high == Count(alerts, IsHighValue)  healing == Count(alerts, IsTransient)
      recurrence == Len(alerts) >= 3  spread == Cardinality(devices) >= 2
      topology == spread \/ Cardinality(paths) >= 2 \/ fanout >= 10
      label == WindowLabel(high, healing, Len(alerts), recurrence, topology, spread)
      pressure == Bit(recurrence) + Bit(topology) + Bit(spread) + Bit(fanout >= 10) IN
  [id |-> id, alerts |-> alerts, ids |-> IdsOf(alerts), gap |-> gap,
   longest |-> longest, start |-> IF times = {} THEN id[1] * gap ELSE Smallest(times),
   devices |-> devices, paths |-> paths,
   shapes |-> {a.shape : a \in Elements(alerts)} \ {""}, fanout |-> fanout,
   high |-> high, healing |-> healing, recurrence |-> recurrence, spread |-> spread,
   topology |-> topology, label |-> label, pressure |-> pressure,
   action |-> IF label \in ExternalLabels THEN "external" ELSE "local",
   proxy |-> QualityProxyLabel(high, healing, Len(alerts), pressure),
   targets |-> EvidenceTargets(alerts, label, limit, strategy)]

\* The fields of r, and those of w besides.
Joined(r, w) == [f \in DOMAIN r \cup DOMAIN w |-> IF f \in DOMAIN r THEN r[f] ELSE w[f]]

BuildWindow(id, alerts, gap, longest, limit, strategy) ==
  LET w == Described(id, alerts, gap, longest, limit, strategy) IN Joined(Risk(w), w)

\* build_weak_window_label
WeakLabel(w) ==
  LET invoke == w.high > 0 \/ w.label \in ExternalLabels
      pressure == w.topology \/ w.recurrence \/ w.spread
      carried == w.targets.representatives # <<>> \/ w.targets.ids # <<>> IN
  [invoke |-> invoke, localSufficient |-> ~invoke /\ w.tier = "low",
   safeSkip |-> ~invoke /\ w.label # "local_transient_with_pressure",
   sufficient |-> carried,
   review |-> \/ w.label \in {"local_transient_with_pressure", "external_unknown_with_pressure"}
              \/ (pressure /\ ~invoke) \/ ~carried]
=============================================================================
