--------------------------- MODULE Representatives --------------------------
(***************************************************************************)
(* The representative alerts of an incident window: greedy coverage of the *)
(* branches, fault families and times of the window, with or without       *)
(* regard to its branches.                                                 *)
(*                                                                         *)
(* An alert is [id, ts, scenario, severity, device, path, shape, fanout];  *)
(* an id of 0, a time of NoTime and a device of "" are missing.            *)
(***************************************************************************)
EXTENDS Integers, Sequences, FiniteSets, SequencesExt, Places

NoTime == -1
SelfHealing == {"transient_fault", "transient_healthy"}
NonFault == {"", "unknown", "healthy", "normal"}

Smaller(a, b) == IF a <= b THEN a ELSE b
Larger(a, b) == IF a >= b THEN a ELSE b
Elements(s) == {s[i] : i \in 1..Len(s)}
Count(s, P(_)) == Cardinality({i \in 1..Len(s) : P(s[i])})
Largest(S) == CHOOSE x \in S : \A y \in S : y <= x
Smallest(S) == CHOOSE x \in S : \A y \in S : x <= y

IsHighValue(a) == a.severity = "critical" \/ a.scenario \notin SelfHealing \cup NonFault
IsTransient(a) == a.scenario \in SelfHealing

\* Only the induced fault is of the fault family.
Family(a) == CASE a.scenario = "induced_fault" -> "fault"
               [] a.scenario \in SelfHealing -> "transient"
               [] a.scenario \in NonFault -> "normal"
               [] OTHER -> "unknown"

\* By time, then by id; alerts without a time come first.
Sorted(s) == Ordered(s, [i \in 1..Len(s) |-> <<s[i].ts, s[i].id>>])

\* The first of those with the highest key.
FirstBest(s, keys) ==
  s[CHOOSE i \in 1..Len(s) : /\ \A j \in 1..Len(s) : ~Above(keys[j], keys[i])
                             /\ \A j \in 1..(i - 1) : Above(keys[i], keys[j])]

IdsOf(s) == Picked([i \in 1..Len(s) |-> s[i].id], LAMBDA id : id # 0)
Without(s, a) == Picked(s, LAMBDA b : b.id # a.id)
Bit(test) == IF test THEN 1 ELSE 0
Given(test, x) == IF test THEN {x} ELSE {}

-----------------------------------------------------------------------------
(* Features. *)

CoverageFeatures(a) ==
  {<<"device", a.device>>, <<"path", a.path>>, <<"scenario", a.scenario>>,
   <<"time", IF a.ts = NoTime THEN NoTime ELSE a.ts \div 300>>}
  \cup Given(IsHighValue(a), <<"value">>) \cup Given(a.fanout >= 10, <<"pressure">>)
  \cup Given(a.severity = "critical", <<"severity">>)

CoverageUniverse(s) == UNION {CoverageFeatures(a) : a \in Elements(s)}

Branch(a) == <<"branch", a.device, a.path>>

\* What the alerts of the whole window, the reference, ask to be covered.
BranchSpec(reference, timeline) ==
  LET alerts == Elements(reference)
      times == {a.ts : a \in alerts}
      branches == {Branch(a) : a \in alerts} IN
  [branches |-> IF Cardinality(branches) >= 2 THEN branches ELSE {},
   families |-> {Family(a) : a \in alerts} \cap {"fault", "transient"},
   timeline |-> timeline \/ Cardinality(times) >= 3 \/ Len(reference) >= 3,
   middle |-> Cardinality(times) >= 5,
   first |-> Smallest(times), last |-> Largest(times),
   value |-> \E a \in alerts : IsHighValue(a),
   pressure |-> \E a \in alerts : a.fanout >= 10]

BranchUniverse(spec) ==
  spec.branches \cup {<<"family", f>> : f \in spec.families}
  \cup Given(spec.timeline, <<"time", "start">>)
  \cup Given(spec.timeline /\ spec.last # spec.first, <<"time", "end">>)
  \cup Given(spec.timeline /\ spec.middle, <<"time", "middle">>)
  \cup Given(spec.value, <<"value">>) \cup Given(spec.pressure, <<"pressure">>)

BranchFeatures(a, spec) ==
  Given(spec.branches # {}, Branch(a))
  \cup Given(Family(a) \in spec.families, <<"family", Family(a)>>)
  \cup Given(spec.timeline /\ a.ts = spec.first, <<"time", "start">>)
  \cup Given(spec.timeline /\ a.ts = spec.last, <<"time", "end">>)
  \cup Given(spec.timeline /\ spec.middle /\ a.ts \notin {spec.first, spec.last},
             <<"time", "middle">>)
  \cup Given(spec.value /\ IsHighValue(a), <<"value">>)
  \cup Given(spec.pressure /\ a.fanout >= 10, <<"pressure">>)

WeightedGain(features) ==
  LET of(tags) == Cardinality({f \in features : f[1] \in tags}) IN
  5 * of({"branch"}) + 4 * of({"family", "value"}) + 3 * of({"time"}) + 2 * of({"pressure"})
  + of({"device", "path", "scenario", "severity"})

-----------------------------------------------------------------------------
(* The two greedy selections. *)

TakeFeatures(s, best) ==
  [chosen |-> Append(s.chosen, best), covered |-> s.covered \cup CoverageFeatures(best),
   left |-> Without(s.left, best)]

\* One turn: the alert that covers most, until all is covered.
PickFeatures(s, universe) ==
  IF s.left = <<>> \/ universe \subseteq s.covered THEN s
  ELSE TakeFeatures(s, FirstBest(s.left, [i \in 1..Len(s.left) |-> LET a == s.left[i] IN
         <<Cardinality(CoverageFeatures(a) \ s.covered), Bit(IsHighValue(a)), a.fanout>>]))

SelectLegacy(alerts, limit) ==
  LET after[n \in 0..limit] ==
        IF n = 0 THEN [chosen |-> <<>>, covered |-> {}, left |-> alerts]
        ELSE PickFeatures(after[n - 1], CoverageUniverse(alerts)) IN
  after[limit].chosen

TakeBranch(s, best, spec) ==
  [chosen |-> Append(s.chosen, best), covered |-> s.covered \cup BranchFeatures(best, spec),
   features |-> s.features \cup CoverageFeatures(best), left |-> Without(s.left, best)]

PickBranch(s, spec) ==
  IF s.left = <<>> \/ BranchUniverse(spec) \subseteq s.covered THEN s
  ELSE TakeBranch(s, FirstBest(s.left, [i \in 1..Len(s.left) |-> LET a == s.left[i] IN
         <<WeightedGain(BranchFeatures(a, spec) \ s.covered),
           WeightedGain(CoverageFeatures(a) \ s.features),
           Bit(IsHighValue(a)), a.fanout, Bit(Family(a) = "fault")>>]), spec)

\* What is left of the limit goes to the features, for alerts that have an id.
FillUp(s, alerts, limit) ==
  IF /\ s.left # <<>> /\ Len(s.chosen) < limit
     /\ ~(CoverageUniverse(alerts) \subseteq s.features)
  THEN s.chosen \o Picked(SelectLegacy(s.left, limit - Len(s.chosen)), LAMBDA a : a.id # 0)
  ELSE s.chosen

\* The branches first.
SelectBranchPreserving(alerts, limit, spec) ==
  LET after[n \in 0..limit] ==
        IF n = 0 THEN [chosen |-> <<>>, covered |-> {}, features |-> {}, left |-> alerts]
        ELSE PickBranch(after[n - 1], spec) IN
  IF BranchUniverse(spec) = {} THEN SelectLegacy(alerts, limit)
  ELSE FillUp(after[limit], alerts, limit)

\* select_representative_alerts: candidates of high value come first.
RepresentativeIds(alerts, limit, reference, strategy, timeline) ==
  LET sorted == Sorted(alerts)
      candidates == Picked(sorted, IsHighValue)
                    \o Picked(sorted, LAMBDA a : ~IsHighValue(a)) IN
  IF alerts = <<>> THEN <<>>
  ELSE IdsOf(IF strategy = "legacy" THEN SelectLegacy(candidates, limit)
             ELSE SelectBranchPreserving(candidates, limit, BranchSpec(reference, timeline)))
=============================================================================
