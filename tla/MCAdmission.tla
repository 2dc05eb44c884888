----------------------------- MODULE MCAdmission ----------------------------
(* Small batches of alerts for every way of cutting them. *)
EXTENDS Admission

Alert(id, ts, kind) == [id |-> id, ts |-> ts] @@ kind
Kind(scenario, severity, device, path, shape, fanout) ==
  [scenario |-> scenario, severity |-> severity, device |-> device, path |-> path,
   link |-> "i1->" \o device, shape |-> shape, fanout |-> fanout]

Kinds ==
  { Kind("transient_fault", "warning", "d1", "p1", "s1", 0),
    Kind("transient_fault", "warning", "d2", "p2", "s1", 4),
    Kind("induced_fault", "warning", "d1", "p1", "s1", 0),
    Kind("node_failure", "warning", "d3", "p2", "s1", 12),
    Kind("unknown", "warning", "d1", "", "s1", 12),
    Kind("unknown", "critical", "", "", "s2", 0) }

Batch(alerts, mode) ==
  [alerts |-> alerts, mode |-> mode, gap |-> 240, longest |-> 300, scenarios |-> FALSE,
   limit |-> 2, strategy |-> "branch-preserving", budget |-> 50, floor |-> TRUE]

\* Any three alerts, together, spread out, or without a time.
Triples ==
  { Batch(<<Alert(3, t[3], k[3]), Alert(1, t[1], k[1]), Alert(2, t[2], k[2])>>, mode) :
      k \in [1..3 -> Kinds], mode \in Modes,
      t \in {<<0, 60, 120>>, <<0, 240, 480>>, <<0, 0, 700>>, <<NoTime, 100, 600>>} }

\* Longer stories for the gaps that are learnt and the soft cuts.
Story(times, kinds, mode) ==
  Batch([i \in 1..Len(times) |-> Alert(i, times[i], kinds[i])], mode)
T1 == Kind("transient_fault", "warning", "d1", "p1", "s1", 0)
T2 == Kind("transient_fault", "warning", "d2", "p2", "s1", 4)
T3 == Kind("transient_healthy", "warning", "d3", "p3", "s1", 0)
F1 == Kind("induced_fault", "warning", "d4", "p4", "s1", 12)
N1 == Kind("node_failure", "warning", "d1", "p1", "s1", 0)
Stories ==
  { Story(t, k, mode) : mode \in Modes,
      t \in {<<0, 60, 120, 480, 540, 600>>, <<0, 60, 120, 205, 330, 480>>,
             <<0, 30, 60, 90, 400, 1000>>,
            <<NoTime, 0, 200, 400, 600, 640>>},
      k \in {<<T1, T1, T1, F1, F1, T2>>, <<T1, T2, T1, F1, N1, T3>>, <<T1, T2, N1, T3, T1, T2>>} }

\* Repeated and missing ids, windows of their own scenario, alerts that are all
\* critical, other budgets.
Options ==
  UNION { {[b EXCEPT !.alerts = [i \in 1..6 |-> [@[i] EXCEPT !.id = IF i > 4 THEN 0 ELSE (i % 3) + 1]]],
           [b EXCEPT !.scenarios = TRUE], [b EXCEPT !.budget = 0], [b EXCEPT !.budget = 150],
           [b EXCEPT !.floor = FALSE, !.strategy = "legacy"],
           [b EXCEPT !.alerts = [i \in 1..6 |-> [@[i] EXCEPT !.severity = "critical"]],
                     !.strategy = "legacy"],
           [b EXCEPT !.floor = FALSE, !.gap = 45, !.longest = 90, !.limit = 3]}
          : b \in Stories }

MCCases == Triples \cup Stories \cup Options
=============================================================================
