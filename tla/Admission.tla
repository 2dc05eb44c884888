------------------------------ MODULE Admission -----------------------------
(***************************************************************************)
(* Which alerts reach an external model: a batch of alerts is cut into     *)
(* incident windows, alert by alert, and a budget of calls is spent on the *)
(* windows, those of high value first and then by the risk that is not yet *)
(* covered, per call.                                                      *)
(***************************************************************************)
EXTENDS IncidentWindows, ServingGate

CONSTANT Cases  \* batches that may come

AlertRecords ==
  [id : Nat, ts : Nat \cup {NoTime}, scenario : STRING, severity : STRING, device : STRING,
   path : STRING, link : STRING, shape : STRING, fanout : Nat]
Modes == {"fixed", "session", "adaptive", "topology", "evidence", "hybrid"}

ASSUME CasesAssumption ==
  Cases \subseteq [alerts : Seq(AlertRecords), mode : Modes, gap : Nat \ {0}, longest : Nat,
                   scenarios : BOOLEAN, limit : Nat, strategy : STRING, budget : Nat,
                   floor : BOOLEAN]

VARIABLES
  batch,     \* the case that runs
  groups,    \* groups of alerts still to be cut: [key, idle, left]
  current,   \* alerts of the open window
  start,     \* its start_ts
  last,      \* last_ts
  gaps,      \* current_gaps
  windows,
  phase,     \* "cut", "floor", "spend" or "done"
  selected,  \* windows selected, in order
  covered,   \* risk atoms covered
  used       \* calls

walkVars == <<groups, current, start, last, gaps, windows>>
budgetVars == <<selected, covered, used>>
admissionVars == <<batch, walkVars, phase, budgetVars>>

-----------------------------------------------------------------------------
(* Groups. *)

Longest == Larger(batch.gap, batch.longest)

BucketOf(b, a) ==
  IF b.mode = "fixed" /\ a.ts # NoTime THEN a.ts \div b.gap ELSE 0
GroupKey(b, a) == <<BucketOf(b, a), IF b.scenarios THEN a.scenario ELSE "*", a.shape>>

\* Groups of one mode share a gap; an adaptive one learns it from its alerts.
GroupOf(b, key) ==
  LET alerts == Picked(Sorted(b.alerts), LAMBDA a : GroupKey(b, a) = key) IN
  [key |-> key, left |-> alerts,
   idle |-> IF b.mode \in {"fixed", "session"} THEN b.gap
            ELSE GroupIdleGap(ObservedGaps(alerts), b.gap, Larger(b.gap, b.longest))]

GroupsOf(b) ==
  LET keys == SetToSeq({GroupKey(b, a) : a \in Elements(b.alerts)}) IN
  [i \in 1..Len(keys) |-> GroupOf(b, keys[i])]

-----------------------------------------------------------------------------
(* Cutting. *)

\* An alert without a time takes that of the alert before it.
TimeFor(a) == IF a.ts # NoTime THEN a.ts ELSE IF last # NoTime THEN last ELSE start

\* The window of an alert whose group began without a time has no start, and no
\* limit to its duration.
Splits(a, ts) ==
  LET idle == groups[1].idle
      gap == ts - last
      duration == IF start = NoTime THEN 0 ELSE ts - start
      dynamic == IF batch.mode = "session" THEN idle
                 ELSE DynamicIdleGap(gaps, idle, batch.gap, Longest)
      signals == BoundarySignals(current, a, gap, idle, dynamic, batch.gap) IN
  /\ batch.mode # "fixed" /\ current # <<>> /\ ts # NoTime /\ last # NoTime
  /\ \/ gap > dynamic \/ duration > Larger(idle, Longest)
     \/ /\ batch.mode \in DOMAIN Weights
        /\ SoftSplit(current, gap, duration, idle, dynamic, signals, batch.mode)

\* The window that is open goes to the windows.
Closed ==
  Append(windows, BuildWindow(<<IF batch.mode = "fixed" THEN groups[1].key[1] ELSE Len(windows),
                                groups[1].key>>,
                              current, groups[1].idle, Larger(groups[1].idle, Longest),
                              batch.limit, batch.strategy))

TakeAlert == groups' = [groups EXCEPT ![1].left = Tail(@)]

\* The next alert of the group joins the open window or opens one.
JoinWindow ==
  /\ phase = "cut" /\ groups # <<>> /\ groups[1].left # <<>>
  /\ LET a == Head(groups[1].left)  ts == TimeFor(a) IN
     /\ ~Splits(a, ts)
     /\ current' = Append(current, a)
     /\ start' = IF current = <<>> THEN ts ELSE start
     /\ gaps' = IF current # <<>> /\ ts # NoTime /\ last # NoTime
                THEN Append(gaps, ts - last) ELSE gaps
     /\ last' = ts
  /\ TakeAlert
  /\ UNCHANGED <<batch, windows, phase, budgetVars>>

\* Mutant of SplitWindow: the start of the window before stays.
SplitWindowKeepsStart ==
  /\ phase = "cut" /\ groups # <<>> /\ groups[1].left # <<>>
  /\ LET a == Head(groups[1].left)  ts == TimeFor(a) IN
     /\ Splits(a, ts)
     /\ current' = <<a>> /\ last' = ts
  /\ windows' = Closed /\ gaps' = <<>> /\ TakeAlert
  /\ UNCHANGED <<batch, start, phase, budgetVars>>

SplitWindow ==
  /\ phase = "cut" /\ groups # <<>> /\ groups[1].left # <<>>
  /\ LET a == Head(groups[1].left)  ts == TimeFor(a) IN
     /\ Splits(a, ts)
     /\ current' = <<a>> /\ start' = ts /\ last' = ts
  /\ windows' = Closed /\ gaps' = <<>> /\ TakeAlert
  /\ UNCHANGED <<batch, phase, budgetVars>>

EndGroup ==
  /\ phase = "cut" /\ groups # <<>> /\ groups[1].left = <<>>
  /\ windows' = Closed
  /\ groups' = Tail(groups) /\ current' = <<>> /\ gaps' = <<>>
  /\ start' = NoTime /\ last' = NoTime
  /\ UNCHANGED <<batch, phase, budgetVars>>

\* The windows in the order of their buckets or starts; the floor is skipped on
\* request.
SortWindows ==
  /\ phase = "cut" /\ groups = <<>>
  /\ windows' = Ordered(windows, [i \in 1..Len(windows) |->
                   <<IF batch.mode = "fixed" THEN windows[i].id[1] ELSE windows[i].start>>])
  /\ phase' = IF batch.floor THEN "floor" ELSE "spend"
  /\ UNCHANGED <<batch, groups, current, start, last, gaps, budgetVars>>

\* index_windows_by_alert_id: the last window that has an id.
WindowOf(id) ==
  LET having == {i \in 1..Len(windows) : id \in Elements(windows[i].ids)} IN
  windows[Largest(having)]

-----------------------------------------------------------------------------
(* Spending. *)

\* A fraction of the windows, in percent, but at least one call.
Budget ==
  LET calls == Rounded(Len(windows) * Smaller(batch.budget, 100), 100) IN
  IF batch.budget > 0 /\ calls = 0 /\ windows # <<>> THEN 1 ELSE calls

RepresentativesOf(w) ==
  Elements(IF w.targets.representatives # <<>> THEN w.targets.representatives ELSE w.targets.ids)
Cost(w) == Larger(1, Cardinality(RepresentativesOf(w)))
Gain(w) == Weight(w.atoms, DOMAIN w.atoms \ covered)

Left == Picked(windows, LAMBDA w : w \notin Elements(selected))

Select(w) ==
  /\ selected' = Append(selected, w)
  /\ covered' = covered \cup DOMAIN w.atoms
  /\ used' = used + Cost(w)
  /\ UNCHANGED <<batch, walkVars>>

TierRank(w) == CASE w.tier = "high" -> 3 [] w.tier = "medium" -> 2 [] OTHER -> 1

HighValueLeft == Picked(Left, LAMBDA w : w.high > 0)

\* The safety floor: windows of high value whatever the budget.
AdmitHighValue ==
  /\ phase = "floor" /\ HighValueLeft # <<>>
  /\ LET left == HighValueLeft IN
     Select(FirstBest(left, [i \in 1..Len(left) |-> LET w == left[i] IN
              <<TierRank(w), w.score, w.high, w.pressure, Len(w.alerts)>>]))
  /\ UNCHANGED phase

EndFloor ==
  /\ phase = "floor" /\ HighValueLeft = <<>>
  /\ phase' = "spend"
  /\ UNCHANGED <<batch, walkVars, budgetVars>>

\* Gain per cost.  A cost is at most twelve ids, and all numbers up to twelve
\* divide 27720.
Best ==
  LET left == Left IN
  FirstBest(left, [i \in 1..Len(left) |-> LET w == left[i] IN
    <<(27720 * Gain(w)) \div Cost(w), w.score, w.high, Len(w.alerts)>>])

\* Mutant of Fits: what does not fit is taken all the same.
FitsAlways(w) == TRUE

\* The first selection may exceed the budget.
Fits(w) == used + Cost(w) <= Budget \/ used = 0

Affordable == Left # <<>> /\ used < Budget /\ Gain(Best) > 0 /\ Fits(Best)

AdmitByGain ==
  /\ phase = "spend" /\ Affordable
  /\ Select(Best)
  /\ UNCHANGED phase

EndSpending ==
  /\ phase = "spend" /\ ~Affordable
  /\ phase' = "done"
  /\ UNCHANGED <<batch, walkVars, budgetVars>>

-----------------------------------------------------------------------------
AdmissionInit ==
  /\ batch \in Cases
  /\ groups = GroupsOf(batch)
  /\ current = <<>> /\ start = NoTime /\ last = NoTime /\ gaps = <<>> /\ windows = <<>>
  /\ phase = "cut"
  /\ selected = <<>> /\ covered = {} /\ used = 0

AdmissionNext ==
  \/ JoinWindow \/ SplitWindow \/ EndGroup \/ SortWindows
  \/ AdmitHighValue \/ EndFloor \/ AdmitByGain \/ EndSpending

AdmissionSpec == AdmissionInit /\ [][AdmissionNext]_admissionVars

-----------------------------------------------------------------------------
\* The places of an alert in a sequence, and in the windows.
Where(a, s) == {i \in 1..Len(s) : s[i] = a}
InWindows(a) == UNION {{i} \X Where(a, windows[i].alerts) : i \in 1..Len(windows)}
Held == UNION {Elements(w.alerts) : w \in Elements(windows)}
Concerned == phase # "cut" /\ batch.mode # "fixed"

\* Consecutive alerts of a window are no further apart than its gap, and the
\* window is no longer than allowed unless its first alert has no time.
Bounded(w) ==
  LET n == Len(w.alerts) IN
  /\ \A i \in 1..(n - 1) : w.alerts[i].ts # NoTime =>
       w.alerts[i + 1].ts - w.alerts[i].ts \in 0..w.gap
  /\ w.alerts[1].ts # NoTime => w.alerts[n].ts - w.alerts[1].ts <= w.longest

\* Two windows of a group that follow each other had a reason to be cut: silence
\* beyond the gap (one that is learnt is at least LeastGap), the length of the
\* first, and for admission a minute of silence or the length of a gap.
CutForAReason(v, w) ==
  LET first == w.alerts[1].ts
      silence == first - v.alerts[Len(v.alerts)].ts IN
  \/ silence > v.gap \/ first - v.start > v.longest
  \/ batch.mode # "session" /\ silence > LeastGap(batch.gap)
  \/ batch.mode \in DOMAIN Weights /\ (silence >= 60 \/ first - v.start >= v.gap)

\* Cutting loses nothing: an alert is in the windows as often as in the batch,
\* and the index gives its window for an id of its own; windows keep to the
\* group, the gap and the length, and are not cut without a reason.
\* build_incident_windows in all its modes.
WindowsPartition ==
  phase # "cut" =>
    /\ \A a \in Elements(batch.alerts) \cup Held :
         /\ Cardinality(InWindows(a)) = Cardinality(Where(a, batch.alerts))
         /\ (a.id # 0 /\ Count(batch.alerts, LAMBDA b : b.id = a.id) = 1) =>
              a \in Elements(WindowOf(a.id).alerts)
    /\ \A w \in Elements(windows) : \A a \in Elements(w.alerts) : GroupKey(batch, a) = w.id[2]
    /\ Concerned => \A v, w \in Elements(windows) :
         /\ Bounded(w)
         /\ (v.id[2] = w.id[2] /\ w.id[1] = v.id[1] + 1) => CutForAReason(v, w)

\* A fault is never talked away: a window with an alert of high value is
\* labelled, recommended, tiered and weakly labelled for a model, the evidence
\* surface names every such alert (up to the twelve that are listed) and excludes
\* none, and no budget keeps the window back while the safety floor is on.  The
\* legacy strategy does exclude the critical alerts that are transient.
FaultStaysInEvidence ==
  phase # "cut" => \A w \in Elements(windows) :
    LET high == Elements(IdsOf(Picked(w.alerts, IsHighValue))) IN
    w.high > 0 =>
      /\ w.action = "external" /\ w.tier = "high"
      /\ WeakLabel(w).invoke /\ ~WeakLabel(w).safeSkip
      /\ Len(w.alerts) <= 12 => high \subseteq Elements(w.targets.ids)
      /\ high \cap w.targets.excluded \subseteq
           (IF batch.strategy = "legacy" THEN Elements(IdsOf(Picked(w.alerts, IsTransient)))
            ELSE {})
      /\ (phase \in {"spend", "done"} /\ batch.floor) => w \in Elements(selected)

\* Calls beyond the budget come from the safety floor alone, or from a single
\* window that was larger than the budget; no call is charged twice, and
\* nothing is paid for that adds no risk to what is covered.
BudgetIsKept ==
  phase = "done" =>
    /\ used > Budget => \/ batch.floor /\ \A w \in Elements(selected) : w.high > 0
                        \/ Len(selected) = 1
    /\ Cardinality(UNION {RepresentativesOf(w) : w \in Elements(selected)}) <= used
    /\ \A i \in 1..Len(selected) :
         LET before == UNION {DOMAIN selected[j].atoms : j \in 1..(i - 1)} IN
         /\ \A j \in 1..(i - 1) : selected[j].id # selected[i].id
         /\ DOMAIN selected[i].atoms \ before # {}
    /\ batch.budget = 0 => \A w \in Elements(selected) : w.high > 0

WindowAsContext(w) ==
  [count |-> Len(w.alerts), devices |-> Larger(1, Cardinality(w.devices)),
   fanout |-> w.fanout, label |-> w.label, recurrence |-> w.recurrence,
   topology |-> w.topology, spread |-> w.spread]

Contexts == [similar : {0, 1, 3}, size : {0, 2, 3}, neighbors : BOOLEAN, depth : BOOLEAN]

\* The ladders agree where they must: the gate of the topology subgraph asks a
\* model only for alerts that the self-healing policy would send too, and for a
\* transient alert without history the policy decides as the label of its window.
GatesAgree ==
  /\ phase = "cut" => \A a \in Elements(batch.alerts), c \in Contexts :
       Gate(a, c).invoke => AsksOutside(Gate(a, c).policy)
  /\ phase # "cut" => \A w \in Elements(windows) : \A a \in Elements(w.alerts) :
       IsTransient(a) =>
         (AsksOutside(Decision(a, 0, FALSE, WindowAsContext(w))) <=> w.action = "external")
=============================================================================
