----------------------------- MODULE RuleEngine -----------------------------
(***************************************************************************)
(* The rule engine of the correlator: two sliding windows in event time    *)
(* (deny bursts per device, byte spikes per source address), a transition  *)
(* rule over annotated faults, and one cooldown per alert key.  Events     *)
(* come from several devices and partitions, so their timestamps arrive    *)
(* in any order.  One life of the engine: a restart of the correlator      *)
(* starts from RuleInit.                                                   *)
(***************************************************************************)
EXTENDS Integers, Sequences, FiniteSets, Places

CONSTANTS
  RuleEvents,  \* events the correlator may hand over
  Devices,     \* keys of the deny windows
  Sources,     \* keys of the bytes windows
  Entities,    \* keys of the annotated-fault states
  Scenarios,   \* normalized fault scenarios
  Unmarked,    \* mark of an event without annotation
  NoFault,     \* mark of an event annotated as no fault
  Healthy,     \* fault state it leaves; a fault may carry this name too
  NoState,     \* fault state of an entity never annotated
  NoTime,      \* an event_ts that does not parse
  Window,      \* Window[rule]: length of the window
  Threshold,   \* Threshold[rule]: weight that makes the rule fire
  Cooldown,    \* least event time between two alerts of a key
  MaxEvents    \* bound: events handed over

WindowRules == {"deny_burst", "bytes_spike"}

\* A fault is marked by its scenario.
Marks == Scenarios \cup {NoFault, Unmarked}

ASSUME RuleAssumption ==
  /\ RuleEvents \subseteq
       [ts : Nat \cup {NoTime}, deny : BOOLEAN, bytes : Nat, device : Devices,
        source : Sources, entity : Entities, mark : Marks]
  /\ NoTime \notin Int
  /\ NoFault # Unmarked /\ NoState # Healthy
  /\ {NoFault, Unmarked, NoState} \cap Scenarios = {}
  /\ Window \in [WindowRules -> Nat]
  /\ Threshold \in [WindowRules -> Nat]
  /\ Cooldown \in Nat

VARIABLES
  windows,     \* windows[<<rule, key>>]: entries <<ts, weight>>
  lastAlert,   \* lastAlert[alertKey]: event time of its last alert, or Never
  faultState,  \* faultState[entity]: scenario, Healthy or NoState
  processed,   \* events handed over
  entered,     \* history: entered[<<rule, key>>], the entries never pruned
  marks,       \* history: marks[entity], its annotations in order
  raised       \* history: raised[alertKey], the times of its alerts in order

engine == <<windows, lastAlert, faultState>>
histories == <<entered, marks, raised>>
ruleVars == <<engine, processed, histories>>

Never == -1

WindowKeys == ({"deny_burst"} \X Devices) \cup ({"bytes_spike"} \X Sources)

AlertKeys == WindowKeys \cup ({"annotated_fault"} \X Entities \X Scenarios)

-----------------------------------------------------------------------------
Key(rule, e) == <<rule, IF rule = "deny_burst" THEN e.device ELSE e.source>>

Weight(rule, e) ==
  IF rule = "bytes_spike" THEN e.bytes ELSE IF e.deny THEN 1 ELSE 0

\* Mutant of Counted: the early return for an event without weight is gone.
CountedAlways(e) == WindowRules

\* the window rules that do not return early on e
Counted(e) == {rule \in WindowRules : Weight(rule, e) > 0}

\* Mutant of Expired: an entry exactly at the cutoff is pruned too.
ExpiredAtCutoff(rule, entry, now) == entry[1] <= now - Window[rule]

Expired(rule, entry, now) == entry[1] < now - Window[rule]

\* Entries leave only from the old end, up to the first one not expired.
Pruned(rule, bucket, now) ==
  LET drop == {n \in 1..Len(bucket) :
                 \A i \in 1..n : Expired(rule, bucket[i], now)}
  IN SubSeq(bucket, Cardinality(drop) + 1, Len(bucket))

Slid(rule, e) ==
  Append(Pruned(rule, windows[Key(rule, e)], e.ts),
         <<e.ts, Weight(rule, e)>>)

\* sum over the bucket; the deny count is the sum of its ones
Total(bucket) ==
  LET upTo[n \in 0..Len(bucket)] ==
        IF n = 0 THEN 0 ELSE upTo[n - 1] + bucket[n][2]
  IN upTo[Len(bucket)]

WindowsAfter(e) ==
  [k \in WindowKeys |->
    IF \E rule \in Counted(e) : k = Key(rule, e) THEN Slid(k[1], e)
    ELSE windows[k]]

\* Mutant of FaultStateAfter: the state is not stored on a fault.
FaultStateForgotten(e) ==
  [faultState EXCEPT ![e.entity] = IF e.mark = NoFault THEN Healthy ELSE @]

FaultStateAfter(e) ==
  [faultState EXCEPT ![e.entity] =
     CASE e.mark = Unmarked -> @
       [] e.mark = NoFault  -> Healthy
       [] OTHER             -> e.mark]

\* Alert keys whose rule is met by e, before the cooldown.
Firing(e) ==
  {<<"annotated_fault", e.entity, s>> :
     s \in {s \in Scenarios : s = e.mark /\ faultState[e.entity] # s}}
  \cup
  {Key(rule, e) :
     rule \in {r \in Counted(e) : Total(Slid(r, e)) >= Threshold[r]}}

\* Mutant of CooldownOk: an event older than the last alert passes.
CooldownOkBackwards(key, now) ==
  \/ lastAlert[key] = Never
  \/ now < lastAlert[key]
  \/ now - lastAlert[key] >= Cooldown

CooldownOk(key, now) ==
  \/ lastAlert[key] = Never
  \/ now - lastAlert[key] >= Cooldown

Alerts(e) == {key \in Firing(e) : CooldownOk(key, e.ts)}

\* Mutant of LastAlertAfter: a suppressed alert extends the cooldown.
LastAlertExtended(e) ==
  [key \in AlertKeys |-> IF key \in Firing(e) THEN e.ts ELSE lastAlert[key]]

LastAlertAfter(e) ==
  [key \in AlertKeys |-> IF key \in Alerts(e) THEN e.ts ELSE lastAlert[key]]

-----------------------------------------------------------------------------
\* process(event): the three rules in turn, each on the state before e, for
\* no rule reads what another one writes.
Process(e) ==
  /\ e.ts # NoTime
  /\ windows' = WindowsAfter(e)
  /\ faultState' = FaultStateAfter(e)
  /\ lastAlert' = LastAlertAfter(e)
  /\ entered' =
       [k \in WindowKeys |->
         IF k = Key(k[1], e) /\ Weight(k[1], e) > 0
         THEN Append(entered[k], <<e.ts, Weight(k[1], e)>>)
         ELSE entered[k]]
  /\ marks' = [marks EXCEPT ![e.entity] =
                 IF e.mark = Unmarked THEN @ ELSE Append(@, e.mark)]
  /\ raised' = [key \in AlertKeys |->
                 IF key \in Alerts(e) THEN Append(raised[key], e.ts)
                 ELSE raised[key]]

\* an event whose event_ts does not parse changes nothing
Discard(e) == e.ts = NoTime /\ UNCHANGED <<engine, histories>>

RuleInit ==
  /\ windows = [k \in WindowKeys |-> <<>>]
  /\ lastAlert = [key \in AlertKeys |-> Never]
  /\ faultState = [x \in Entities |-> NoState]
  /\ processed = 0
  /\ entered = windows
  /\ marks = [x \in Entities |-> <<>>]
  /\ raised = [key \in AlertKeys |-> <<>>]

RuleNext ==
  \E e \in RuleEvents :
    /\ processed < MaxEvents
    /\ processed' = processed + 1
    /\ Process(e) \/ Discard(e)

RuleSpec == RuleInit /\ [][RuleNext]_ruleVars

-----------------------------------------------------------------------------
Entries == Nat \X (Nat \ {0})

\* Entries carry weight, alert times are event times.  _deny_windows,
\* _bytes_windows, _last_alert_at, _annotated_fault_states.
RuleTypeOK ==
  /\ windows \in [WindowKeys -> Seq(Entries)]
  /\ lastAlert \in [AlertKeys -> Nat \cup {Never}]
  /\ faultState \in [Entities -> Scenarios \cup {Healthy, NoState}]
  /\ processed \in Nat
  /\ raised \in [AlertKeys -> Seq(Nat)]
  /\ marks \in [Entities -> Seq(Scenarios \cup {NoFault})]

\* Two alerts of one key are at least the cooldown apart in event time and
\* in increasing order, however late or shuffled the events arrive.
CooldownHolds ==
  \A key \in AlertKeys : \A i, j \in 1..Len(raised[key]) :
    i < j => raised[key][i] + Cooldown <= raised[key][j]

Times(k) == {entered[k][i][1] : i \in 1..Len(entered[k])}

Newest(k) == CHOOSE t \in Times(k) : \A u \in Times(k) : u <= t

\* the entries not older than the window up to the newest one
RecentIndices(k) ==
  {i \in 1..Len(entered[k]) : entered[k][i][1] >= Newest(k) - Window[k[1]]}

Recent(k) == At(entered[k], RecentIndices(k))

RecentWeight(k) ==
  Total([i \in 1..Len(entered[k]) |->
           IF i \in RecentIndices(k) THEN entered[k][i] ELSE <<0, 0>>])

\* No burst stays silent: whenever the events of the window up to the newest
\* one reach the threshold, whatever their order of arrival, the key has had
\* an alert in that window or less than a cooldown before it.
BurstsAreReported ==
  \A k \in WindowKeys :
    /\ entered[k] # <<>>
    /\ RecentWeight(k) >= Threshold[k[1]]
    => \E i \in 1..Len(raised[k]) :
         \/ raised[k][i] >= Newest(k) - Window[k[1]]
         \/ raised[k][i] > Newest(k) - Window[k[1]] - Cooldown

InOrder(seq) == \A i, j \in 1..Len(seq) : i < j => seq[i][1] <= seq[j][1]

\* While the events of a key come in order its window is exact: the counts
\* and sums put into an alert are those of the last Window seconds.
InOrderWindowsAreExact ==
  \A k \in WindowKeys :
    entered[k] # <<>> /\ InOrder(entered[k]) => windows[k] = Recent(k)

\* where a run of s begins in a sequence of annotations
Runs(seq, s) ==
  {i \in 1..Len(seq) : seq[i] = s /\ (i > 1 => seq[i - 1] # s)}

Episodes(entity, s) == Runs(marks[entity], s)

FaultAlerts(entity, s) == raised[<<"annotated_fault", entity, s>>]

\* A lasting fault raises one alert, not one per row and not one per
\* cooldown: alerts never outnumber the runs of the scenario.
OneAlertPerEpisode ==
  \A x \in Entities : \A s \in Scenarios :
    Len(FaultAlerts(x, s)) <= Cardinality(Episodes(x, s))

\* What the feature guide says: the rule emits on fault-state transitions
\* per entity and scenario.  Every run of a scenario has had its alert.
TransitionsAreReported ==
  \A x \in Entities : \A s \in Scenarios :
    Cardinality(Episodes(x, s)) <= Len(FaultAlerts(x, s))

=============================================================================
