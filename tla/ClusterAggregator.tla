------------------------- MODULE ClusterAggregator -------------------------
(***************************************************************************)
(* AlertClusterAggregator: alerts of one key within a sliding window form  *)
(* a cluster; a trigger silences its key for a cooldown.  Time is the      *)
(* alert's own time, which need not grow from one alert to the next.       *)
(* Timeline and cooldown live in memory and know nothing of offsets.       *)
(***************************************************************************)
EXTENDS Integers, Sequences, FiniteSets

CONSTANTS
  ClusterKeys,  \* rule, severity, service and device of an alert
  Window,       \* window_sec
  MinAlerts,    \* min_alerts
  Cooldown      \* cooldown_sec

ASSUME AggregatorAssumption ==
  /\ Window \in Nat \ {0} /\ Cooldown \in Nat \ {0}
  /\ MinAlerts \in Nat /\ MinAlerts >= 2

VARIABLES
  timeline,     \* _timeline: per key the entries [at, from] in order of arrival
  lastEmit,     \* _last_emit_ts, Never before the first trigger
  observed,     \* history: [key, at, from] of each alert since the start
  triggers      \* history: triggers since the start, [key, at, members]

aggregatorVars == <<timeline, lastEmit, observed, triggers>>

Never == -1

Expired(entry, now) == entry.at < now - Window

\* Mutant of Slid: the window is not cut.
SlidUncut(key, entry) == Append(timeline[key], entry)

\* The timeline with the new entry, cut from the old end: the new entry is
\* never expired, and expired entries behind a fresh one stay.
Slid(key, entry) ==
  LET all   == Append(timeline[key], entry)
      fresh == {i \in 1..Len(all) : ~Expired(all[i], entry.at)}
      head  == CHOOSE i \in fresh : \A j \in fresh : i <= j
  IN SubSeq(all, head, Len(all))

CoolingDown(key, now) ==
  lastEmit[key] # Never /\ now - lastEmit[key] < Cooldown

Fires(key, entry) ==
  /\ Len(Slid(key, entry)) >= MinAlerts
  /\ ~CoolingDown(key, entry.at)

\* Mutant of LastEmitAfter: a silenced cluster renews the cooldown.
LastEmitRenewed(key, entry) ==
  IF Len(Slid(key, entry)) >= MinAlerts
  THEN [lastEmit EXCEPT ![key] = entry.at] ELSE lastEmit

LastEmitAfter(key, entry) ==
  IF Fires(key, entry) THEN [lastEmit EXCEPT ![key] = entry.at] ELSE lastEmit

\* observe(alert)
Observed(key, entry) ==
  /\ timeline' = [timeline EXCEPT ![key] = Slid(key, entry)]
  /\ lastEmit' = LastEmitAfter(key, entry)
  /\ observed' =
       Append(observed, [key |-> key, at |-> entry.at, from |-> entry.from])
  /\ triggers' =
       IF Fires(key, entry)
       THEN triggers \cup {[key |-> key, at |-> entry.at,
                            members |-> Slid(key, entry)]}
       ELSE triggers

AggregatorInit ==
  /\ timeline = [k \in ClusterKeys |-> <<>>]
  /\ lastEmit = [k \in ClusterKeys |-> Never]
  /\ observed = <<>> /\ triggers = {}

\* The aggregator dies with the process.
AggregatorLost ==
  /\ timeline' = [k \in ClusterKeys |-> <<>>]
  /\ lastEmit' = [k \in ClusterKeys |-> Never]
  /\ observed' = <<>> /\ triggers' = {}

\* An entry names its alert by a member of sources.
AggregatorTypeOK(sources) ==
  /\ timeline \in [ClusterKeys -> Seq([at : Nat, from : sources])]
  /\ lastEmit \in [ClusterKeys -> Nat \cup {Never}]
  /\ observed \in Seq([key : ClusterKeys, at : Nat, from : sources])
  /\ triggers \subseteq [key : ClusterKeys, at : Nat,
                        members : Seq([at : Nat, from : sources])]

-----------------------------------------------------------------------------
\* Alerts of the j-th one's key among the first j.
SameKey(j) == {i \in 1..j : observed[i].key = observed[j].key}

InOrder(j)  == \A i \in SameKey(j) : observed[i].at <= observed[j].at
InWindow(j) == {i \in SameKey(j) : observed[i].at >= observed[j].at - Window}

\* A key's alerts that reach min_alerts within a window do not stay silent:
\* the alert that completes them, or one less than a cooldown before it,
\* has triggered a cluster (observe, for alerts that come in order).
BurstsMakeClusters ==
  \A j \in 1..Len(observed) :
    InOrder(j) /\ Cardinality(InWindow(j)) >= MinAlerts =>
      \E t \in triggers :
        /\ t.key = observed[j].key
        /\ t.at <= observed[j].at /\ observed[j].at - t.at < Cooldown

\* Triggers of a key keep a cooldown's distance whatever the order of the
\* alerts, and a cluster whose alerts came in order lies within its window
\* (observe: the cooldown test and the loop that cuts the timeline).
ClustersAreSound ==
  /\ \A t, u \in triggers :
       t.key = u.key /\ t # u => t.at - u.at >= Cooldown \/ u.at - t.at >= Cooldown
  /\ \A t \in triggers :
       LET n == Len(t.members) IN
       (\A i, j \in 1..n : i < j => t.members[i].at <= t.members[j].at) =>
         /\ n >= MinAlerts
         /\ \A i \in 1..n : t.at - t.members[i].at \in 0..Window

=============================================================================
