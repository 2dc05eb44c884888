---------------------------- MODULE RuntimeReader ---------------------------
(***************************************************************************)
(* The gateway's reading of the runtime files: the snapshot it builds from *)
(* the alerts, the suggestions and the latest audit report, and the delta  *)
(* between two snapshots.                                                  *)
(*                                                                         *)
(* A directory is a sequence of hourly files in the order of their names,  *)
(* a file a sequence of lines.  Times are seconds; Unparsed is a time that *)
(* is missing or does not parse.  Labels, units and wording are left out.  *)
(***************************************************************************)
EXTENDS SuggestionParts

CONSTANTS
  MaxFiles,      \* the 36 newest files of a directory are read
  DayLength,     \* seconds in a day
  SlotLength,    \* seconds in a slot of the cadence
  SlotLimit,     \* 12 slots
  RecordLimit,   \* 12 suggestions
  PerKind,       \* 4 alerts and 4 suggestions in the feed
  FeedLimit,     \* 6 items in the feed
  WatchLimit,    \* 3 clusters watched
  ClusterWindow, \* AIOPS_CLUSTER_WINDOW_SEC of the deployment
  ClusterMin,    \* AIOPS_CLUSTER_MIN_ALERTS
  Torn           \* a line that is not JSON

Unparsed == -1
Items(s) == {s[i] : i \in 1..Len(s)}
Indices(s, P(_)) == {i \in 1..Len(s) : P(s[i])}

\* The first line that is not JSON hides the rest of its file.
ReadableLines(file) ==
  LET bad == {i \in 1..Len(file) : file[i] = Torn} IN
  IF bad = {} THEN file
  ELSE SubSeq(file, 1, (CHOOSE i \in bad : \A j \in bad : i <= j) - 1)

LoadRecentJsonl(files) ==
  LET recent == SubSeq(files, Greatest(1, Len(files) - MaxFiles + 1), Len(files)) IN
  FlattenSeq([i \in 1..Len(recent) |-> ReadableLines(recent[i])])

\* Newest first; records of the same time keep their order.
ByTime(s) ==
  LET rank(i) == Cardinality({j \in 1..Len(s) :
                   s[j].ts > s[i].ts \/ (s[j].ts = s[i].ts /\ j <= i)}) IN
  [k \in 1..Len(s) |-> s[CHOOSE i \in 1..Len(s) : rank(i) = k]]

LatestByTs(s) == IF s = <<>> THEN None ELSE ByTime(s)[1]

TimeOf(r) == IF r = None THEN Unparsed ELSE r.ts
DayOf(ts) == ts \div DayLength
FilterByDate(s, day) ==
  Picked(s, LAMBDA r : r.ts # Unparsed /\ DayOf(r.ts) = day)
Parsed(s) == Picked(s, LAMBDA r : r.ts # Unparsed)

\* Mutant of ReferenceDay: the clock alone says which day it is.
ReferenceDayByClock(alerts, suggestions, report, now) == DayOf(now)

\* The day that is shown is that of the latest thing known, or today.
ReferenceDay(alerts, suggestions, report, now) ==
  LET times == {TimeOf(LatestByTs(alerts)), TimeOf(LatestByTs(suggestions)), report.ts, now} IN
  DayOf(CHOOSE t \in times : \A u \in times : u <= t)

\* alerts_by_id: the last alert with that id, or the empty one.
NoAlert == [id |-> None, ts |-> Unparsed, event |-> Unparsed, blocks |-> {}]
AlertOf(alerts, id) ==
  LET same == {i \in 1..Len(alerts) : alerts[i].id = id} IN
  IF same = {} THEN NoAlert ELSE alerts[CHOOSE i \in same : \A j \in same : j <= i]

-----------------------------------------------------------------------------
(* A suggestion as it is shown. *)

Duration(from, to) == IF Unparsed \in {from, to} THEN None ELSE Greatest(0, to - from)

\* Where the time of the agent starts: at the last alert of a cluster.
AgentStart(s, a) == IF s.scope = "cluster" /\ s.last # Unparsed THEN s.last ELSE a.ts

Step(stage, at, took) == [stage |-> stage, at |-> at, took |-> took]

StoryTimeline(s, a) ==
  << Step("ingest", a.event, None), Step("correlator", a.ts, Duration(a.event, a.ts)),
     Step("alerts-topic", a.ts, None) >> \o
  When(s.scope = "cluster" \/ s.context.size > 1,
       << Step("cluster-window", IF s.last # Unparsed THEN s.last ELSE s.first,
               Duration(s.first, s.last)) >>) \o
  << Step("suggestions-topic", s.ts, Duration(AgentStart(s, a), s.ts)),
     Step("remediation", Unparsed, None) >>

StageTelemetry(s, a) ==
  << Step("lcore-source", a.event, None), Step("ingest", a.event, None),
     Step("forwarder", a.event, None), Step("raw-topic", a.event, None),
     Step("correlator", a.ts, Duration(a.event, a.ts)), Step("alerts-topic", a.ts, None),
     [stage |-> "cluster-window", at |-> s.last, took |-> Duration(s.first, s.last),
      state |-> IF s.scope = "cluster" \/ s.context.size >= ClusterMin
                THEN "complete" ELSE "watch"],
     Step("aiops-agent", s.ts, Duration(AgentStart(s, a), s.ts)),
     Step("suggestions-topic", s.ts, None), Step("remediation", Unparsed, None) >>

FallbackPanels == {"trigger", "aggregate", "path", "device", "inference", "action"}
ProjectionBasis(s) == IF s.answer.basis # {} THEN s.answer.basis ELSE FallbackPanels

GateLabel(s) ==
  IF s = None THEN "n/a"
  ELSE IF s.bundle.gate = None THEN "template"
  ELSE IF s.bundle.gate.invoke THEN "invoke" ELSE "skip"

\* _normalize_hypothesis_set: without a set the first three hypotheses are shown.
NormalizeHypothesisSet(s) ==
  IF s.set # None /\ s.set.items # <<>>
  THEN [primary |-> s.set.primary, scope |-> s.set.scope,
        items |-> [i \in 1..Len(s.set.items) |->
                     [id |-> s.set.items[i].id, score |-> s.set.items[i].score,
                      next |-> s.set.items[i].next]]]
  ELSE LET shown == FirstOf(s.answer.hypotheses, 3) IN
       [primary |-> IF shown = <<>> THEN None ELSE <<"fallback", 1>>, scope |-> s.scope,
        items |-> [i \in 1..Len(shown) |->
                     [id |-> <<"fallback", i>>,
                      score |-> Greatest(35, s.answer.confidence - 8 * (i - 1)),
                      next |-> ActionForRank(s.answer.actions, i)]]]

\* _normalize_review_verdict: approval is required unless the verdict denies it.
NormalizeReviewVerdict(s) ==
  IF s.verdict # None
  THEN [status |-> s.verdict.status, disposition |-> s.verdict.disposition,
        approval |-> s.verdict.approval # FALSE, issues |-> s.verdict.issues,
        checks |-> s.verdict.checks]
  ELSE [status |-> "operator_review", disposition |-> "project_with_operator_boundary",
        approval |-> TRUE, issues |-> <<>>,
        checks |-> [sufficiency |-> "bounded", freshness |-> "fresh", topology |-> "partial",
                    overreach |-> "guarded", remediation |-> "draft_only",
                    rollback |-> "pending"]]

\* Mutant of FallbackDraft: nothing is asserted for a suggestion without a plan.
FallbackDraftUnguarded(s) ==
  [status |-> "draft_ready", hypothesis |-> None, actions |-> s.answer.actions,
   boundaries |-> <<"guidance only">>, approval |-> FALSE, mode |-> "human_gated",
   write |-> FALSE]

FallbackDraft(s) ==
  [status |-> "draft_ready", hypothesis |-> None, actions |-> s.answer.actions,
   boundaries |-> <<"guidance only">>, approval |-> TRUE, mode |-> "human_gated",
   write |-> FALSE]

\* _normalize_runbook_draft: approval and the write path are what the plan asserts.
NormalizeRunbookDraft(s) ==
  IF s.plan = None THEN FallbackDraft(s)
  ELSE [status |-> s.plan.status, hypothesis |-> s.plan.hypothesis,
        actions |-> s.plan.actions, boundaries |-> s.plan.boundaries,
        approval |-> s.plan.approval = TRUE, mode |-> s.plan.mode,
        write |-> s.plan.write = TRUE]

SuggestionRecord(s, alerts) ==
  LET a == AlertOf(alerts, s.alert) IN
  [id |-> s.id, ts |-> s.ts, alert |-> s.alert, scope |-> s.scope, size |-> s.context.size,
   priority |-> s.priority, confidence |-> s.answer.confidence,
   actions |-> s.answer.actions, hypotheses |-> s.answer.hypotheses,
   set |-> NormalizeHypothesisSet(s), verdict |-> NormalizeReviewVerdict(s),
   plan |-> NormalizeRunbookDraft(s), gate |-> GateLabel(s), basis |-> ProjectionBasis(s),
   timeline |-> StoryTimeline(s, a), telemetry |-> StageTelemetry(s, a)]

SuggestionRecords(suggestions, alerts, limit) ==
  LET newest == FirstOf(ByTime(suggestions), limit) IN
  [i \in 1..Len(newest) |-> SuggestionRecord(newest[i], alerts)]

-----------------------------------------------------------------------------
(* The panels around the suggestions. *)

ClosureLabel(s) ==
  IF \E i \in 1..Len(s) : s[i].scope = "cluster" THEN "cluster-scope"
  ELSE IF s # <<>> THEN "alert-scope" ELSE "none"

FreshnessState(age) ==
  CASE age = None -> "neutral" [] age # None /\ age <= 30 -> "ok"
    [] age # None /\ age > 30 /\ age <= 300 -> "watch" [] OTHER -> "alert"

\* Slots of the day, the last of them by their clock.
Cadence(alerts, suggestions) ==
  LET slot(r) == (r.ts % DayLength) \div SlotLength
      all == {slot(r) : r \in Items(Parsed(alerts)) \cup Items(Parsed(suggestions))}
      shown == {t \in all : Cardinality({u \in all : u > t}) < SlotLimit} IN
  [t \in shown |-> <<Cardinality(Indices(alerts, LAMBDA r : r.ts # Unparsed /\ slot(r) = t)),
                     Cardinality(Indices(suggestions, LAMBDA r : r.ts # Unparsed /\ slot(r) = t))>>]

\* How many of the alerts carry each block, or what the report says of it.
EvidenceCoverage(alerts, report) ==
  [block \in {"topology", "device", "change"} |->
     IF alerts # <<>>
     THEN (200 * Cardinality(Indices(alerts, LAMBDA a : block \in a.blocks)) + Len(alerts))
            \div (2 * Len(alerts))
     ELSE report.presence]

Flowing(test) == IF test THEN "flowing" ELSE "steady"

StageNodes(latestAlert, latestSuggestion, dayAlerts, daySuggestions, report) ==
  [source |-> Flowing(report.age # None),
   ingest |-> IF report.backlog = TRUE THEN "watch" ELSE "flowing",
   raw |-> IF FreshnessState(report.age) = "ok" THEN "flowing" ELSE "watch",
   correlator |-> Flowing(dayAlerts # <<>>),
   alerts |-> Flowing(latestAlert # None), alertCount |-> Len(dayAlerts),
   agent |-> Flowing(latestSuggestion # None), agentScope |-> ClosureLabel(daySuggestions),
   suggestions |-> Flowing(latestSuggestion # None), gate |-> GateLabel(latestSuggestion),
   suggestionCount |-> Len(daySuggestions)]

\* The keys nearest to a cluster, the latest first among equals.
ClusterWatch(alerts) ==
  LET parsed == Parsed(alerts)
      group(i) == <<parsed[i].rule, parsed[i].severity, parsed[i].service, parsed[i].device>>
      first == {i \in 1..Len(parsed) : \A j \in 1..(i - 1) : group(j) # group(i)}
      times(i) == {parsed[j].ts : j \in {k \in 1..Len(parsed) : group(k) = group(i)}}
      latest(i) == CHOOSE t \in times(i) : \A u \in times(i) : u <= t
      progress(i) == Least(ClusterMin,
        Cardinality({j \in 1..Len(parsed) :
                       group(j) = group(i) /\ parsed[j].ts >= latest(i) - ClusterWindow}))
      before(j, i) == \/ progress(j) > progress(i)
                      \/ /\ progress(j) = progress(i)
                         /\ latest(j) > latest(i) \/ (latest(j) = latest(i) /\ j <= i)
      rank(i) == Cardinality({j \in first : before(j, i)}) IN
  [k \in 1..Least(WatchLimit, Cardinality(first)) |->
     LET i == CHOOSE i \in first : rank(i) = k IN
     [key |-> <<parsed[i].rule, parsed[i].service, parsed[i].device>>,
      progress |-> progress(i), target |-> ClusterMin]]

FeedItem(kind, r, scope) == [id |-> <<kind, r.id>>, ts |-> r.ts, kind |-> kind, scope |-> scope]

\* The raw sample takes the last place if it is older than the items shown.
WithRaw(top, raw) ==
  IF raw # <<>> /\ raw[1] \notin Items(top) THEN FirstOf(top, FeedLimit - 1) \o raw ELSE top

Feed(alerts, suggestions, report) ==
  LET a == Parsed(FirstOf(ByTime(alerts), PerKind))
      s == Parsed(FirstOf(ByTime(suggestions), PerKind))
      raw == When(report.raw # Unparsed,
                  << [id |-> <<"raw", report.raw>>, ts |-> report.raw, kind |-> "raw",
                      scope |-> None] >>)
      items == ByTime(raw \o [i \in 1..Len(a) |-> FeedItem("alert", a[i], None)] \o
                      [i \in 1..Len(s) |-> FeedItem("suggestion", s[i], s[i].scope)]) IN
  WithRaw(FirstOf(items, FeedLimit), raw)

LoadSnapshot(alerts, suggestions, report, now) ==
  LET day == ReferenceDay(alerts, suggestions, report, now)
      latest == LatestByTs(suggestions)
      ofDay == FilterByDate(suggestions, day)
      today == SuggestionRecords(ofDay, alerts, RecordLimit)
      records == IF today = <<>> /\ latest # None
                 THEN SuggestionRecords(<<latest>>, alerts, 1) ELSE today IN
  [ alertTs |-> TimeOf(LatestByTs(alerts)), suggestionTs |-> TimeOf(latest),
    default |-> IF records = <<>> THEN None ELSE records[1].id,
    volume |-> <<Len(FilterByDate(alerts, day)), Len(ofDay)>>,
    closure |-> ClosureLabel(records),
    cadence |-> Cadence(FilterByDate(alerts, day), ofDay),
    coverage |-> EvidenceCoverage(FilterByDate(alerts, day), report),
    stages |-> StageNodes(LatestByTs(alerts), latest, FilterByDate(alerts, day), ofDay, report),
    watch |-> ClusterWatch(alerts), suggestions |-> records,
    feed |-> Feed(alerts, suggestions, report) ]

-----------------------------------------------------------------------------
(* The delta of the stream. *)

StageIds(item) ==
  CASE item.kind = "raw" -> {"lcore-source", "ingest", "forwarder", "raw-topic"}
    [] item.kind = "alert" -> {"correlator", "alerts-topic", "cluster-window"}
    [] item.kind = "suggestion" ->
         {"aiops-agent", "suggestions-topic", "remediation"} \cup
         (IF item.scope = "cluster" THEN {"cluster-window"} ELSE {})

\* New ids in the feed, else the clusters watched, else the latest times and
\* the default suggestion: nothing else makes a delta.
StreamDelta(previous, current) ==
  LET known == {i.id : i \in Items(previous.feed)}
      new == SelectSeq(current.feed, LAMBDA i : i.id \notin known)
      head(s) == <<s.alertTs, s.suggestionTs, s.default>> IN
  CASE new # <<>> ->
         [reason |-> "feed", stages |-> UNION {StageIds(i) : i \in Items(new)},
          kind |-> IF \E i \in Items(new) : i.scope = "cluster" THEN "cluster" ELSE new[1].kind]
    [] new = <<>> /\ previous.watch # current.watch ->
         [reason |-> "cluster-watch", stages |-> {"cluster-window"}, kind |-> "cluster"]
    [] new = <<>> /\ previous.watch = current.watch /\ head(previous) # head(current) ->
         [reason |-> "system", stages |-> {}, kind |-> "system"]
    [] OTHER -> None
=============================================================================
