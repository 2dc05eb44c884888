---------------------------- MODULE AdaptivePlan ----------------------------
(***************************************************************************)
(* common/data_features: a plan that says what each column of an unknown   *)
(* table is for, and the canonical event a row becomes under that plan.    *)
(*                                                                         *)
(* A cell is a record: its text, what the text contains (the substrings    *)
(* the code looks for), and whether it parses as a number, as a time, or   *)
(* looks like a file path.  A column is a record of what its name          *)
(* contains.  Scores are in thousandths.                                   *)
(***************************************************************************)
EXTENDS Integers, Sequences, SequencesExt, FiniteSets

CONSTANTS
  Columns,      \* the columns in the order of the rows, a sequence of names
  About,        \* [name |-> what the normalised column name contains]
  MaxSampleRows,
  MaxMetricFields

ColumnNames == {Columns[i] : i \in 1..Len(Columns)}

\* No two columns have the same name, so the alphabet orders them.
ASSUME ColumnsAssumption ==
  /\ Len(Columns) \in Nat
  /\ \A c \in ColumnNames : About[c].pref \in Int /\ About[c].alpha \in Int
  /\ \A c, d \in ColumnNames : About[c].alpha = About[d].alpha => c = d

\* About[c]: hidden (the name starts with "_"), marks (the marker sets it hits),
\* direct (it is a label name), status (a telemetry status), names (the field
\* names it answers to), pref (_name_preference), low (a low-semantic name),
\* alpha (its place in the alphabet).
Blank(cell) == cell.text = ""

-----------------------------------------------------------------------------
(* ColumnProfile: what the sample says of a column. *)

Sample(rows) == {i \in 1..Len(rows) : i <= MaxSampleRows}
Filled(rows, c) == {i \in Sample(rows) : ~Blank(rows[i][c])}
Ratio(part, whole) == (1000 * Cardinality(part)) \div (IF whole = {} THEN 1 ELSE Cardinality(whole))
Density(rows, c) == Ratio(Filled(rows, c), Sample(rows))
NumericRatio(rows, c) == Ratio({i \in Filled(rows, c) : rows[i][c].number}, Filled(rows, c))
TimestampRatio(rows, c) == Ratio({i \in Filled(rows, c) : rows[i][c].time}, Filled(rows, c))
Distinct(rows, c) == {rows[i][c].text : i \in Filled(rows, c)}

Visible == {c \in ColumnNames : ~About[c].hidden}
Marked(mark) == {c \in Visible : mark \in About[c].marks}

\* scored.sort: by score, then preference, then name; nobody is left out.
Ranked(S, Score(_), Pref(_)) ==
  LET UpTo(c) == {d \in S :
        \/ Score(d) > Score(c)
        \/ Score(d) = Score(c) /\ Pref(d) > Pref(c)
        \/ Score(d) = Score(c) /\ Pref(d) = Pref(c) /\ About[d].alpha <= About[c].alpha}
  IN [n \in 1..Cardinality(S) |-> CHOOSE c \in S : Cardinality(UpTo(c)) = n]

NoPref(c) == 0
Pref(c) == About[c].pref

TimeFields(rows) ==
  LET Score(c) == (IF c \in Marked("time") THEN 2000 ELSE 0) + TimestampRatio(rows, c)
  IN Ranked({c \in Visible : Score(c) >= 1000 /\ Filled(rows, c) # {}}, Score, NoPref)

LabelFields(rows) ==
  LET Score(c) == Density(rows, c) + (IF About[c].direct THEN 7000 ELSE 2000)
  IN Ranked({c \in Marked("label") : About[c].direct \/ ~About[c].status}, Score, Pref)

MarkerFields(rows, mark) ==
  LET Score(c) == 2000 + Density(rows, c) IN Ranked(Marked(mark), Score, Pref)

\* The logarithm of the range is taken as its integer part.
Decades(n) == CHOOSE d \in 0..9 : 10^d <= n + 1 /\ n + 1 < 10^(d + 1)
RangeWidth(rows, c) ==
  LET values == {rows[i][c].value : i \in {j \in Filled(rows, c) : rows[j][c].number}}
  IN IF values = {} THEN 0
     ELSE CHOOSE w \in {u - v : u \in values, v \in values} :
            \A u \in values, v \in values : u - v <= w

MetricFields(rows, excluded) ==
  LET Score(c) == NumericRatio(rows, c) + 1000 * Decades(RangeWidth(rows, c))
                  + Density(rows, c)
      ranked == Ranked({c \in Visible \ (excluded \cup Marked("no metric")) :
                          /\ NumericRatio(rows, c) >= 800
                          /\ Cardinality(Distinct(rows, c)) > 1}, Score, NoPref)
  IN SubSeq(ranked, 1, IF Len(ranked) > MaxMetricFields THEN MaxMetricFields ELSE Len(ranked))

\* 1 < distinct <= min(100, max(non_null // 2, 20)).
CategoricalFields(rows, excluded) ==
  {c \in Visible \ excluded :
     LET half == Cardinality(Filled(rows, c)) \div 2
         most == IF half > 100 THEN 100 ELSE IF half > 20 THEN half ELSE 20
     IN /\ NumericRatio(rows, c) < 800
        /\ Cardinality(Distinct(rows, c)) \in 2..most}

BuildPlan(rows) ==
  LET time == TimeFields(rows)
      label == LabelFields(rows)
      entity == MarkerFields(rows, "entity")
      topology == MarkerFields(rows, "topology")
      metric == MetricFields(rows, Range(time) \cup Range(label) \cup Range(entity))
      chosen == Range(time \o label \o entity \o topology \o metric)
      categorical == CategoricalFields(rows, chosen)
  IN [time |-> IF time = <<>> THEN "" ELSE Head(time), label |-> label,
      entity |-> entity, topology |-> topology, metric |-> metric,
      categorical |-> categorical,
      ignored |-> ColumnNames \ (chosen \cup categorical)]

-----------------------------------------------------------------------------
(* Labels. *)

HealthyValues == {"", "0", "false", "f", "h", "no", "n", "normal", "healthy", "ok", "up",
                  "benign", "none", "no_fault", "nofault", "non_fault", "nominal"}
FaultMarkers == {"fault", "failure", "failed", "down", "misconfig", "abnormal",
                 "anomaly", "transient", "flap", "card"}
Affirmative == {"1", "true", "yes", "y"}
CompactLabels == [h |-> "healthy", f |-> "induced_fault", t |-> "transient_fault",
                  th |-> "transient_healthy"]
ScenarioNames == {"single_link_failure", "multiple_link_failure", "misconfiguration",
                  "routing_misconfiguration", "line_card_failure",
                  "icmp_blocked_firewall", "node_failure", "multiple_nodes_failures",
                  "single_node_failure", "snmp_agent_failure"}

\* Mutant of IsFaultLabel: the one letter labels are not special.
IsFaultLabelByWord(cell) ==
  /\ cell.text \notin HealthyValues
  /\ cell.text \in Affirmative \/ cell.has \cap FaultMarkers # {}

\* _is_fault_label.
IsFaultLabel(cell) ==
  \/ cell.text \in {"f", "t"}
  \/ /\ cell.text \notin HealthyValues
     /\ cell.text \in Affirmative \/ cell.has \cap FaultMarkers # {}

\* The substring rules of _normalize_scenario, first match first: the text has
\* every word of all and one of any.
Broken == {"fault", "failure", "down"}
ScenarioRules == <<
  [all |-> {"icmp"}, any |-> {"block", "firewall"}, name |-> "icmp_blocked_firewall"],
  [all |-> {"snmp"}, any |-> {"agent"}, name |-> "snmp_agent_failure"],
  [all |-> {"multiple"}, any |-> {"link"}, name |-> "multiple_link_failure"],
  [all |-> {"single"}, any |-> {"link"}, name |-> "single_link_failure"],
  [all |-> {"multiple"}, any |-> {"node"}, name |-> "multiple_nodes_failures"],
  [all |-> {"single"}, any |-> {"node"}, name |-> "single_node_failure"],
  [all |-> {"link"}, any |-> Broken, name |-> "link_failure"],
  [all |-> {"node"}, any |-> Broken, name |-> "node_failure"],
  [all |-> {"routing"}, any |-> {"misconfig", "fault", "failure"},
   name |-> "routing_misconfiguration"],
  [all |-> {}, any |-> {"misconfig"}, name |-> "misconfiguration"],
  [all |-> {"line"}, any |-> {"card"}, name |-> "line_card_failure"],
  [all |-> {}, any |-> {"transient"}, name |-> "transient_fault"] >>

NormalizeScenario(cell) ==
  LET fits == {i \in 1..Len(ScenarioRules) :
                 /\ ScenarioRules[i].all \subseteq cell.has
                 /\ ScenarioRules[i].any \cap cell.has # {}}
  IN CASE cell.text \in DOMAIN CompactLabels -> CompactLabels[cell.text]
       [] cell.text \in ScenarioNames -> cell.text
       [] cell.text \in HealthyValues \ DOMAIN CompactLabels -> "healthy"
       [] OTHER -> IF fits # {}
                   THEN ScenarioRules[CHOOSE i \in fits : \A j \in fits : i <= j].name
                   ELSE IF cell.text \in Affirmative THEN "annotated_fault" ELSE cell.text

\* The first column of fields with a cell that suits.
FirstOf(row, fields, Suits(_, _)) ==
  LET good == {i \in 1..Len(fields) : Suits(fields[i], row[fields[i]])}
  IN IF good = {} THEN "" ELSE fields[CHOOSE i \in good : \A j \in good : i <= j]

NoCell == [text |-> "", has |-> {}]

\* infer_fault_state: the first label column that is not empty decides.
InferFaultState(row, plan) ==
  LET field == FirstOf(row, plan.label, LAMBDA c, cell : ~Blank(cell))
      cell == IF field = "" THEN NoCell ELSE row[field]
  IN [isFault |-> IsFaultLabel(cell), scenario |-> NormalizeScenario(cell)]

-----------------------------------------------------------------------------
(* Identity and time. *)

LowSemantic(c, cell) == cell.path \/ cell.digits \/ About[c].low

\* A device name is taken as it is unless it is a number or a path; then the
\* entity columns, then the topology columns.
EntityKey(row, plan) ==
  LET named == FirstOf(row, Columns, LAMBDA c, cell :
                 c \in Visible /\ "device" \in About[c].names /\ ~Blank(cell))
      useful(c, cell) == ~Blank(cell) /\ ~LowSemantic(c, cell)
      entity == FirstOf(row, plan.entity, useful)
      topology == FirstOf(row, plan.topology, useful)
  IN IF named # "" /\ ~row[named].path /\ ~row[named].digits THEN row[named].text
     ELSE IF entity # "" THEN row[entity].text
     ELSE IF topology # "" THEN row[topology].text
     ELSE "unknown"

\* _event_timestamp: the row's own time, or the row number in seconds after 1970.
TimestampSource(row, plan) ==
  IF plan.time # "" /\ row[plan.time].time THEN "source" ELSE "generated"

CanonicalEvent(row, plan, run, index) ==
  [id |-> <<run, index>>, entity |-> EntityKey(row, plan),
   timestamp |-> TimestampSource(row, plan), fault |-> InferFaultState(row, plan)]
=============================================================================
