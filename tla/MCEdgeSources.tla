--------------------------- MODULE MCEdgeSources ----------------------------
(***************************************************************************)
(* The two programs that fill the directory the forwarder tails.  An edge  *)
(* runs one of them: feed says which, and the other does not move.         *)
(***************************************************************************)
EXTENDS EdgeIngest, LcoreStreamer

VARIABLE feed

Cell(t) == [text |-> t, has |-> {}, number |-> FALSE, value |-> 0, time |-> FALSE,
            path |-> FALSE, digits |-> FALSE]
Words(t, w) == [Cell(t) EXCEPT !.has = w]
Number(t, n) == [Cell(t) EXCEPT !.number = TRUE, !.value = n, !.digits = TRUE]

MCColumns == <<"_source_file", "when", "class", "oper_status", "router", "link", "bytes">>
Plain == [hidden |-> FALSE, marks |-> {}, direct |-> FALSE, status |-> FALSE,
          names |-> {}, pref |-> 0, low |-> FALSE, alpha |-> 0]
MCAbout ==
  [c \in {"_source_file", "when", "class", "oper_status", "router", "link", "bytes"} |->
    CASE c = "_source_file" -> [Plain EXCEPT !.hidden = TRUE, !.alpha = 1]
      [] c = "when" -> [Plain EXCEPT !.marks = {"time", "no metric"}, !.alpha = 7]
      [] c = "class" -> [Plain EXCEPT !.marks = {"label", "no metric"}, !.direct = TRUE, !.alpha = 3]
      [] c = "oper_status" -> [Plain EXCEPT !.marks = {"label", "no metric"}, !.alpha = 5]
      [] c = "router" -> [Plain EXCEPT !.marks = {"entity", "topology", "no metric"},
                                       !.names = {"device"}, !.pref = 1, !.alpha = 6]
      [] c = "link" -> [Plain EXCEPT !.marks = {"entity", "topology", "no metric"}, !.alpha = 4]
      [] c = "bytes" -> [Plain EXCEPT !.alpha = 2]]

\* The labels of the data set, as the normalised text and what it contains.
Labels == {
  Cell("h"), Cell("f"), Cell("t"), Cell("th"), Cell(""), Words("no_fault", {"fault"}),
  Words("single_link_failure", {"single", "link", "failure"}),
  Words("multiple_link_failures", {"multiple", "link", "failure"}),
  Words("misconfiguration", {"misconfig"}),
  Words("routing_misconfig", {"routing", "misconfig"}),
  Words("line_card_failure", {"line", "card", "failure"}),
  Words("icmp_blocked_by_firewall", {"icmp", "block", "firewall"}),
  Words("node_failure", {"node", "failure"}),
  Words("multiple_node_failure", {"multiple", "node", "failure"}),
  Words("single_node_down", {"single", "node", "down"}),
  Words("snmp_agent_failure", {"snmp", "agent", "failure"}) }

MCRow(when, label, status, router, bytes) ==
  [c \in {"_source_file", "when", "class", "oper_status", "router", "link", "bytes"} |->
    CASE c = "_source_file" -> Cell("file") [] c = "when" -> when [] c = "class" -> label
      [] c = "oper_status" -> status [] c = "router" -> router [] c = "link" -> Cell("l1")
      [] c = "bytes" -> bytes]

Stamp == [Cell("2025-01-01") EXCEPT !.time = TRUE]
MCTables ==
  {<<>>} \cup
  { << MCRow(Stamp, Cell("h"), Cell("up"), Cell("r1"), Number("10", 10)),
       MCRow(Stamp, l, Cell("up"), Number("7", 7), Number("1000", 1000)),
       MCRow(Cell(""), Cell(""), Words("down", {"down"}), Cell("r2"), Number("0", 0)) >>
    : l \in Labels }

Line(loop, maxLoops, maxRecords, runId, reset) ==
  [loop |-> loop, maxLoops |-> maxLoops, maxRecords |-> maxRecords,
   runId |-> runId, reset |-> reset]
MCArguments == { Line(FALSE, 0, 0, 0, FALSE), Line(FALSE, 0, 2, 0, FALSE),
                 Line(TRUE, 0, 0, 0, FALSE), Line(TRUE, 2, 0, 9, FALSE),
                 Line(TRUE, 0, 0, 0, TRUE) }

SourcesInit ==
  /\ Init /\ StreamerInit
  /\ \/ feed = "lcore" /\ method = "rename"
     \/ feed = "fortigate" /\ table = <<>> /\ args = Line(FALSE, 0, 0, 0, FALSE)

SourcesNext ==
  \/ feed = "fortigate" /\ Next /\ UNCHANGED <<streamVars, feed>>
  \/ feed = "lcore" /\ StreamerNext /\ UNCHANGED <<vars, feed>>

SourcesSpec == SourcesInit /\ [][SourcesNext]_<<vars, streamVars, feed>>

FairSources ==
  /\ SourcesSpec
  /\ WF_<<vars, streamVars, feed>>(feed = "fortigate" /\ Loop /\ UNCHANGED <<streamVars, feed>>)
  /\ \A n \in Names : WF_<<vars, streamVars, feed>>(
       feed = "fortigate" /\ Age(n) /\ UNCHANGED <<streamVars, feed>>)
=============================================================================
