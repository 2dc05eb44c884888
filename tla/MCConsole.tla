------------------------------ MODULE MCConsole -----------------------------
(* Small days for the console. *)
EXTENDS Console

A(id, ts, event, rule, severity, device, blocks) ==
  [id |-> id, ts |-> ts, event |-> event, rule |-> rule, severity |-> severity,
   service |-> "snmp", device |-> device, blocks |-> blocks]
NoReport == [ts |-> Unparsed, raw |-> Unparsed, age |-> None, backlog |-> None, presence |-> 0]

Head_(id, alert, ts, scope, last) ==
  [id |-> id, alert |-> alert, ts |-> ts, scope |-> scope, severity |-> "warning",
   first |-> last, last |-> last]
Reply == [summary |-> "s", hypotheses |-> <<"h1", "h2">>, actions |-> <<"a1">>,
          confidence |-> 65, basis |-> {}]
Thin == [has |-> {}, similar |-> 0, size |-> 0, suspected |-> FALSE, gate |-> None]
Rich == [has |-> {"service", "src_device_key", "path_signature", "metrics", "selected_node_ids",
                  "root_candidate_nodes", "neighbor_refs"},
         similar |-> 3, size |-> 3, suspected |-> TRUE,
         gate |-> [invoke |-> TRUE, lowEvidence |-> FALSE]]
S(id, alert, ts) == Suggestion(Head_(id, alert, ts, "alert", ts), Thin, Reply)

Nothing == [alerts |-> <<>>, suggestions |-> <<>>, midnight |-> FALSE, unmount |-> FALSE,
            migrations |-> 0]

Base == [alerts |-> << <<A("a1", 5, 4, "r", "warning", "d1", {"device"})>> >>,
         suggestions |-> << <<S("s1", "a1", 6)>> >>, coming |-> Nothing,
         report |-> NoReport, now |-> 6, faults |-> MaxFaults]

\* The files grow while a connection, a gateway, a request or a line breaks.
Breaking == [Base EXCEPT !.faults = 0,
                         !.coming.suggestions = <<S("s2", "a1", 8)>>]

\* They grow and the day ends.
Growing == [Base EXCEPT !.coming.alerts = <<A("a2", 7, 7, "r", "warning", "d1", {})>>,
                        !.coming.suggestions = <<S("s2", "a2", 8)>>, !.coming.midnight = TRUE]

\* The page is left, whatever breaks.
Leaving == [Base EXCEPT !.faults = 0, !.coming.unmount = TRUE]

\* Nothing to show yet.
Empty == [Base EXCEPT !.alerts = <<>>, !.suggestions = <<>>,
                      !.coming.suggestions = <<S("s1", "a1", 6)>>]

\* Suggestions of an agent of before; a torn line; one more while they are rewritten.
Old(id, b) == LegacySuggestion(Head_(id, "a1", 6, "alert", 6),
                [size |-> 1, similar |-> 0, has |-> {"service"}], b, Reply)
Migrating == [Base EXCEPT !.suggestions = << <<Old("o1", Thin), S("s1", "a1", 6)>> >>,
                          !.coming.suggestions = <<S("s2", "a1", 8)>>,
                          !.coming.migrations = 1]
Killed == [Base EXCEPT !.suggestions = << <<Old("o1", Thin)>>, <<Old("o2", Rich)>> >>,
                       !.faults = MaxFaults - 1, !.coming.migrations = 1]
TornLegacy == [Base EXCEPT !.suggestions = << <<Old("o1", Thin), Torn, Old("o2", Rich)>> >>,
                           !.coming.migrations = 1]

\* One record of every shape.
Silent == [Reply EXCEPT !.hypotheses = <<>>, !.actions = <<>>]
Gated(low) == [Rich EXCEPT !.gate = [invoke |-> FALSE, lowEvidence |-> low]]
Shapes ==
  { Suggestion(Head_("x", "a1", 6, scope, 5), b, answer) :
      scope \in {"alert", "cluster"}, b \in {Thin, Rich, Gated(TRUE), Gated(FALSE)},
      answer \in {Reply, Silent} }
  \cup {Old("x", Thin), Old("x", Rich)}
Shaped == {[Base EXCEPT !.suggestions = << <<r>> >>] : r \in Shapes}

\* The newest suggestion is of yesterday, of tomorrow, or has no time.
Times == {[Base EXCEPT !.suggestions = << <<S("s1", "a1", 6), S("s2", "a1", ts)>> >>,
                       !.now = clock] : ts \in {Unparsed, 8, 106}, clock \in {6, 106}}

AlertIds == <<"a1", "a2", "a3", "a4", "a5">>
Ids == <<"s1", "s2", "s3", "s4", "s5">>

\* More alerts and suggestions than the feed takes, and a raw sample that is old.
Many(n) ==
  [Base EXCEPT
     !.alerts = << [i \in 1..n |-> A(AlertIds[i], 10 + i, 10 + i, "r", "warning",
                                     IF i = 1 THEN "d1" ELSE "d2", {})] >>,
     !.suggestions = << [i \in 1..n |-> S(Ids[i], AlertIds[i], 20 + i)] >>,
     !.report = [ts |-> 4, raw |-> 4, age |-> 10, backlog |-> FALSE, presence |-> 50]]

MCScenarios ==
  {Breaking, Growing, Leaving, Empty, Migrating, Killed, TornLegacy, Many(3), Many(5)}
  \cup Shaped \cup Times

MCAlerts == UNION {UNION {Items(file) : file \in Items(s.alerts)} \cup Items(s.coming.alerts) :
                   s \in MCScenarios}
MCHeads ==
  {Head_(id, alert, ts, "alert", ts) :
     id \in {"s1", "s2"}, alert \in {"a1", "a2"}, ts \in {Unparsed, 6, 8, 106}}
  \cup {Head_(Ids[i], AlertIds[i], 20 + i, "alert", 20 + i) : i \in 1..5}
  \cup {Head_(id, "a1", 6, "alert", 6) : id \in {"o1", "o2", "x"}}
  \cup {Head_("x", "a1", 6, scope, 5) : scope \in {"alert", "cluster"}}
MCBundles == {Thin, Rich, Gated(TRUE), Gated(FALSE)}
MCContexts == {[size |-> 1, similar |-> 0, has |-> {"service"}]}
MCAnswers == {Reply, Silent}
=============================================================================
