---------------------------- MODULE MCRuleEngine ----------------------------
(* One key per rule, three scenarios, times 0..5 in any order.  Events that *)
(* meet one rule or two, a fault named healthy, one without a usable time.  *)
EXTENDS RuleEngine

CONSTANTS d, s, x, A, B

MCDevices == {d}
MCSources == {s}
MCEntities == {x}
MCScenarios == {A, B, Healthy}
MCWindow == [r \in WindowRules |-> 2]
MCThreshold == [r \in WindowRules |-> IF r = "deny_burst" THEN 2 ELSE 3]

Event(ts, deny, bytes, mark) ==
  [ts |-> ts, deny |-> deny, bytes |-> bytes, device |-> d, source |-> s,
   entity |-> x, mark |-> mark]

MCTimed ==
  UNION {{Event(t, TRUE, 0, Unmarked), Event(t, TRUE, 1, Unmarked),
          Event(t, FALSE, 2, Unmarked), Event(t, FALSE, 0, A),
          Event(t, TRUE, 0, B), Event(t, FALSE, 0, NoFault),
          Event(t, FALSE, 0, Healthy)} : t \in 0..5}

MCEvents == MCTimed \cup {Event(NoTime, TRUE, 1, A)}

\* the same without the fault named healthy
MCNamedScenarios == {A, B}
MCNamedEvents == {e \in MCEvents : e.mark # Healthy}

=============================================================================
