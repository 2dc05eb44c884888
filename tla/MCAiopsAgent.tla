---------------------------- MODULE MCAiopsAgent ----------------------------
(* One partition; two alerts of one key whose times do not parse and are   *)
(* read as one of two, one of another key, one below the floor, junk.      *)
EXTENDS AiopsAgent

CONSTANTS p1, a1, a2, lone, k1, k2

MCPartitions == {p1}
MCMaxLog == [p \in MCPartitions |-> 3]
MCAlerts == {a1, a2, lone}
MCRecords == MCAlerts \cup {Minor, Junk}
MCKeys == {k1, k2}
MCKeyOf == [a \in MCAlerts |-> IF a = lone THEN k2 ELSE k1]
MCStamps ==
  [a \in MCAlerts |-> IF a = a1 THEN {1, 3} ELSE IF a = a2 THEN {2, 4} ELSE {2}]

=============================================================================
