----------------------------- MODULE AlertTopic -----------------------------
(***************************************************************************)
(* What the two consumers of the alert topic, the alert store and the      *)
(* alert sink, have in common: the records of the topic, and a loop that   *)
(* has one of them in hand.                                                *)
(***************************************************************************)
EXTENDS ConsumerGroup

CONSTANTS
  Alerts,   \* alerts the correlator may publish
  Junk      \* a record that is not JSON

ASSUME AlertAssumption == Records \subseteq Alerts \cup {Junk} /\ Junk \notin Alerts

VARIABLES
  pc,        \* what the loop does next with the record in hand
  outcome    \* history: <<location, how>> each handling ended

EndsAs(loc, how) == outcome' = outcome \cup {<<loc, how>>}

=============================================================================
