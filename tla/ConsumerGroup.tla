--------------------------- MODULE ConsumerGroup ---------------------------
(***************************************************************************)
(* The Kafka consumer the core programs share: one group member, automatic *)
(* commits off, records yielded one at a time by the consumer's iterator.  *)
(* The broker and the client library are outside the repository and are    *)
(* modelled from how the programs use them; _commit_if_needed is theirs.   *)
(*                                                                         *)
(* log[p] is a partition of the consumed topic.  The iterator advances     *)
(* position[p] before it yields a record, so while a record of p is being  *)
(* handled it is number position[p] of log[p].                             *)
(***************************************************************************)
EXTENDS Integers, Sequences

CONSTANTS
  Partitions,   \* partitions of the topic, all assigned to the one member
  Records,      \* what may be written to the topic
  MaxLog,       \* bound: MaxLog[p] records in partition p
  Earliest,     \* auto_offset_reset = "earliest", else "latest"
  MaxFaults,    \* bound: rebalances and crashes together
  None          \* no record in hand

ASSUME ConsumerAssumption ==
  /\ None \notin Partitions
  /\ MaxLog \in [Partitions -> Nat]
  /\ MaxFaults \in Nat
  /\ Earliest \in BOOLEAN

VARIABLES
  log,          \* log[p]: the records of partition p
  position,     \* position[p]: records yielded so far
  committed,    \* committed[p]: the group's offset, NoOffset before the first
  inHand,       \* partition of the record being handled, or None
  faults        \* rebalances and crashes so far

groupVars == <<log, position, committed, inHand, faults>>

NoOffset == -1

Locations == Partitions \X (Nat \ {0})

\* Location of the record in hand, and the record.
Here    == <<inHand, position[inHand]>>
Current == log[inHand][position[inHand]]

\* The record Poll(p) would yield.
Upcoming(p) == log[p][position[p] + 1]

\* Where the partition resumes when it is assigned.
ResumeAt(p) ==
  IF committed[p] # NoOffset THEN committed[p]
  ELSE IF Earliest THEN 0 ELSE Len(log[p])

\* Locations a resumption puts behind the position.
ResumeSkips == UNION {{<<p, n>> : n \in 1..ResumeAt(p)} : p \in Partitions}

\* Upstream appends a record.
Produce(p, r) ==
  /\ Len(log[p]) < MaxLog[p]
  /\ log' = [log EXCEPT ![p] = Append(@, r)]
  /\ UNCHANGED <<position, committed, inHand, faults>>

\* The iterator yields the next record of some partition.
Poll(p) ==
  /\ inHand = None
  /\ position[p] < Len(log[p])
  /\ position' = [position EXCEPT ![p] = @ + 1]
  /\ inHand' = p
  /\ UNCHANGED <<log, committed, faults>>

\* consumer.commit() without arguments commits the position of every
\* assigned partition.  A failure is logged and the loop goes on.
CommitIfNeeded(shouldCommit) ==
  /\ inHand # None
  /\ inHand' = None
  /\ committed' \in IF shouldCommit THEN {position, committed} ELSE {committed}
  /\ UNCHANGED <<log, position, faults>>

\* The member is assigned its partitions afresh.
Assign ==
  /\ faults < MaxFaults
  /\ faults' = faults + 1
  /\ position' = [p \in Partitions |-> ResumeAt(p)]
  /\ inHand' = None
  /\ UNCHANGED <<log, committed>>

\* A rebalance is noticed when the iterator polls: no record is in hand.
Rebalance == inHand = None /\ Assign

GroupInit ==
  /\ log = [p \in Partitions |-> <<>>]
  /\ position = [p \in Partitions |-> 0]
  /\ committed = [p \in Partitions |-> NoOffset]
  /\ inHand = None
  /\ faults = 0

GroupTypeOK ==
  /\ log \in [Partitions -> Seq(Records)]
  /\ position \in [Partitions -> Nat]
  /\ \A p \in Partitions : Len(log[p]) <= MaxLog[p] /\ position[p] <= Len(log[p])
  /\ committed \in [Partitions -> Nat \cup {NoOffset}]
  /\ inHand \in Partitions \cup {None}
  /\ faults \in 0..MaxFaults

\* Every record has been taken and none is in hand.
Drained == inHand = None /\ \A p \in Partitions : position[p] = Len(log[p])

=============================================================================
