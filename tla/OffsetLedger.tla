---------------------------- MODULE OffsetLedger ----------------------------
(***************************************************************************)
(* What a core consumer promises about offsets, whatever it does with the  *)
(* records: records are taken one at a time and in order, the offset of a  *)
(* record is committed only after its fate is settled, and neither a       *)
(* rebalance nor a restart moves a committed offset.                       *)
(*                                                                         *)
(* Positions count records: position n of a partition is just behind its   *)
(* n-th record.                                                            *)
(***************************************************************************)
EXTENDS Integers

CONSTANTS
  Partitions,   \* partitions assigned to the consumer
  None          \* no record is being handled

VARIABLES
  end,          \* end[p]: records in the partition
  position,     \* position[p]: records taken from the partition
  committed,    \* committed[p]: last committed position, NoOffset if none
  hand,         \* partition of the record being handled, or None
  settled       \* records <<p, n>> whose fate has been settled

vars == <<end, position, committed, hand, settled>>

NoOffset == -1

InHand == <<hand, position[hand]>>

\* A committed offset is where a partition resumes; without one the reset
\* policy picks the first record or skips to the end.
ResumePoints(p) ==
  IF committed[p] = NoOffset THEN {0, end[p]} ELSE {committed[p]}

Append(p) ==
  /\ end' = [end EXCEPT ![p] = @ + 1]
  /\ UNCHANGED <<position, committed, hand, settled>>

\* Take the next record, and perhaps settle it on the spot.
Take(p) ==
  /\ hand = None
  /\ position[p] < end[p]
  /\ position' = [position EXCEPT ![p] = @ + 1]
  /\ hand' = p
  /\ \/ settled' = settled
     \/ settled' = settled \cup {<<p, position[p] + 1>>}
  /\ UNCHANGED <<end, committed>>

Settle ==
  /\ hand # None
  /\ settled' = settled \cup {InHand}
  /\ UNCHANGED <<end, position, committed, hand>>

\* The commit covers every partition's position; it may fail unnoticed.
Finish ==
  /\ hand # None
  /\ InHand \in settled
  /\ committed' \in {committed, position}
  /\ hand' = None
  /\ UNCHANGED <<end, position, settled>>

\* Handling ended without a commit of its own.
GiveUp ==
  /\ hand # None
  /\ settled' = settled \cup {InHand}
  /\ hand' = None
  /\ UNCHANGED <<end, position, committed>>

\* A rebalance between two records, or a crash at any point.  The records a
\* partition resumes behind are settled: nothing will take them again.
Resume ==
  /\ hand' = None
  /\ position' \in [Partitions -> Nat]
  /\ \A p \in Partitions : position'[p] \in ResumePoints(p)
  /\ settled' = settled \cup
       UNION {{<<p, n>> : n \in 1..position'[p]} : p \in Partitions}
  /\ UNCHANGED <<end, committed>>

Init ==
  /\ end = [p \in Partitions |-> 0]
  /\ position = [p \in Partitions |-> 0]
  /\ committed = [p \in Partitions |-> NoOffset]
  /\ hand = None
  /\ settled = {}

Next ==
  \/ \E p \in Partitions : Append(p) \/ Take(p)
  \/ Settle \/ Finish \/ GiveUp \/ Resume

Spec == Init /\ [][Next]_vars

-----------------------------------------------------------------------------
TypeOK ==
  /\ end \in [Partitions -> Nat]
  /\ position \in [Partitions -> Nat]
  /\ committed \in [Partitions -> Nat \cup {NoOffset}]
  /\ hand \in Partitions \cup {None}
  /\ settled \subseteq Partitions \X (Nat \ {0})

\* Only the record in hand may be unsettled behind a position.
TakenIsSettled ==
  \A p \in Partitions : \A n \in 1..position[p] :
    <<p, n>> \in settled \/ (hand = p /\ n = position[p])

\* A partition is never read from before its committed offset.
CommittedIsTaken == \A p \in Partitions : committed[p] <= position[p]

\* No restart can skip a record whose fate is open: everything before a
\* committed offset is settled.
CommittedIsSettled ==
  \A p \in Partitions : \A n \in 1..committed[p] : <<p, n>> \in settled

\* A committed offset never moves back.
CommitsAdvance ==
  [][\A p \in Partitions : committed[p] <= committed'[p]]_vars

=============================================================================
