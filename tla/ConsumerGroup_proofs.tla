------------------------ MODULE ConsumerGroup_proofs ------------------------
(***************************************************************************)
(* What every client of ConsumerGroup uses: the group's part of the state  *)
(* keeps its invariant in each of its steps, for any number of partitions  *)
(* and records.                                                            *)
(***************************************************************************)
EXTENDS ConsumerGroup, TLAPS

-----------------------------------------------------------------------------
\* The record in hand has been taken.
HandIsTaken == inHand # None => position[inHand] > 0

\* No offset is ahead of the log.
OffsetsInLog == \A p \in Partitions : committed[p] <= Len(log[p])

GroupInv == GroupTypeOK /\ HandIsTaken /\ OffsetsInLog

\* Types and bounds of one partition's offsets.
LEMMA GroupRange ==
  ASSUME GroupInv, NEW p \in Partitions
  PROVE  /\ log \in [Partitions -> Seq(Records)]
         /\ Len(log[p]) \in Nat /\ MaxLog[p] \in Nat
         /\ position[p] \in Nat
         /\ committed[p] \in Nat \cup {NoOffset}
         /\ Len(log[p]) <= MaxLog[p]
         /\ position[p] <= Len(log[p])
         /\ committed[p] <= Len(log[p])
         /\ ResumeAt(p) \in 0..Len(log[p])
<1>1. /\ log \in [Partitions -> Seq(Records)]
      /\ Len(log[p]) \in Nat /\ MaxLog[p] \in Nat
      /\ position[p] \in Nat /\ committed[p] \in Nat \cup {NoOffset}
      /\ Len(log[p]) <= MaxLog[p]
      /\ position[p] <= Len(log[p])
      /\ committed[p] <= Len(log[p])
  BY ConsumerAssumption
     DEF ConsumerAssumption, GroupInv, GroupTypeOK, OffsetsInLog
<1>2. QED
  BY <1>1 DEF ResumeAt, NoOffset

\* The record in hand lies in the log of its partition.
LEMMA HereIsLocation ==
  ASSUME GroupInv, inHand # None
  PROVE  /\ inHand \in Partitions
         /\ position[inHand] \in 1..Len(log[inHand])
         /\ Here \in Locations
<1>1. inHand \in Partitions
  BY DEF GroupInv, GroupTypeOK
<1>2. position[inHand] \in 1..Len(log[inHand])
  BY <1>1, GroupRange DEF GroupInv, HandIsTaken
<1>3. QED
  BY <1>1, <1>2 DEF Here, Locations

\* What a resumption passes over are places of a log.
LEMMA ResumeSkipsLocations == GroupInv => ResumeSkips \subseteq Locations
<1> SUFFICES ASSUME GroupInv, NEW p \in Partitions, NEW n \in 1..ResumeAt(p)
             PROVE  <<p, n>> \in Locations
  BY DEF ResumeSkips
<1>1. n \in Nat \ {0}
  BY GroupRange
<1>2. QED
  BY <1>1 DEF Locations

\* The group starts within its invariant.
LEMMA GroupStart == GroupInit => GroupInv
<1> SUFFICES ASSUME GroupInit
             PROVE  GroupInv
  OBVIOUS
<1>1. \A p \in Partitions : log[p] = <<>> /\ Len(log[p]) = 0 /\ MaxLog[p] \in Nat
  BY ConsumerAssumption DEF ConsumerAssumption, GroupInit
<1>2. GroupTypeOK
  BY <1>1, ConsumerAssumption
     DEF GroupInit, GroupTypeOK, ConsumerAssumption, NoOffset
<1>3. QED
  BY <1>1, <1>2 DEF GroupInv, GroupInit, HandIsTaken, OffsetsInLog, NoOffset

\* An upstream record only lengthens a partition.
LEMMA ProduceKeeps ==
  ASSUME GroupInv, NEW p \in Partitions, NEW r \in Records, Produce(p, r)
  PROVE  /\ GroupInv'
         /\ \A q \in Partitions :
              Len(log'[q]) = IF q = p THEN Len(log[q]) + 1 ELSE Len(log[q])
         /\ \A q \in Partitions : \A n \in 1..Len(log[q]) : log'[q][n] = log[q][n]
<1>1. /\ Len(log[p]) < MaxLog[p]
      /\ log' = [log EXCEPT ![p] = Append(@, r)]
      /\ UNCHANGED <<position, committed, inHand, faults>>
  BY DEF Produce
<1>2. log \in [Partitions -> Seq(Records)]
  BY GroupRange
<1>3. log' \in [Partitions -> Seq(Records)]
  BY <1>1, <1>2
<1>4. \A q \in Partitions :
        Len(log'[q]) = IF q = p THEN Len(log[q]) + 1 ELSE Len(log[q])
  BY <1>1, <1>2
<1>5. \A q \in Partitions : \A n \in 1..Len(log[q]) : log'[q][n] = log[q][n]
  BY <1>1, <1>2
<1>6. \A q \in Partitions : /\ Len(log'[q]) <= MaxLog[q]
                            /\ position[q] <= Len(log'[q])
                            /\ committed[q] <= Len(log'[q])
  BY <1>1, <1>4, GroupRange DEF NoOffset
<1>7. GroupTypeOK'
  BY <1>1, <1>3, <1>6 DEF GroupInv, GroupTypeOK
<1>8. HandIsTaken' /\ OffsetsInLog'
  BY <1>1, <1>6 DEF GroupInv, HandIsTaken, OffsetsInLog
<1>9. QED
  BY <1>4, <1>5, <1>7, <1>8 DEF GroupInv

\* Handing out a record moves one position by one.
LEMMA PollKeeps ==
  ASSUME GroupInv, NEW p \in Partitions, Poll(p)
  PROVE  /\ GroupInv'
         /\ inHand' = p /\ inHand' # None
         /\ position' = [position EXCEPT ![p] = @ + 1]
         /\ Here' = <<p, position[p] + 1>>
         /\ <<p, position[p] + 1>> \in Locations
         /\ Current' = Upcoming(p)
         /\ UNCHANGED <<log, committed>>
<1>1. /\ position[p] < Len(log[p])
      /\ position' = [position EXCEPT ![p] = @ + 1]
      /\ inHand' = p
      /\ UNCHANGED <<log, committed, faults>>
  BY DEF Poll
<1>2. position \in [Partitions -> Nat] /\ position[p] \in Nat
  BY DEF GroupInv, GroupTypeOK
<1>3. position'[p] = position[p] + 1
  BY <1>1, <1>2
<1>4. p # None
  BY ConsumerAssumption DEF ConsumerAssumption
<1>5. \A q \in Partitions : position'[q] <= Len(log[q])
  BY <1>1, <1>2, GroupRange
<1>6. GroupTypeOK'
  BY <1>1, <1>2, <1>5 DEF GroupInv, GroupTypeOK
<1>7. HandIsTaken' /\ OffsetsInLog'
  BY <1>1, <1>2, <1>3 DEF GroupInv, HandIsTaken, OffsetsInLog
<1>8. <<p, position[p] + 1>> \in Locations
  BY <1>2 DEF Locations
<1>9. QED
  BY <1>1, <1>3, <1>4, <1>6, <1>7, <1>8 DEF GroupInv, Here, Current, Upcoming

\* commit() moves every committed offset to its position, or none.
LEMMA CommitKeeps ==
  ASSUME GroupInv, NEW b, CommitIfNeeded(b)
  PROVE  /\ GroupInv' /\ inHand' = None
         /\ committed' \in {position, committed}
         /\ ~b => committed' = committed
         /\ UNCHANGED <<log, position, faults>>
<1>1. /\ inHand' = None
      /\ committed' \in {position, committed}
      /\ ~b => committed' = committed
      /\ UNCHANGED <<log, position, faults>>
  BY DEF CommitIfNeeded
<1>2. \A p \in Partitions : committed'[p] <= Len(log[p])
  BY <1>1, GroupRange
<1>3. committed' \in [Partitions -> Nat \cup {NoOffset}]
  BY <1>1 DEF GroupInv, GroupTypeOK
<1>4. QED
  BY <1>1, <1>2, <1>3 DEF GroupInv, GroupTypeOK, HandIsTaken, OffsetsInLog

\* An assignment moves positions back to where each partition resumes.
LEMMA AssignKeeps ==
  ASSUME GroupInv, Assign
  PROVE  /\ GroupInv' /\ inHand' = None
         /\ position' = [p \in Partitions |-> ResumeAt(p)]
         /\ UNCHANGED <<log, committed>>
<1>1. /\ faults < MaxFaults /\ faults' = faults + 1
      /\ position' = [p \in Partitions |-> ResumeAt(p)]
      /\ inHand' = None
      /\ UNCHANGED <<log, committed>>
  BY DEF Assign
<1>2. position' \in [Partitions -> Nat]
  BY <1>1, GroupRange
<1>3. \A p \in Partitions : position'[p] <= Len(log[p])
  BY <1>1, GroupRange
<1>4. faults' \in 0..MaxFaults
  BY <1>1, ConsumerAssumption
     DEF ConsumerAssumption, GroupInv, GroupTypeOK
<1>5. GroupTypeOK'
  BY <1>1, <1>2, <1>3, <1>4 DEF GroupInv, GroupTypeOK
<1>6. QED
  BY <1>1, <1>5 DEF GroupInv, HandIsTaken, OffsetsInLog

\* A step of the client alone leaves the group's invariant.
LEMMA GroupStutter ==
  ASSUME GroupInv, UNCHANGED groupVars
  PROVE  GroupInv' /\ Here' = Here
BY DEF GroupInv, GroupTypeOK, HandIsTaken, OffsetsInLog, groupVars, Here

=============================================================================
