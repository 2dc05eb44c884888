----------------------- MODULE AlertConsumers_proofs -----------------------
(***************************************************************************)
(* The two consumers of the alert topic, for any partitions, alerts and    *)
(* number of rebalances and crashes.                                       *)
(*                                                                         *)
(* The alert store keeps its types, implements the offset promise of       *)
(* OffsetLedger, and what is behind a committed offset is in the table or  *)
(* has a recorded reason not to be; no alert has more rows than            *)
(* deliveries.                                                             *)
(*                                                                         *)
(* The alert sink: what is behind a committed offset is in the file, in    *)
(* the dead letter topic, or among the losses that are known; it           *)
(* implements the same promise.                                            *)
(***************************************************************************)
EXTENDS AlertsStore, AlertsSink, TLAPS

-----------------------------------------------------------------------------
\* The record in hand has been taken.
HandIsTaken == inHand # None => position[inHand] > 0

\* No offset is ahead of the log.
OffsetsInLog == \A p \in Partitions : committed[p] <= Len(log[p])

\* A handling that only has to commit has ended in some way.
CommitReady == pc = "commit" => Here \in Settled

\* A handling that ended as stored left a row.
StoredHasRow == \A loc \in Slots : <<loc, "stored">> \in outcome => rows[loc] > 0

StoreInv == TypeOK /\ HandIsTaken /\ OffsetsInLog /\ CommitReady /\ StoredHasRow

-----------------------------------------------------------------------------
\* The locations in use are within the bounds.
LEMMA GroupTypes ==
  ASSUME StoreInv, NEW p \in Partitions
  PROVE  /\ log \in [Partitions -> Seq(Records)]
         /\ Len(log[p]) \in Nat /\ MaxLog[p] \in Nat
         /\ position[p] \in Nat /\ committed[p] \in Int
         /\ Len(log[p]) <= MaxLog[p]
         /\ position[p] <= Len(log[p])
         /\ committed[p] <= Len(log[p])
         /\ ResumeAt(p) \in 0..Len(log[p])
<1>1. /\ log \in [Partitions -> Seq(Records)]
      /\ Len(log[p]) \in Nat /\ MaxLog[p] \in Nat
      /\ position[p] \in Nat /\ committed[p] \in Nat \cup {NoOffset}
      /\ Len(log[p]) <= MaxLog[p]
      /\ position[p] <= Len(log[p])
      /\ committed[p] <= Len(log[p])
  BY ConsumerAssumption
     DEF ConsumerAssumption, StoreInv, TypeOK, GroupTypeOK, OffsetsInLog
<1>2. QED
  BY <1>1 DEF ResumeAt, NoOffset

\* Every place of the log has its count of rows.
LEMMA SlotsMembers ==
  ASSUME NEW p \in Partitions, NEW n \in 1..MaxLog[p]
  PROVE  <<p, n>> \in Slots
BY DEF Slots

\* The record in hand lies in the log.
LEMMA HereIsSlot ==
  ASSUME StoreInv, inHand # None
  PROVE  inHand \in Partitions /\ position[inHand] \in Nat \ {0} /\ Here \in Slots
<1>1. inHand \in Partitions
  BY DEF StoreInv, TypeOK, GroupTypeOK
<1>2. position[inHand] \in Nat \ {0} /\ position[inHand] \in 1..MaxLog[inHand]
  BY <1>1, GroupTypes DEF StoreInv, HandIsTaken
<1>3. QED
  BY <1>1, <1>2, SlotsMembers DEF Here

\* Recording how a handling ended settles its location.
LEMMA EndingSettles ==
  ASSUME NEW loc, NEW how, outcome' = outcome \cup {<<loc, how>>}
  PROVE  Settled' = Settled \cup {loc}
<1>1. Settled' = {z[1] : z \in outcome \cup {<<loc, how>>}}
  BY DEF Settled
<1>2. <<loc, how>>[1] = loc
  OBVIOUS
<1>3. {z[1] : z \in outcome \cup {<<loc, how>>}} =
        {z[1] : z \in outcome} \cup {loc}
  BY <1>2
<1>4. QED
  BY <1>1, <1>3 DEF Settled

\* What a resumption leaves settled.
LEMMA SkipSettles ==
  ASSUME StoreInv, Skip
  PROVE  /\ outcome \subseteq outcome'
         /\ outcome' \subseteq Slots \X Hows
         /\ Settled' = Settled \cup ResumeSkips
         /\ \A loc \in Slots : <<loc, "stored">> \in outcome' => <<loc, "stored">> \in outcome
<1> DEFINE fresh == {l \in ResumeSkips : \A how \in Hows : <<l, how>> \notin outcome}
<1> DEFINE added == {<<loc, "skipped">> : loc \in fresh}
<1>1. outcome' = outcome \cup added
  BY DEF Skip
<1>2. ResumeSkips \subseteq Slots
  <2> SUFFICES ASSUME NEW p \in Partitions, NEW n \in 1..ResumeAt(p)
               PROVE  <<p, n>> \in Slots
    BY DEF ResumeSkips
  <2>1. n \in 1..MaxLog[p]
    BY GroupTypes
  <2>2. QED
    BY <2>1, SlotsMembers
<1>3. outcome \subseteq Slots \X Hows
  BY DEF StoreInv, TypeOK
<1>4. "skipped" \in Hows
  BY DEF Hows
<1>5. added \subseteq Slots \X Hows
  BY <1>2, <1>4
<1>6. Settled' = Settled \cup fresh
  <2>1. Settled' = {z[1] : z \in outcome \cup added}
    BY <1>1 DEF Settled
  <2>2. {z[1] : z \in outcome \cup added} = {z[1] : z \in outcome} \cup fresh
    <3>1. \A l \in fresh : <<l, "skipped">> \in added /\ <<l, "skipped">>[1] = l
      OBVIOUS
    <3>2. \A z \in added : z[1] \in fresh
      OBVIOUS
    <3>3. QED
      BY <3>1, <3>2
  <2>3. QED
    BY <2>1, <2>2 DEF Settled
<1>7. ResumeSkips \subseteq Settled \cup fresh
  <2> SUFFICES ASSUME NEW l \in ResumeSkips, l \notin fresh
               PROVE  l \in Settled
    OBVIOUS
  <2>1. PICK how \in Hows : <<l, how>> \in outcome
    OBVIOUS
  <2>2. <<l, how>>[1] = l
    OBVIOUS
  <2>3. QED
    BY <2>1, <2>2 DEF Settled
<1>8. QED
  BY <1>1, <1>3, <1>5, <1>6, <1>7

-----------------------------------------------------------------------------
\* The store starts within its invariant.
LEMMA StoreInit == Init => StoreInv
<1> SUFFICES ASSUME Init
             PROVE  StoreInv
  OBVIOUS
<1>1. \A p \in Partitions : log[p] = <<>> /\ Len(log[p]) = 0 /\ MaxLog[p] \in Nat
  BY ConsumerAssumption DEF ConsumerAssumption, Init, GroupInit
<1>2. GroupTypeOK
  BY <1>1, ConsumerAssumption
     DEF Init, GroupInit, GroupTypeOK, ConsumerAssumption, NoOffset
<1>3. TypeOK
  BY <1>2 DEF TypeOK, Init, GroupInit
<1>4. HandIsTaken /\ OffsetsInLog /\ CommitReady /\ StoredHasRow
  BY <1>1 DEF Init, GroupInit, HandIsTaken, OffsetsInLog, CommitReady,
              StoredHasRow, NoOffset
<1>5. QED
  BY <1>3, <1>4 DEF StoreInv

\* An upstream record only lengthens a partition.
LEMMA AlertStep ==
  ASSUME StoreInv, NEW p \in Partitions, NEW r \in Records, Alert(p, r)
  PROVE  /\ StoreInv'
         /\ \A q \in Partitions :
              Len(log'[q]) = IF q = p THEN Len(log[q]) + 1 ELSE Len(log[q])
<1>1. /\ Len(log[p]) < MaxLog[p]
      /\ log' = [log EXCEPT ![p] = Append(@, r)]
      /\ UNCHANGED <<position, committed, inHand, faults, pc, rows, outcome>>
  BY DEF Alert, Produce, ownVars
<1>2. log \in [Partitions -> Seq(Records)]
  BY GroupTypes
<1>3. log' \in [Partitions -> Seq(Records)]
  BY <1>1, <1>2
<1>4. \A q \in Partitions :
        Len(log'[q]) = IF q = p THEN Len(log[q]) + 1 ELSE Len(log[q])
  BY <1>1, <1>2
<1>5. \A q \in Partitions : /\ Len(log'[q]) <= MaxLog[q]
                            /\ position[q] <= Len(log'[q])
                            /\ committed[q] <= Len(log'[q])
  BY <1>1, <1>4, GroupTypes
<1>6. TypeOK'
  BY <1>1, <1>3, <1>5 DEF StoreInv, TypeOK, GroupTypeOK
<1>7. OffsetsInLog'
  BY <1>1, <1>5 DEF OffsetsInLog
<1>8. (HandIsTaken /\ CommitReady /\ StoredHasRow)'
  BY <1>1 DEF StoreInv, HandIsTaken, CommitReady, StoredHasRow, Here, Settled
<1>9. QED
  BY <1>4, <1>6, <1>7, <1>8 DEF StoreInv
\* What taking a record does to the shared part of the state.
LEMMA PollStep ==
  ASSUME StoreInv, NEW p \in Partitions, Poll(p)
  PROVE  /\ GroupTypeOK'
         /\ inHand' = p /\ inHand' # None
         /\ position'[p] = position[p] + 1
         /\ Here' = <<p, position[p] + 1>>
         /\ <<p, position[p] + 1>> \in Slots
         /\ HandIsTaken' /\ OffsetsInLog'
<1>1. /\ position[p] < Len(log[p])
      /\ position' = [position EXCEPT ![p] = @ + 1]
      /\ inHand' = p
      /\ UNCHANGED <<log, committed, faults>>
  BY DEF Poll
<1>2. position \in [Partitions -> Nat] /\ position[p] \in Nat
  BY DEF StoreInv, TypeOK, GroupTypeOK
<1>3. position'[p] = position[p] + 1
  BY <1>1, <1>2
<1>4. p # None
  BY ConsumerAssumption DEF ConsumerAssumption
<1>5. <<p, position[p] + 1>> \in Slots
  <2>1. position[p] + 1 \in 1..MaxLog[p]
    BY <1>1, GroupTypes
  <2>2. QED
    BY <2>1, SlotsMembers
<1>6. \A q \in Partitions : position'[q] <= Len(log[q])
  BY <1>1, <1>2, GroupTypes
<1>7. GroupTypeOK'
  BY <1>1, <1>2, <1>6 DEF StoreInv, TypeOK, GroupTypeOK
<1>8. HandIsTaken' /\ OffsetsInLog'
  BY <1>1, <1>2, <1>3 DEF StoreInv, HandIsTaken, OffsetsInLog
<1>9. QED
  BY <1>1, <1>3, <1>4, <1>5, <1>7, <1>8 DEF Here

\* A record that is not JSON is settled as it is taken.
LEMMA TakeJunkStep ==
  ASSUME StoreInv, NEW p \in Partitions, TakeJunk(p)
  PROVE  /\ StoreInv'
         /\ Settled' = Settled \cup {<<p, position[p] + 1>>}
<1> DEFINE loc == <<p, position[p] + 1>>
<1>1. /\ Poll(p)
      /\ outcome' = outcome \cup {<<loc, "junk">>}
      /\ pc' = "commit"
      /\ rows' = rows
  BY DEF TakeJunk, EndsAs
<1>2. Settled' = Settled \cup {loc}
  BY <1>1, EndingSettles
<1>3. loc \in Slots
  BY <1>1, PollStep
<1>4. TypeOK'
  <2>1. outcome' \subseteq Slots \X Hows
    BY <1>1, <1>3 DEF StoreInv, TypeOK, Hows
  <2>2. QED
    BY <1>1, <2>1, PollStep DEF StoreInv, TypeOK
<1>5. CommitReady'
  <2>1. Here' \in Settled'
    BY <1>1, <1>2, PollStep
  <2>2. QED
    BY <2>1 DEF CommitReady
<1>6. StoredHasRow'
  BY <1>1 DEF StoreInv, StoredHasRow
<1>7. QED
  BY <1>1, <1>2, <1>4, <1>5, <1>6, PollStep DEF StoreInv

\* An alert in hand is not settled by being taken.
LEMMA TakeStep ==
  ASSUME StoreInv, NEW p \in Partitions, Take(p)
  PROVE  StoreInv'
<1>1. Poll(p) /\ pc' = "insert" /\ UNCHANGED <<rows, outcome>>
  BY DEF Take
<1>2. TypeOK'
  BY <1>1, PollStep DEF StoreInv, TypeOK
<1>3. CommitReady' /\ StoredHasRow'
  BY <1>1 DEF StoreInv, CommitReady, StoredHasRow
<1>4. QED
  BY <1>1, <1>2, <1>3, PollStep DEF StoreInv

\* An insert that returns leaves a row and settles the alert.
LEMMA InsertOkStep ==
  ASSUME StoreInv, InsertOk
  PROVE  /\ StoreInv'
         /\ inHand # None
         /\ Settled' = Settled \cup {Here}
<1>1. /\ pc = "insert" /\ pc' = "commit"
      /\ rows' = [rows EXCEPT ![Here] = @ + 1]
      /\ outcome' = outcome \cup {<<Here, "stored">>}
      /\ UNCHANGED <<log, position, committed, inHand, faults>>
  BY DEF InsertOk, EndsAs, groupVars
<1>2. inHand # None
  BY <1>1 DEF StoreInv, TypeOK
<1>3. Here \in Slots
  BY <1>2, HereIsSlot
<1>4. Settled' = Settled \cup {Here} /\ Here' = Here
  <2>1. Settled' = Settled \cup {Here}
    BY <1>1, EndingSettles
  <2>2. QED
    BY <1>1, <2>1 DEF Here
<1>5. rows \in [Slots -> Nat]
  BY DEF StoreInv, TypeOK
<1>6. TypeOK'
  <2>1. GroupTypeOK'
    BY <1>1 DEF StoreInv, TypeOK, GroupTypeOK
  <2>2. outcome' \subseteq Slots \X Hows
    BY <1>1, <1>3 DEF StoreInv, TypeOK, Hows
  <2>3. rows' \in [Slots -> Nat]
    BY <1>1, <1>3, <1>5
  <2>4. QED
    BY <1>1, <1>2, <2>1, <2>2, <2>3 DEF TypeOK
<1>7. StoredHasRow'
  <2> SUFFICES ASSUME NEW loc \in Slots, <<loc, "stored">> \in outcome'
               PROVE  rows'[loc] > 0
    BY DEF StoredHasRow
  <2>1. CASE loc = Here
    BY <1>1, <1>5, <2>1
  <2>2. CASE loc # Here
    BY <1>1, <1>5, <2>2 DEF StoreInv, StoredHasRow
  <2>3. QED
    BY <2>1, <2>2
<1>8. (HandIsTaken /\ OffsetsInLog /\ CommitReady)'
  BY <1>1, <1>4 DEF StoreInv, HandIsTaken, OffsetsInLog, CommitReady
<1>9. QED
  BY <1>2, <1>4, <1>6, <1>7, <1>8 DEF StoreInv

\* An insert that raises ends the handling, with or without a row.
LEMMA InsertRaisedStep ==
  ASSUME StoreInv, InsertRaised
  PROVE  /\ StoreInv'
         /\ inHand # None
         /\ committed' = committed
         /\ Settled' = Settled \cup {Here}
<1>1. /\ pc = "insert" /\ pc' = "poll"
      /\ rows' \in {rows, [rows EXCEPT ![Here] = @ + 1]}
      /\ outcome' = outcome \cup {<<Here, "failed">>}
      /\ inHand # None /\ inHand' = None
      /\ UNCHANGED <<log, position, committed, faults>>
  BY DEF InsertRaised, EndsAs, CommitIfNeeded
<1>2. Here \in Slots
  BY <1>1, HereIsSlot
<1>3. Settled' = Settled \cup {Here}
  BY <1>1, EndingSettles
<1>4. rows \in [Slots -> Nat]
  BY DEF StoreInv, TypeOK
<1>5. TypeOK'
  <2>1. GroupTypeOK'
    BY <1>1 DEF StoreInv, TypeOK, GroupTypeOK
  <2>2. outcome' \subseteq Slots \X Hows
    BY <1>1, <1>2 DEF StoreInv, TypeOK, Hows
  <2>3. rows' \in [Slots -> Nat]
    BY <1>1, <1>4
  <2>4. QED
    BY <1>1, <2>1, <2>2, <2>3 DEF TypeOK
<1>6. StoredHasRow'
  <2> SUFFICES ASSUME NEW loc \in Slots, <<loc, "stored">> \in outcome'
               PROVE  rows'[loc] > 0
    BY DEF StoredHasRow
  <2>1. rows[loc] \in Nat /\ rows[loc] > 0
    BY <1>1, <1>4 DEF StoreInv, StoredHasRow
  <2>2. QED
    BY <1>1, <1>4, <2>1
<1>7. (HandIsTaken /\ OffsetsInLog /\ CommitReady)'
  BY <1>1 DEF StoreInv, HandIsTaken, OffsetsInLog, CommitReady
<1>8. QED
  BY <1>1, <1>3, <1>5, <1>6, <1>7 DEF StoreInv

\* A commit covers what has been taken and changes no outcome.
LEMMA CommitStep ==
  ASSUME StoreInv, Commit
  PROVE  StoreInv' /\ Settled' = Settled
<1>1. /\ inHand' = None /\ pc' = "poll"
      /\ committed' \in {position, committed}
      /\ UNCHANGED <<log, position, faults, rows, outcome>>
  BY DEF Commit, CommitIfNeeded
<1>2. GroupTypeOK' /\ OffsetsInLog'
  <2>1. \A p \in Partitions : committed'[p] <= Len(log[p])
    BY <1>1, GroupTypes
  <2>2. committed' \in [Partitions -> Nat \cup {NoOffset}]
    BY <1>1 DEF StoreInv, TypeOK, GroupTypeOK
  <2>3. QED
    BY <1>1, <2>1, <2>2 DEF StoreInv, TypeOK, GroupTypeOK, OffsetsInLog
<1>3. TypeOK'
  BY <1>1, <1>2 DEF StoreInv, TypeOK
<1>4. (HandIsTaken /\ CommitReady /\ StoredHasRow)'
  BY <1>1 DEF StoreInv, HandIsTaken, CommitReady, StoredHasRow
<1>5. Settled' = Settled
  BY <1>1 DEF Settled
<1>6. QED
  BY <1>2, <1>3, <1>4, <1>5 DEF StoreInv

\* A rebalance between two records, or a restart after a crash.
LEMMA AssignStep ==
  ASSUME StoreInv, Assign, Skip, pc' = "poll", rows' = rows
  PROVE  /\ StoreInv'
         /\ inHand' = None
         /\ position' = [p \in Partitions |-> ResumeAt(p)]
         /\ UNCHANGED <<log, committed>>
         /\ Settled' = Settled \cup ResumeSkips
<1>1. /\ faults < MaxFaults /\ faults' = faults + 1
      /\ position' = [p \in Partitions |-> ResumeAt(p)]
      /\ inHand' = None
      /\ UNCHANGED <<log, committed>>
  BY DEF Assign
<1>2. GroupTypeOK'
  <2>1. position' \in [Partitions -> Nat]
    BY <1>1, GroupTypes
  <2>2. \A p \in Partitions : position'[p] <= Len(log[p])
    BY <1>1, GroupTypes
  <2>3. faults' \in 0..MaxFaults
    BY <1>1, ConsumerAssumption
       DEF ConsumerAssumption, StoreInv, TypeOK, GroupTypeOK
  <2>4. QED
    BY <1>1, <2>1, <2>2, <2>3 DEF StoreInv, TypeOK, GroupTypeOK
<1>3. TypeOK'
  BY <1>1, <1>2, SkipSettles DEF StoreInv, TypeOK
<1>4. (HandIsTaken /\ OffsetsInLog /\ CommitReady)'
  BY <1>1 DEF StoreInv, HandIsTaken, OffsetsInLog, CommitReady
<1>5. StoredHasRow'
  BY SkipSettles DEF StoreInv, StoredHasRow
<1>6. QED
  BY <1>1, <1>3, <1>4, <1>5, SkipSettles DEF StoreInv

\* A rebalance or a restart resumes within the invariant.
LEMMA RejoinStep ==
  ASSUME StoreInv, Rejoin
  PROVE  Assign /\ Skip /\ pc' = "poll" /\ rows' = rows
BY DEF Rejoin, Rebalance, StoreInv, TypeOK

\* Every step keeps the invariant, one case per action.
LEMMA StoreStep ==
  ASSUME StoreInv, [Next]_vars
  PROVE  StoreInv'
<1>1. CASE UNCHANGED vars
  BY <1>1 DEF vars, groupVars, ownVars, StoreInv, TypeOK, GroupTypeOK,
              HandIsTaken, OffsetsInLog, CommitReady, StoredHasRow, Here, Settled
<1>2. ASSUME NEW p \in Partitions, NEW r \in Records, Alert(p, r)
      PROVE  StoreInv'
  BY <1>2, AlertStep
<1>3. ASSUME NEW p \in Partitions, TakeJunk(p)
      PROVE  StoreInv'
  BY <1>3, TakeJunkStep
<1>4. ASSUME NEW p \in Partitions, Take(p)
      PROVE  StoreInv'
  BY <1>4, TakeStep
<1>5. CASE InsertOk
  BY <1>5, InsertOkStep
<1>6. CASE InsertRaised
  BY <1>6, InsertRaisedStep
<1>7. CASE Commit
  BY <1>7, CommitStep
<1>8. CASE Rejoin
  BY <1>8, RejoinStep, AssignStep
<1>9. CASE Restart
  BY <1>9, AssignStep DEF Restart
<1>10. QED
  BY <1>1, <1>2, <1>3, <1>4, <1>5, <1>6, <1>7, <1>8, <1>9 DEF Next, Handle

\* The loop's state, the table and the outcomes keep their types.
THEOREM TypeCorrect == Spec => []TypeOK
<1>1. StoreInv => TypeOK
  BY DEF StoreInv
<1>2. QED
  BY StoreInit, StoreStep, <1>1, PTL DEF Spec

-----------------------------------------------------------------------------
\* The offset promise: the length of each partition is its end, the record
\* in hand is the hand, and a handling that ended is settled.
LEMMA InitMaps == Init => Ledger!Init
<1> SUFFICES ASSUME Init
             PROVE  Ledger!Init
  OBVIOUS
<1>1. [p \in Partitions |-> Len(log[p])] = [p \in Partitions |-> 0]
  BY DEF Init, GroupInit
<1>2. Settled = {}
  BY DEF Init, Settled
<1>3. QED
  BY <1>1, <1>2 DEF Init, GroupInit, Ledger!Init, Ledger!NoOffset, NoOffset

\* A rebalance or a restart resumes the ledger at the same offsets.
LEMMA AssignMaps ==
  ASSUME StoreInv, Assign, Skip, pc' = "poll", rows' = rows
  PROVE  Ledger!Resume
<1>1. /\ inHand' = None
      /\ position' = [p \in Partitions |-> ResumeAt(p)]
      /\ UNCHANGED <<log, committed>>
      /\ Settled' = Settled \cup ResumeSkips
  BY AssignStep
<1>2. position' \in [Partitions -> Nat]
  BY <1>1, GroupTypes
<1>3. \A p \in Partitions : position'[p] = ResumeAt(p)
  BY <1>1
<1>4. \A p \in Partitions : position'[p] \in Ledger!ResumePoints(p)
  BY <1>3 DEF Ledger!ResumePoints, ResumeAt, Ledger!NoOffset, NoOffset
<1>5. ResumeSkips = UNION {{<<p, n>> : n \in 1..position'[p]} : p \in Partitions}
  BY <1>3 DEF ResumeSkips
<1>6. QED
  BY <1>1, <1>2, <1>4, <1>5 DEF Ledger!Resume

\* Every step maps to a step of the ledger or to a stutter.
LEMMA StepMaps ==
  ASSUME StoreInv, [Next]_vars
  PROVE  [Ledger!Next]_(Ledger!vars)
<1> USE DEF Ledger!vars
<1>1. CASE UNCHANGED vars
  BY <1>1 DEF vars, groupVars, ownVars, Settled
<1>2. ASSUME NEW p \in Partitions, NEW r \in Records, Alert(p, r)
      PROVE  Ledger!Append(p)
  <2>1. \A q \in Partitions :
          Len(log'[q]) = IF q = p THEN Len(log[q]) + 1 ELSE Len(log[q])
    BY <1>2, AlertStep
  <2>2. [q \in Partitions |-> Len(log'[q])] =
          [[q \in Partitions |-> Len(log[q])] EXCEPT ![p] = @ + 1]
    BY <2>1
  <2>3. Settled' = Settled
    BY <1>2 DEF Alert, ownVars, Settled
  <2>4. QED
    BY <1>2, <2>2, <2>3 DEF Ledger!Append, Alert, Produce
<1>3. ASSUME NEW p \in Partitions, TakeJunk(p) \/ Take(p)
      PROVE  Ledger!Take(p)
  <2>1. Poll(p) /\ log' = log
    BY <1>3 DEF TakeJunk, Take, Poll
  <2>2. Settled' = Settled \/ Settled' = Settled \cup {<<p, position[p] + 1>>}
    BY <1>3, TakeJunkStep DEF Take, Settled
  <2>3. QED
    BY <2>1, <2>2 DEF Ledger!Take, Poll
<1>4. ASSUME InsertOk
      PROVE  Ledger!Settle
  <2>1. UNCHANGED <<log, position, committed, inHand>>
    BY <1>4 DEF InsertOk, groupVars
  <2>2. QED
    BY <1>4, <2>1, InsertOkStep DEF Ledger!Settle, Ledger!InHand, Here
<1>5. ASSUME InsertRaised
      PROVE  Ledger!GiveUp
  <2>1. UNCHANGED <<log, position, committed>> /\ inHand' = None
    BY <1>5 DEF InsertRaised, CommitIfNeeded
  <2>2. QED
    BY <1>5, <2>1, InsertRaisedStep DEF Ledger!GiveUp, Ledger!InHand, Here
<1>6. ASSUME Commit
      PROVE  Ledger!Finish
  <2>1. /\ pc = "commit" /\ inHand # None /\ inHand' = None
        /\ committed' \in {committed, position}
        /\ UNCHANGED <<log, position>>
    BY <1>6 DEF Commit, CommitIfNeeded
  <2>2. Here \in Settled
    BY <2>1 DEF StoreInv, CommitReady
  <2>3. QED
    BY <1>6, <2>1, <2>2, CommitStep DEF Ledger!Finish, Ledger!InHand, Here
<1>7. ASSUME Rejoin \/ Restart
      PROVE  Ledger!Resume
  BY <1>7, RejoinStep, AssignMaps DEF Restart
<1>8. QED
  BY <1>1, <1>2, <1>3, <1>4, <1>5, <1>6, <1>7 DEF Next, Handle, Ledger!Next

\* The alert store implements the offset promise of a core consumer.
THEOREM ImplementsLedger == Spec => LedgerSpec
<1>1. StoreInv /\ [Next]_vars => [Ledger!Next]_(Ledger!vars)
  BY StepMaps
<1>2. QED
  BY StoreInit, StoreStep, InitMaps, <1>1, PTL
     DEF Spec, LedgerSpec, Ledger!Spec

-----------------------------------------------------------------------------
\* The ledger's own theorems, read through the refinement mapping.
Proved ==
  INSTANCE OffsetLedger_proofs WITH
    end <- [p \in Partitions |-> Len(log[p])], hand <- inHand,
    settled <- Settled

\* What the ledger proves of committed offsets, read for the store.
LEMMA PromiseKept == Spec => []Proved!CommittedIsSettled
<1>1. None \notin Partitions
  BY ConsumerAssumption DEF ConsumerAssumption
<1>2. Proved!Spec => [](Proved!TakenIsSettled /\ Proved!CommittedIsTaken
                         /\ Proved!CommittedIsSettled)
  BY <1>1, Proved!LedgerSafe
<1>3. Ledger!Init => Proved!Init
  BY DEF Ledger!Init, Proved!Init, Ledger!NoOffset, Proved!NoOffset
<1>4. [Ledger!Next]_(Ledger!vars) => [Proved!Next]_(Proved!vars)
  BY DEF Ledger!Next, Proved!Next, Ledger!vars, Proved!vars,
     Ledger!Append, Proved!Append, Ledger!Take, Proved!Take,
     Ledger!Settle, Proved!Settle, Ledger!Finish, Proved!Finish,
     Ledger!GiveUp, Proved!GiveUp, Ledger!Resume, Proved!Resume,
     Ledger!InHand, Proved!InHand, Ledger!ResumePoints, Proved!ResumePoints,
     Ledger!NoOffset, Proved!NoOffset
<1>5. QED
  BY ImplementsLedger, <1>2, <1>3, <1>4, PTL
     DEF LedgerSpec, Ledger!Spec, Proved!Spec

\* Nothing behind a committed offset is missing without a reason: the row is
\* in the table, or the record was not JSON, its insert raised, or the reset
\* policy skipped it.
THEOREM StoredOrExcused == Spec => []CommittedIsStored
<1>1. StoreInv /\ Proved!CommittedIsSettled => CommittedIsStored
  <2> SUFFICES ASSUME StoreInv, Proved!CommittedIsSettled,
                      NEW p \in Partitions, NEW n \in 1..committed[p]
               PROVE  \/ rows[<<p, n>>] > 0
                      \/ \E how \in Hows \ {"stored"} : <<<<p, n>>, how>> \in outcome
    BY DEF CommittedIsStored
  <2>1. <<p, n>> \in Settled
    BY DEF Proved!CommittedIsSettled
  <2>2. PICK z \in outcome : z[1] = <<p, n>>
    BY <2>1 DEF Settled
  <2>3. z \in Slots \X Hows
    BY <2>2 DEF StoreInv, TypeOK
  <2>4. z = <<<<p, n>>, z[2]>> /\ z[2] \in Hows /\ <<p, n>> \in Slots
    BY <2>2, <2>3
  <2>5. CASE z[2] = "stored"
    BY <2>2, <2>4, <2>5 DEF StoreInv, StoredHasRow
  <2>6. CASE z[2] # "stored"
    BY <2>2, <2>4, <2>6
  <2>7. QED
    BY <2>5, <2>6
<1>2. QED
  BY StoreInit, StoreStep, PromiseKept, <1>1, PTL DEF Spec

-----------------------------------------------------------------------------
\* A record whose insert has not been tried since its last delivery.
Untried(loc) == loc[2] > position[loc[1]] \/ (pc = "insert" /\ loc = Here)

\* Only a rebalance or a restart takes a row's record back: one that is still
\* to be inserted has at most one row for each of them.
RowsPerFault == \A loc \in Slots : Untried(loc) => rows[loc] <= faults

RowsInv == StoreInv /\ RowsPerDelivery /\ RowsPerFault

\* A location of the table has its numbers.
LEMMA RowTypes ==
  ASSUME StoreInv, NEW loc \in Slots
  PROVE  /\ loc[1] \in Partitions /\ loc[2] \in Nat
         /\ loc = <<loc[1], loc[2]>>
         /\ rows \in [Slots -> Nat] /\ rows[loc] \in Nat
         /\ position \in [Partitions -> Nat] /\ position[loc[1]] \in Nat
         /\ faults \in Nat
<1>1. PICK p \in Partitions : \E n \in 1..MaxLog[p] : loc = <<p, n>>
  BY DEF Slots
<1>2. MaxLog[p] \in Nat
  BY ConsumerAssumption DEF ConsumerAssumption
<1>3. QED
  BY <1>1, <1>2, ConsumerAssumption
     DEF StoreInv, TypeOK, GroupTypeOK, ConsumerAssumption

\* An insert adds one row to the record in hand, which then has been tried.
LEMMA InsertRows ==
  ASSUME RowsInv, pc = "insert", pc' # "insert",
         rows' = rows \/ rows' = [rows EXCEPT ![Here] = @ + 1],
         UNCHANGED <<position, faults>>
  PROVE  RowsPerDelivery' /\ RowsPerFault'
<1>1. inHand # None /\ Here \in Slots
  BY HereIsSlot DEF RowsInv, StoreInv, TypeOK
<1>2. rows[Here] <= faults
  BY <1>1 DEF RowsInv, RowsPerFault, Untried
<1>3. SUFFICES ASSUME NEW loc \in Slots
               PROVE  /\ rows'[loc] <= 1 + faults
                      /\ loc[2] > position[loc[1]] => rows'[loc] <= faults
  BY DEF RowsPerDelivery, RowsPerFault, Untried
<1>4. /\ rows \in [Slots -> Nat] /\ rows[loc] \in Nat /\ faults \in Nat
      /\ rows[Here] \in Nat
  BY <1>1, RowTypes DEF RowsInv
<1>5. rows[loc] <= 1 + faults /\ (loc[2] > position[loc[1]] => rows[loc] <= faults)
  BY DEF RowsInv, RowsPerDelivery, RowsPerFault, Untried
<1>6. Here[2] = position[Here[1]]
  BY DEF Here
<1>7. CASE loc = Here
  <2>1. ~(loc[2] > position[loc[1]])
    BY <1>6, <1>7, RowTypes DEF RowsInv
  <2>2. rows'[loc] <= 1 + faults
    BY <1>2, <1>4, <1>7
  <2>3. QED
    BY <2>1, <2>2
<1>8. CASE loc # Here
  BY <1>4, <1>5, <1>8
<1>9. QED
  BY <1>7, <1>8

\* Taking a record moves the position to it and inserts nothing.
LEMMA PollRows ==
  ASSUME RowsInv, NEW p \in Partitions, Poll(p), rows' = rows
  PROVE  RowsPerDelivery' /\ RowsPerFault'
<1>1. /\ pc = "poll"
      /\ position' = [position EXCEPT ![p] = @ + 1]
      /\ faults' = faults
  BY DEF Poll, RowsInv, StoreInv, TypeOK
<1>2. Here' = <<p, position[p] + 1>>
  BY PollStep DEF RowsInv
<1>3. RowsPerDelivery'
  BY <1>1 DEF RowsInv, RowsPerDelivery
<1>4. SUFFICES ASSUME NEW loc \in Slots,
                      loc[2] > position'[loc[1]] \/ loc = <<p, position[p] + 1>>
               PROVE  rows[loc] <= faults
  BY <1>1, <1>2, <1>3 DEF RowsPerFault, Untried
<1>5. /\ loc[1] \in Partitions /\ loc[2] \in Nat
      /\ position \in [Partitions -> Nat] /\ position[loc[1]] \in Nat
  BY RowTypes DEF RowsInv
<1>6. loc[2] > position[loc[1]]
  <2>1. CASE loc[1] = p
    <3>1. position'[p] = position[p] + 1
      BY <1>1, <1>5
    <3>2. <<p, position[p] + 1>>[2] = position[p] + 1
      OBVIOUS
    <3>3. QED
      BY <1>4, <1>5, <2>1, <3>1, <3>2
  <2>2. CASE loc[1] # p
    <3>1. position'[loc[1]] = position[loc[1]]
      BY <1>1, <1>5, <2>2
    <3>2. loc # <<p, position[p] + 1>>
      BY <2>2
    <3>3. QED
      BY <1>4, <3>1, <3>2
  <2>3. QED
    BY <2>1, <2>2
<1>7. QED
  BY <1>6 DEF RowsInv, RowsPerFault, Untried

\* A rebalance or a restart is one more delivery of what it takes back.
LEMMA AssignRows ==
  ASSUME RowsInv, Assign, Skip, pc' = "poll", rows' = rows
  PROVE  RowsPerDelivery' /\ RowsPerFault'
<1>1. faults' = faults + 1
  BY DEF Assign
<1>2. SUFFICES ASSUME NEW loc \in Slots
               PROVE  rows[loc] <= 1 + faults' /\ rows[loc] <= faults'
  BY DEF RowsPerDelivery, RowsPerFault
<1>3. rows[loc] <= 1 + faults
  BY DEF RowsInv, RowsPerDelivery
<1>4. QED
  BY <1>1, <1>3, RowTypes DEF RowsInv

\* Every step keeps the bound on equal rows, one case per action.
LEMMA RowsStep ==
  ASSUME RowsInv, [Next]_vars
  PROVE  RowsInv'
<1>1. StoreInv'
  BY StoreStep DEF RowsInv
<1>2. ASSUME UNCHANGED <<position, faults, inHand, pc, rows>>
      PROVE  RowsPerDelivery' /\ RowsPerFault'
  <2>1. \A loc \in Slots : Untried(loc)' <=> Untried(loc)
    BY <1>2 DEF Untried, Here
  <2>2. QED
    BY <1>2, <2>1 DEF RowsInv, RowsPerDelivery, RowsPerFault
<1>3. CASE UNCHANGED vars
  BY <1>1, <1>2, <1>3 DEF vars, groupVars, ownVars, RowsInv
<1>4. ASSUME NEW p \in Partitions, NEW r \in Records, Alert(p, r)
      PROVE  RowsPerDelivery' /\ RowsPerFault'
  BY <1>2, <1>4 DEF Alert, Produce, ownVars
<1>5. ASSUME NEW p \in Partitions, TakeJunk(p) \/ Take(p)
      PROVE  RowsPerDelivery' /\ RowsPerFault'
  BY <1>5, PollRows DEF TakeJunk, Take
<1>6. ASSUME InsertOk \/ InsertRaised
      PROVE  RowsPerDelivery' /\ RowsPerFault'
  <2>1. /\ pc = "insert" /\ pc' # "insert"
        /\ rows' = rows \/ rows' = [rows EXCEPT ![Here] = @ + 1]
        /\ UNCHANGED <<position, faults>>
    BY <1>6 DEF InsertOk, InsertRaised, CommitIfNeeded, groupVars
  <2>2. QED
    BY <2>1, InsertRows
<1>7. ASSUME Commit
      PROVE  RowsPerDelivery' /\ RowsPerFault'
  <2>1. /\ pc = "commit" /\ pc' = "poll"
        /\ UNCHANGED <<position, faults, rows>>
    BY <1>7 DEF Commit, CommitIfNeeded
  <2>2. RowsPerDelivery'
    BY <2>1 DEF RowsInv, RowsPerDelivery
  <2>3. \A loc \in Slots : Untried(loc)' => Untried(loc)
    BY <2>1 DEF Untried
  <2>4. QED
    BY <2>1, <2>2, <2>3 DEF RowsInv, RowsPerFault
<1>8. ASSUME Rejoin \/ Restart
      PROVE  RowsPerDelivery' /\ RowsPerFault'
  <2>1. Assign /\ Skip /\ pc' = "poll" /\ rows' = rows
    BY <1>8, RejoinStep DEF RowsInv, Restart
  <2>2. QED
    BY <2>1, AssignRows
<1>9. QED
  BY <1>1, <1>2, <1>3, <1>4, <1>5, <1>6, <1>7, <1>8 DEF Next, Handle, RowsInv

\* However the group is disturbed, a record has at most one row for its first
\* delivery and one for each rebalance or restart: nothing else in the loop
\* inserts twice.
THEOREM RowsBounded == Spec => []RowsPerDelivery
<1>1. Init => RowsInv
  <2> SUFFICES ASSUME Init
               PROVE  RowsInv
    OBVIOUS
  <2>1. StoreInv
    BY StoreInit
  <2>2. \A loc \in Slots : rows[loc] = 0
    BY DEF Init
  <2>3. faults \in Nat
    BY DEF Init, GroupInit
  <2>4. QED
    BY <2>1, <2>2, <2>3 DEF RowsInv, RowsPerDelivery, RowsPerFault
<1>2. RowsInv => RowsPerDelivery
  BY DEF RowsInv
<1>3. QED
  BY <1>1, <1>2, RowsStep, PTL DEF Spec

-----------------------------------------------------------------------------
(* The alert sink, the other consumer of the alert topic.                  *)

FileEntries == [loc : Partitions \X Nat, whole : BOOLEAN]

SinkTypes ==
  /\ log \in [Partitions -> Seq(Records)]
  /\ position \in [Partitions -> Nat]
  /\ committed \in [Partitions -> Nat \cup {NoOffset}]
  /\ inHand \in Partitions \cup {None}
  /\ pc \in {"poll", "append", "dlq", "commit"} /\ (pc = "poll" <=> inHand = None)
  /\ file \in Seq(FileEntries) /\ synced \in Nat /\ synced <= Len(file)

InFile(loc) == \E i \in 1..Len(file) : file[i].loc = loc /\ file[i].whole

\* What has become of a record is known: a whole line, a dead letter, or one of
\* the endings that leave neither.
Fate(loc) ==
  \/ InFile(loc)
  \/ loc \in dlq
  \/ \E how \in {"abandoned", "skipped", "unsynced"} : <<loc, how>> \in outcome

\* Every record taken has its fate, but the one in hand; that one has it when
\* only the commit is left.
TakenHasFate ==
  \A p \in Partitions : \A n \in 1..position[p] :
    Fate(<<p, n>>) \/ (inHand = p /\ n = position[p] /\ pc # "commit")

CommittedHasFate == \A p \in Partitions : \A n \in 1..committed[p] : Fate(<<p, n>>)

\* An ending in the history has left what it names.
EndingsLeftTraces ==
  \A p \in Partitions, n \in Nat : \A how \in SinkHows :
    <<<<p, n>>, how>> \in outcome => Fate(<<p, n>>)

SinkInv == SinkTypes /\ TakenHasFate /\ CommittedHasFate /\ EndingsLeftTraces

\* No step but a crash of the node takes a trace away.
LEMMA FateStays ==
  ASSUME SinkTypes, dlq \subseteq dlq', outcome \subseteq outcome',
         \A i \in 1..Len(file) : i \in 1..Len(file') /\ file'[i] = file[i],
         NEW loc, Fate(loc)
  PROVE  Fate(loc)'
<1>1. InFile(loc) => InFile(loc)'
  BY DEF InFile
<1> QED
  BY <1>1 DEF Fate

\* Steps that take no record, give none back and move no offset.
LEMMA TracesKeep ==
  ASSUME SinkInv, SinkTypes', UNCHANGED <<position, committed>>,
         \A p \in Partitions, n \in Nat : Fate(<<p, n>>) => Fate(<<p, n>>)',
         NEW h, h = Here,
         \/ inHand' = inHand /\ (pc' = "commit" => pc = "commit" \/ Fate(h)')
         \/ inHand' = None /\ (inHand = None \/ Fate(h)'),
         outcome \subseteq outcome',
         \A p \in Partitions, n \in Nat, how \in SinkHows :
           <<<<p, n>>, how>> \in outcome' =>
             <<<<p, n>>, how>> \in outcome \/ Fate(<<p, n>>)'
  PROVE  SinkInv'
<1>1. TakenHasFate'
  <2> SUFFICES ASSUME NEW p \in Partitions, NEW n \in 1..position[p]
               PROVE  \/ Fate(<<p, n>>)'
                      \/ inHand' = p /\ n = position[p] /\ pc' # "commit"
    BY DEF TakenHasFate
  <2>1. n \in Nat /\ position[p] \in Nat
    BY DEF SinkInv, SinkTypes
  <2>2. CASE Fate(<<p, n>>)
    BY <2>1, <2>2
  <2>3. CASE inHand = p /\ n = position[p] /\ pc # "commit"
    <3>1. h = <<p, n>>
      BY <2>3 DEF Here
    <3>2. inHand # None
      BY <2>3, ConsumerAssumption
    <3> QED
      BY <2>3, <3>1, <3>2
  <2> QED
    BY <2>2, <2>3 DEF SinkInv, TakenHasFate
<1>2. CommittedHasFate'
  <2> SUFFICES ASSUME NEW p \in Partitions, NEW n \in 1..committed[p]
               PROVE  Fate(<<p, n>>)'
    BY DEF CommittedHasFate
  <2>1. n \in Nat
    BY DEF SinkInv, SinkTypes, NoOffset
  <2> QED
    BY <2>1 DEF SinkInv, CommittedHasFate
<1>3. EndingsLeftTraces'
  BY DEF SinkInv, EndingsLeftTraces, SinkHows
<1> QED
  BY <1>1, <1>2, <1>3 DEF SinkInv

\* A record joins the topic.
LEMMA SinkProduces ==
  ASSUME SinkInv, NEW p \in Partitions, NEW r \in Records, SinkAlert(p, r)
  PROVE  SinkInv'
<1>1. /\ log' = [log EXCEPT ![p] = Append(@, r)]
      /\ UNCHANGED <<position, committed, inHand, pc, file, synced, dlq, outcome>>
  BY DEF SinkAlert, Produce, fileVars
<1>2. SinkTypes'
  <2>1. log[p] \in Seq(Records) /\ Append(log[p], r) \in Seq(Records)
    BY DEF SinkInv, SinkTypes
  <2>2. log' \in [Partitions -> Seq(Records)]
    BY <1>1, <2>1 DEF SinkInv, SinkTypes
  <2> QED
    BY <1>1, <2>2 DEF SinkInv, SinkTypes
<1>3. \A loc : Fate(loc) => Fate(loc)'
  BY <1>1 DEF Fate, InFile
<1> QED
  BY <1>1, <1>2, <1>3, TracesKeep

\* The record taken is the one after the position.
LEMMA SinkTakes ==
  ASSUME SinkInv, NEW p \in Partitions, SinkTakeJunk(p) \/ SinkTake(p)
  PROVE  SinkInv'
<1>1. /\ inHand = None /\ inHand' = p /\ position' = [position EXCEPT ![p] = @ + 1]
      /\ UNCHANGED <<log, committed, file, synced, dlq, outcome>>
      /\ pc' \in {"append", "dlq"}
  BY DEF SinkTakeJunk, SinkTake, Poll
<1>2. position[p] \in Nat /\ p # None
  BY ConsumerAssumption DEF SinkInv, SinkTypes
<1>3. SinkTypes'
  <2>1. position' \in [Partitions -> Nat]
    BY <1>1, <1>2 DEF SinkInv, SinkTypes
  <2> QED
    BY <1>1, <1>2, <2>1 DEF SinkInv, SinkTypes
<1>4. \A loc : Fate(loc) => Fate(loc)'
  BY <1>1 DEF Fate, InFile
<1>5. TakenHasFate'
  <2> SUFFICES ASSUME NEW q \in Partitions, NEW n \in 1..position'[q]
               PROVE  \/ Fate(<<q, n>>)'
                      \/ inHand' = q /\ n = position'[q] /\ pc' # "commit"
    BY DEF TakenHasFate
  <2>1. CASE n \in 1..position[q]
    <3>1. inHand # q
      BY <1>1, ConsumerAssumption
    <3>2. Fate(<<q, n>>)
      BY <2>1, <3>1 DEF SinkInv, TakenHasFate
    <3> QED
      BY <1>4, <3>2
  <2>2. CASE n \notin 1..position[q]
    <3>1. q = p /\ n = position'[q]
      BY <1>1, <1>2, <2>2 DEF SinkInv, SinkTypes
    <3> QED
      BY <1>1, <3>1
  <2> QED
    BY <2>1, <2>2
<1>6. CommittedHasFate'
  BY <1>1, <1>4 DEF SinkInv, CommittedHasFate
<1>7. EndingsLeftTraces'
  BY <1>1, <1>4 DEF SinkInv, EndingsLeftTraces
<1> QED
  BY <1>3, <1>5, <1>6, <1>7 DEF SinkInv

\* What the record in hand is called.
LEMMA SinkHere ==
  ASSUME SinkInv, inHand # None
  PROVE  inHand \in Partitions /\ position[inHand] \in Nat /\ Here \in Partitions \X Nat
BY DEF SinkInv, SinkTypes, Here

\* A line at the end of the file leaves the others in place.
LEMMA EntryAdded ==
  ASSUME SinkInv, inHand # None, NEW whole \in BOOLEAN, AppendEntry(whole)
  PROVE  /\ file' \in Seq(FileEntries) /\ Len(file') = Len(file) + 1
         /\ \A i \in 1..Len(file) : i \in 1..Len(file') /\ file'[i] = file[i]
         /\ file'[Len(file')].loc = Here /\ file'[Len(file')].whole = whole
<1>1. PICK e : e = [loc |-> Here, whole |-> whole]
  OBVIOUS
<1>2. e \in FileEntries /\ e.loc = Here /\ e.whole = whole
  BY <1>1, SinkHere DEF FileEntries
<1>3. file' = Append(file, e) /\ file \in Seq(FileEntries)
  BY <1>1 DEF AppendEntry, Here, Here, SinkInv, SinkTypes
<1> QED
  BY <1>2, <1>3

LEMMA SinkWrites ==
  ASSUME SinkInv, AppendOk
  PROVE  SinkInv'
<1>1. /\ pc = "append" /\ pc' = "commit" /\ AppendEntry(TRUE)
      /\ UNCHANGED <<log, position, committed, inHand, synced, dlq>>
      /\ outcome' = outcome \cup {<<Here, "written">>}
  BY DEF AppendOk, groupVars, EndsAs, Here, Here
<1>2. inHand # None
  BY <1>1 DEF SinkInv, SinkTypes
<1>3. /\ file' \in Seq(FileEntries) /\ Len(file') = Len(file) + 1
      /\ \A i \in 1..Len(file) : i \in 1..Len(file') /\ file'[i] = file[i]
      /\ file'[Len(file')].loc = Here /\ file'[Len(file')].whole
  BY <1>1, <1>2, EntryAdded
<1>4. SinkTypes'
  BY <1>1, <1>3 DEF SinkInv, SinkTypes
<1>5. ASSUME NEW loc, Fate(loc) PROVE Fate(loc)'
  BY <1>1, <1>3, <1>5, FateStays DEF SinkInv
<1>6. PICK h : h = Here
  OBVIOUS
<1>7. Fate(h)'
  <2>1. Len(file') \in 1..Len(file')
    BY <1>3 DEF SinkInv, SinkTypes
  <2> QED
    BY <1>3, <1>6, <2>1 DEF Fate, InFile
<1> QED
  BY <1>1, <1>4, <1>5, <1>6, <1>7, TracesKeep

LEMMA SinkFails ==
  ASSUME SinkInv, AppendRaised
  PROVE  SinkInv'
<1>1. /\ pc = "append" /\ pc' = "dlq" /\ (file' = file \/ AppendEntry(FALSE))
      /\ UNCHANGED <<log, position, committed, inHand, synced, dlq, outcome>>
  BY DEF AppendRaised, groupVars
<1>2. inHand # None
  BY <1>1 DEF SinkInv, SinkTypes
<1>3. /\ file' \in Seq(FileEntries) /\ Len(file') >= Len(file)
      /\ \A i \in 1..Len(file) : i \in 1..Len(file') /\ file'[i] = file[i]
  <2>0. file \in Seq(FileEntries) /\ Len(file) \in Nat
    BY DEF SinkInv, SinkTypes
  <2>1. CASE file' = file
    BY <2>0, <2>1
  <2>2. CASE AppendEntry(FALSE)
    <3>1. PICK whole \in BOOLEAN : AppendEntry(whole)
      BY <2>2
    <3>2. /\ file' \in Seq(FileEntries) /\ Len(file') = Len(file) + 1
          /\ \A i \in 1..Len(file) : i \in 1..Len(file') /\ file'[i] = file[i]
      BY <1>2, <3>1, EntryAdded
    <3> QED
      BY <2>0, <3>2
  <2> QED
    BY <1>1, <2>1, <2>2
<1>4. SinkTypes'
  BY <1>1, <1>3 DEF SinkInv, SinkTypes
<1>5. ASSUME NEW loc, Fate(loc) PROVE Fate(loc)'
  BY <1>1, <1>3, <1>5, FateStays DEF SinkInv
<1>6. PICK h : h = Here
  OBVIOUS
<1> QED
  BY <1>1, <1>4, <1>5, <1>6, TracesKeep

LEMMA SinkBuries ==
  ASSUME SinkInv, DlqAcked
  PROVE  SinkInv'
<1>1. /\ pc = "dlq" /\ pc' = "commit" /\ dlq' = dlq \cup {Here}
      /\ UNCHANGED <<log, position, committed, inHand, file, synced>>
      /\ outcome' = outcome \cup {<<Here, "dlq">>}
  BY DEF DlqAcked, groupVars, EndsAs, Here, Here
<1>2. SinkTypes'
  BY <1>1 DEF SinkInv, SinkTypes
<1>3. ASSUME NEW loc, Fate(loc) PROVE Fate(loc)'
  BY <1>1, <1>3 DEF Fate, InFile
<1>4. PICK h : h = Here
  OBVIOUS
<1>5. Fate(h)'
  BY <1>1, <1>4 DEF Fate
<1> QED
  BY <1>1, <1>2, <1>3, <1>4, <1>5, TracesKeep

LEMMA SinkAbandons ==
  ASSUME SinkInv, DlqFailed
  PROVE  SinkInv'
<1>1. /\ pc = "dlq" /\ pc' = "poll" /\ inHand' = None /\ dlq \subseteq dlq'
      /\ UNCHANGED <<log, position, committed, file, synced>>
      /\ outcome' = outcome \cup {<<Here, "abandoned">>}
  BY DEF DlqFailed, CommitIfNeeded, EndsAs, Here, Here
<1>2. SinkTypes'
  BY <1>1 DEF SinkInv, SinkTypes
<1>3. ASSUME NEW loc, Fate(loc) PROVE Fate(loc)'
  BY <1>1, <1>3 DEF Fate, InFile
<1>4. PICK h : h = Here
  OBVIOUS
<1>5. Fate(h)'
  BY <1>1, <1>4 DEF Fate
<1> QED
  BY <1>1, <1>2, <1>3, <1>4, <1>5, TracesKeep

\* The commit covers every record taken: none is in hand without its fate.
LEMMA SinkCommits ==
  ASSUME SinkInv, SinkCommit
  PROVE  SinkInv'
<1>1. /\ pc = "commit" /\ pc' = "poll" /\ inHand' = None
      /\ committed' \in {position, committed}
      /\ UNCHANGED <<log, position, file, synced, dlq, outcome>>
  BY DEF SinkCommit, CommitIfNeeded
<1>2. SinkTypes'
  BY <1>1 DEF SinkInv, SinkTypes
<1>3. ASSUME NEW loc, Fate(loc) PROVE Fate(loc)'
  BY <1>1, <1>3 DEF Fate, InFile
<1>4. \A p \in Partitions : \A n \in 1..position[p] : Fate(<<p, n>>)
  BY <1>1 DEF SinkInv, TakenHasFate
<1>5. TakenHasFate' /\ CommittedHasFate'
  BY <1>1, <1>3, <1>4 DEF TakenHasFate, CommittedHasFate, SinkInv
<1>6. EndingsLeftTraces'
  BY <1>1, <1>3 DEF SinkInv, EndingsLeftTraces
<1> QED
  BY <1>2, <1>5, <1>6 DEF SinkInv

LEMMA SinkWritesBack ==
  ASSUME SinkInv, WriteBack
  PROVE  SinkInv'
<1>1. synced' = Len(file)
      /\ UNCHANGED <<log, position, committed, inHand, pc, file, dlq, outcome>>
  BY DEF WriteBack, groupVars
<1>2. SinkTypes'
  BY <1>1 DEF SinkInv, SinkTypes
<1>3. ASSUME NEW loc, Fate(loc) PROVE Fate(loc)'
  BY <1>1, <1>3 DEF Fate, InFile
<1>4. PICK h : h = Here
  OBVIOUS
<1> QED
  BY <1>1, <1>2, <1>3, <1>4, TracesKeep

\* Partitions are assigned afresh: what the new position passes over had its
\* ending or is skipped now.
LEMMA SinkResumes ==
  ASSUME SinkInv, Assign, SinkTypes',
         \A p \in Partitions, n \in Nat : Fate(<<p, n>>) => Fate(<<p, n>>)',
         outcome \cup SkippedNow \subseteq outcome',
         \A p \in Partitions, n \in Nat, how \in SinkHows :
           <<<<p, n>>, how>> \in outcome' =>
             \/ <<<<p, n>>, how>> \in outcome
             \/ how \in {"skipped", "unsynced"}
  PROVE  SinkInv'
<1>1. /\ position' = [p \in Partitions |-> ResumeAt(p)] /\ inHand' = None
      /\ UNCHANGED <<log, committed>>
  BY DEF Assign
<1>2. TakenHasFate'
  <2> SUFFICES ASSUME NEW p \in Partitions, NEW n \in 1..ResumeAt(p)
               PROVE  Fate(<<p, n>>)'
    BY <1>1 DEF TakenHasFate
  <2>1. ResumeAt(p) \in Nat
    BY DEF SinkInv, SinkTypes, ResumeAt, NoOffset, NoOffset
  <2>2. n \in Nat /\ <<p, n>> \in ResumeSkips
    BY <2>1 DEF ResumeSkips
  <2>3. CASE \E how \in SinkHows : <<<<p, n>>, how>> \in outcome
    BY <2>2, <2>3 DEF SinkInv, EndingsLeftTraces
  <2>4. CASE \A how \in SinkHows : <<<<p, n>>, how>> \notin outcome
    <3>1. <<<<p, n>>, "skipped">> \in SkippedNow
      BY <2>2, <2>4 DEF SkippedNow
    <3> QED
      BY <3>1 DEF Fate
  <2> QED
    BY <2>3, <2>4
<1>3. CommittedHasFate'
  <2> SUFFICES ASSUME NEW p \in Partitions, NEW n \in 1..committed[p]
               PROVE  Fate(<<p, n>>)'
    BY <1>1 DEF CommittedHasFate
  <2>1. n \in Nat
    BY DEF SinkInv, SinkTypes, NoOffset
  <2> QED
    BY <2>1 DEF SinkInv, CommittedHasFate
<1>4. EndingsLeftTraces'
  <2> SUFFICES ASSUME NEW p \in Partitions, NEW n \in Nat, NEW how \in SinkHows,
                      <<<<p, n>>, how>> \in outcome'
               PROVE  Fate(<<p, n>>)'
    BY DEF EndingsLeftTraces
  <2>1. CASE <<<<p, n>>, how>> \in outcome
    BY <2>1 DEF SinkInv, EndingsLeftTraces
  <2>2. CASE how \in {"skipped", "unsynced"}
    BY <2>2 DEF Fate
  <2> QED
    BY <2>1, <2>2
<1> QED
  BY <1>2, <1>3, <1>4 DEF SinkInv

LEMMA AssignTypes ==
  ASSUME SinkTypes, Assign, NEW entries, entries \in Seq(FileEntries),
         file' = entries, synced' \in Nat, synced' <= Len(entries), pc' = "poll"
  PROVE  SinkTypes'
<1>1. /\ position' = [p \in Partitions |-> ResumeAt(p)] /\ inHand' = None
      /\ UNCHANGED <<log, committed>>
  BY DEF Assign
<1>2. \A p \in Partitions : ResumeAt(p) \in Nat
  BY DEF SinkTypes, ResumeAt, NoOffset, NoOffset
<1>3. position' \in [Partitions -> Nat]
  BY <1>1, <1>2
<1> QED
  BY <1>1, <1>3 DEF SinkTypes

LEMMA SinkRestarts ==
  ASSUME SinkInv, SinkRejoin \/ SinkRestart
  PROVE  SinkInv'
<1>1. /\ Assign /\ pc' = "poll" /\ UNCHANGED <<file, synced, dlq>>
      /\ outcome' = outcome \cup SkippedNow
  BY DEF SinkRejoin, SinkRestart, Rebalance, SinkInv, SinkTypes
<1>2. SinkTypes'
  <2>1. PICK entries : entries = file
    OBVIOUS
  <2> QED
    BY <1>1, <2>1, AssignTypes DEF SinkInv, SinkTypes
<1>3. ASSUME NEW loc, Fate(loc) PROVE Fate(loc)'
  BY <1>1, <1>3 DEF Fate, InFile
<1>4. \A x \in SkippedNow : x[2] = "skipped"
  BY DEF SkippedNow
<1>5. \A p \in Partitions, n \in Nat, how \in SinkHows :
        <<<<p, n>>, how>> \in outcome' =>
          <<<<p, n>>, how>> \in outcome \/ how \in {"skipped", "unsynced"}
  BY <1>1, <1>4
<1> QED
  BY <1>1, <1>2, <1>3, <1>5, SinkResumes

\* A crash of the node cuts the file: the whole lines it takes are known.
LEMMA SinkCrashes ==
  ASSUME SinkInv, NodeCrash
  PROVE  SinkInv'
<1>1. PICK cut \in synced..Len(file) :
        /\ Assign /\ file' = SubSeq(file, 1, cut) /\ synced' = cut /\ pc' = "poll"
        /\ outcome' = outcome \cup SkippedNow \cup
             {<<file[i].loc, "unsynced">> :
                i \in {j \in (cut + 1)..Len(file) : file[j].whole}}
        /\ UNCHANGED dlq
  BY DEF NodeCrash
<1>2. /\ file \in Seq(FileEntries) /\ Len(file) \in Nat /\ synced \in Nat
      /\ cut \in Nat /\ cut <= Len(file)
  BY DEF SinkInv, SinkTypes
<1>3. PICK entries : entries = SubSeq(file, 1, cut)
  OBVIOUS
<1>4. /\ entries \in Seq(FileEntries) /\ Len(entries) = cut
      /\ \A i \in 1..cut : entries[i] = file[i]
  BY <1>2, <1>3
<1>5. SinkTypes'
  BY <1>1, <1>2, <1>3, <1>4, AssignTypes DEF SinkInv
<1>6. ASSUME NEW loc, Fate(loc) PROVE Fate(loc)'
  <2>1. CASE InFile(loc)
    <3>1. PICK i \in 1..Len(file) : file[i].loc = loc /\ file[i].whole
      BY <2>1 DEF InFile
    <3>2. CASE i <= cut
      <4>1. i \in 1..Len(file') /\ file'[i] = file[i]
        BY <1>1, <1>2, <1>3, <1>4, <3>1, <3>2
      <4> QED
        BY <3>1, <4>1 DEF Fate, InFile
    <3>3. CASE i > cut
      <4>1. i \in (cut + 1)..Len(file)
        BY <1>2, <3>1, <3>3
      <4>2. <<loc, "unsynced">> \in outcome'
        BY <1>1, <3>1, <4>1
      <4> QED
        BY <4>2 DEF Fate
    <3> QED
      BY <1>2, <3>2, <3>3
  <2>2. CASE ~InFile(loc)
    BY <1>1, <1>6, <2>2 DEF Fate
  <2> QED
    BY <2>1, <2>2
<1>7. \A x \in SkippedNow : x[2] = "skipped"
  BY DEF SkippedNow
<1>8. \A p \in Partitions, n \in Nat, how \in SinkHows :
        <<<<p, n>>, how>> \in outcome' =>
          <<<<p, n>>, how>> \in outcome \/ how \in {"skipped", "unsynced"}
  BY <1>1, <1>7
<1> QED
  BY <1>1, <1>5, <1>6, <1>8, SinkResumes

LEMMA SinkStarts == SinkInit => SinkInv
<1> SUFFICES ASSUME SinkInit
             PROVE  SinkInv
  OBVIOUS
<1>1. /\ log = [p \in Partitions |-> <<>>] /\ position = [p \in Partitions |-> 0]
      /\ committed = [p \in Partitions |-> -1] /\ inHand = None
      /\ pc = "poll" /\ file = <<>> /\ synced = 0 /\ outcome = {}
  BY DEF SinkInit, GroupInit, NoOffset
<1>2. SinkTypes
  <2>1. file \in Seq(FileEntries) /\ Len(file) = 0
    BY <1>1
  <2> QED
    BY <1>1, <2>1 DEF SinkTypes, NoOffset
<1>3. TakenHasFate /\ CommittedHasFate /\ EndingsLeftTraces
  BY <1>1 DEF TakenHasFate, CommittedHasFate, EndingsLeftTraces
<1> QED
  BY <1>2, <1>3 DEF SinkInv

LEMMA SinkStep == SinkInv /\ [SinkNext]_(sinkVars) => SinkInv'
<1> SUFFICES ASSUME SinkInv, [SinkNext]_(sinkVars)
             PROVE  SinkInv'
  OBVIOUS
<1>1. CASE UNCHANGED sinkVars
  <2>1. UNCHANGED <<log, position, committed, inHand, faults, pc, file, synced, dlq,
                    outcome>>
    BY <1>1 DEF sinkVars, groupVars, fileVars
  <2> QED
    BY <2>1 DEF SinkInv, SinkTypes, TakenHasFate, CommittedHasFate, EndingsLeftTraces,
                Fate, InFile
<1>2. CASE SinkNext
  BY <1>2, SinkProduces, SinkTakes, SinkWrites, SinkFails, SinkBuries, SinkAbandons,
     SinkCommits, SinkRestarts, SinkWritesBack, SinkCrashes
     DEF SinkNext, SinkHandle
<1> QED
  BY <1>1, <1>2

\* Behind a committed offset of the sink there is a line of the file, readable
\* or glued to a fragment, a dead letter, or one of the three known losses:
\* given up when both failed, skipped, or not yet written back in a crash.
THEOREM KeptOrExcused == SinkSpec => []CommittedIsKept
<1>1. SinkInv => CommittedIsKept
  <2> SUFFICES ASSUME SinkInv, NEW p \in Partitions, NEW n \in 1..committed[p], NEW loc,
                      loc = <<p, n>>
               PROVE  \/ Readable(loc) \/ Glued(loc) \/ loc \in dlq
                      \/ \E how \in {"abandoned", "skipped", "unsynced"} :
                           <<loc, how>> \in outcome
    BY DEF CommittedIsKept
  <2>1. Fate(loc)
    BY DEF SinkInv, CommittedHasFate
  <2>2. CASE InFile(loc)
    <3>1. PICK i \in 1..Len(file) : i \in Whole(loc)
      BY <2>2 DEF InFile, Whole
    <3>2. Len(file) \in Nat /\ i \in Nat /\ i >= 1
      BY DEF SinkInv, SinkTypes
    <3> QED
      BY <3>1, <3>2 DEF Readable, Glued
  <2>3. CASE ~InFile(loc)
    BY <2>1, <2>3 DEF Fate
  <2> QED
    BY <2>2, <2>3
<1> QED
  BY SinkStarts, SinkStep, <1>1, PTL DEF SinkSpec

-----------------------------------------------------------------------------
(* The offset promise of the sink. *)

\* A handling that only has to commit has ended, and so has that of every whole
\* line: what a crash of the node takes from the file stays settled.
SinkPromise ==
  /\ SinkTypes
  /\ pc = "commit" => Here \in Ended
  /\ \A i \in 1..Len(file) : file[i].whole => file[i].loc \in Ended

\* The ledger starts as the sink does.
LEMMA SinkStartMaps == SinkInit => SinkPromise /\ SinkLedger!Init
<1> SUFFICES ASSUME SinkInit
             PROVE  SinkPromise /\ SinkLedger!Init
  OBVIOUS
<1>1. /\ log = [p \in Partitions |-> <<>>] /\ position = [p \in Partitions |-> 0]
      /\ committed = [p \in Partitions |-> -1] /\ inHand = None
      /\ pc = "poll" /\ file = <<>> /\ outcome = {}
  BY DEF SinkInit, GroupInit, NoOffset
<1>2. SinkPromise
  <2>1. SinkTypes
    BY SinkStarts DEF SinkInv
  <2>2. Len(file) = 0
    BY <1>1
  <2> QED
    BY <1>1, <2>1, <2>2 DEF SinkPromise
<1>3. [p \in Partitions |-> Len(log[p])] = [p \in Partitions |-> 0]
  BY <1>1
<1>4. Ended = {}
  BY <1>1 DEF Ended
<1> QED
  BY <1>1, <1>2, <1>3, <1>4 DEF SinkLedger!Init, SinkLedger!NoOffset

\* An ending of the record in hand settles it and nothing else.
LEMMA EndingEnds ==
  ASSUME NEW loc, NEW how, EndsAs(loc, how)
  PROVE  Ended' = Ended \cup {loc}
<1>1. outcome' = outcome \cup {<<loc, how>>}
  BY DEF EndsAs
<1>2. ASSUME NEW l \in Ended' PROVE l \in Ended \cup {loc}
  <2>1. PICK x \in outcome' : l = x[1]
    BY <1>2 DEF Ended
  <2>2. x \in outcome \/ x[1] = loc
    BY <1>1
  <2> QED
    BY <2>1, <2>2 DEF Ended
<1>3. Ended \subseteq Ended'
  BY <1>1 DEF Ended
<1>4. loc \in Ended'
  <2>1. <<loc, how>>[1] = loc
    OBVIOUS
  <2>2. <<loc, how>> \in outcome'
    BY <1>1
  <2> QED
    BY <2>1, <2>2 DEF Ended
<1> QED
  BY <1>2, <1>3, <1>4

\* An ending with the line it was for, or without one.
LEMMA PromiseKeeps ==
  ASSUME SinkPromise, SinkTypes', Ended \subseteq Ended',
         pc' = "commit" => Here' \in Ended',
         \A i \in 1..Len(file') : file'[i].whole =>
           \/ i \in 1..Len(file) /\ file'[i] = file[i]
           \/ file'[i].loc \in Ended'
  PROVE  SinkPromise'
<1>1. ASSUME NEW i \in 1..Len(file'), file'[i].whole PROVE file'[i].loc \in Ended'
  <2>1. CASE i \in 1..Len(file) /\ file'[i] = file[i]
    BY <1>1, <2>1 DEF SinkPromise
  <2> QED
    BY <1>1, <2>1
<1> QED
  BY <1>1 DEF SinkPromise

\* A record joins the topic.
LEMMA SinkAppends ==
  ASSUME SinkPromise, NEW p \in Partitions, NEW r \in Records, SinkAlert(p, r)
  PROVE  SinkLedger!Append(p) /\ Ended' = Ended
<1>1. /\ log' = [log EXCEPT ![p] = Append(@, r)]
      /\ UNCHANGED <<position, committed, inHand, outcome>>
  BY DEF SinkAlert, Produce, fileVars
<1>2. log \in [Partitions -> Seq(Records)]
  BY DEF SinkPromise, SinkTypes
<1>3. \A q \in Partitions :
        Len(log'[q]) = IF q = p THEN Len(log[q]) + 1 ELSE Len(log[q])
  BY <1>1, <1>2
<1>4. [q \in Partitions |-> Len(log'[q])] =
        [[q \in Partitions |-> Len(log[q])] EXCEPT ![p] = @ + 1]
  BY <1>3
<1>5. Ended' = Ended
  BY <1>1 DEF Ended
<1> QED
  BY <1>1, <1>4, <1>5 DEF SinkLedger!Append

\* Partitions are assigned afresh: what they resume behind is settled, and a
\* crash of the node settles no more than that.
LEMMA SinkReassigns ==
  ASSUME SinkPromise, Assign, NEW T, \A x \in T : x[1] \in Ended,
         outcome' = outcome \cup SkippedNow \cup T
  PROVE  SinkLedger!Resume /\ Ended \subseteq Ended'
<1>1. /\ position' = [p \in Partitions |-> ResumeAt(p)] /\ inHand' = None
      /\ UNCHANGED <<log, committed>>
  BY DEF Assign
<1>2. \A p \in Partitions : ResumeAt(p) \in Nat
  BY DEF SinkPromise, SinkTypes, ResumeAt, NoOffset
<1>3. position' \in [Partitions -> Nat] /\ \A p \in Partitions : position'[p] = ResumeAt(p)
  BY <1>1, <1>2
<1>4. \A p \in Partitions : position'[p] \in SinkLedger!ResumePoints(p)
  BY <1>3 DEF SinkLedger!ResumePoints, ResumeAt, SinkLedger!NoOffset, NoOffset
<1>5. ResumeSkips = UNION {{<<p, n>> : n \in 1..position'[p]} : p \in Partitions}
  BY <1>3 DEF ResumeSkips
<1>6. Ended' = Ended \cup ResumeSkips
  <2>1. ASSUME NEW l \in Ended' PROVE l \in Ended \cup ResumeSkips
    <3>1. PICK x \in outcome' : l = x[1]
      BY <2>1 DEF Ended
    <3>2. CASE x \in outcome
      BY <3>1, <3>2 DEF Ended
    <3>3. CASE x \in SkippedNow
      BY <3>1, <3>3 DEF SkippedNow
    <3>4. CASE x \in T
      BY <3>1, <3>4
    <3> QED
      BY <3>1, <3>2, <3>3, <3>4
  <2>2. Ended \subseteq Ended'
    BY DEF Ended
  <2>3. ASSUME NEW l \in ResumeSkips PROVE l \in Ended'
    <3>1. CASE \A how \in SinkHows : <<l, how>> \notin outcome
      <4>1. <<l, "skipped">> \in outcome'
        BY <2>3, <3>1 DEF SkippedNow
      <4> QED
        BY <4>1 DEF Ended
    <3>2. CASE \E how \in SinkHows : <<l, how>> \in outcome
      BY <2>2, <3>2 DEF Ended
    <3> QED
      BY <3>1, <3>2
  <2> QED
    BY <2>1, <2>2, <2>3
<1> QED
  BY <1>1, <1>3, <1>4, <1>5, <1>6 DEF SinkLedger!Resume

\* A step of the loop keeps the promise and is one of the ledger, or a stutter.
LEMMA SinkStepMaps ==
  ASSUME SinkPromise, SinkTypes', [SinkNext]_sinkVars
  PROVE  SinkPromise' /\ [SinkLedger!Next]_(SinkLedger!vars)
<1> USE DEF SinkLedger!vars
<1>1. CASE UNCHANGED sinkVars
  <2>1. UNCHANGED <<log, position, committed, inHand, pc, file, outcome>>
    BY <1>1 DEF sinkVars, groupVars, fileVars
  <2>2. Ended' = Ended /\ Here' = Here
    BY <2>1 DEF Ended, Here
  <2> QED
    BY <2>1, <2>2 DEF SinkPromise
<1>2. ASSUME NEW p \in Partitions, NEW r \in Records, SinkAlert(p, r)
      PROVE  SinkPromise' /\ SinkLedger!Next
  <2>1. SinkLedger!Append(p) /\ Ended' = Ended
    BY <1>2, SinkAppends
  <2>2. UNCHANGED <<pc, file>> /\ Here' = Here
    BY <1>2 DEF SinkAlert, Produce, fileVars, Here
  <2>3. SinkPromise'
    BY <2>1, <2>2 DEF SinkPromise
  <2> QED
    BY <2>1, <2>3 DEF SinkLedger!Next
<1>3. ASSUME NEW p \in Partitions, SinkTakeJunk(p) \/ SinkTake(p)
      PROVE  SinkPromise' /\ SinkLedger!Next
  <2>1. /\ Poll(p) /\ pc' \in {"dlq", "append"} /\ UNCHANGED <<file, outcome>>
    BY <1>3 DEF SinkTakeJunk, SinkTake
  <2>2. Ended' = Ended
    BY <2>1 DEF Ended
  <2>3. SinkLedger!Take(p)
    BY <2>1, <2>2 DEF SinkLedger!Take, Poll
  <2>4. SinkPromise'
    BY <2>1, <2>2 DEF SinkPromise
  <2> QED
    BY <2>3, <2>4 DEF SinkLedger!Next
<1>4. ASSUME AppendOk
      PROVE  SinkPromise' /\ SinkLedger!Next
  <2>1. /\ AppendEntry(TRUE) /\ EndsAs(Here, "written") /\ pc = "append"
        /\ UNCHANGED <<log, position, committed, inHand>>
    BY <1>4 DEF AppendOk, groupVars
  <2>2. inHand # None /\ Here' = Here
    BY <2>1 DEF SinkPromise, SinkTypes, Here
  <2>3. Ended' = Ended \cup {Here}
    BY <2>1, EndingEnds
  <2>4. SinkLedger!Settle
    BY <2>1, <2>2, <2>3 DEF SinkLedger!Settle, SinkLedger!InHand, Here
  <2>5. ASSUME NEW i \in 1..Len(file')
        PROVE  \/ i \in 1..Len(file) /\ file'[i] = file[i]
               \/ file'[i].loc \in Ended'
    <3>1. PICK e : e = [loc |-> Here, whole |-> TRUE]
      OBVIOUS
    <3>2. Here \in Partitions \X Nat
      BY <2>2 DEF SinkPromise, SinkTypes, Here
    <3>3. e \in FileEntries /\ file' = Append(file, e) /\ file \in Seq(FileEntries)
      BY <2>1, <3>1, <3>2 DEF FileEntries, AppendEntry, SinkPromise, SinkTypes
    <3>4. (i \in 1..Len(file) /\ file'[i] = file[i]) \/ file'[i] = e
      BY <3>3
    <3> QED
      BY <2>3, <3>1, <3>4
  <2>6. SinkPromise'
    BY <2>2, <2>3, <2>5, PromiseKeeps
  <2> QED
    BY <2>4, <2>6 DEF SinkLedger!Next
<1>5. ASSUME AppendRaised
      PROVE  SinkPromise' /\ UNCHANGED SinkLedger!vars
  <2>1. /\ UNCHANGED file \/ AppendEntry(FALSE)
        /\ pc = "append" /\ pc' = "dlq" /\ UNCHANGED <<log, position, committed, inHand, outcome>>
    BY <1>5 DEF AppendRaised, groupVars
  <2>2. Ended' = Ended /\ inHand # None
    BY <2>1 DEF Ended, SinkPromise, SinkTypes
  <2>3. ASSUME NEW i \in 1..Len(file'), file'[i].whole
        PROVE  i \in 1..Len(file) /\ file'[i] = file[i]
    <3>1. CASE UNCHANGED file
      BY <3>1
    <3>2. CASE AppendEntry(FALSE)
      <4>1. PICK e : e = [loc |-> Here, whole |-> FALSE]
        OBVIOUS
      <4>2. Here \in Partitions \X Nat
        BY <2>2 DEF SinkPromise, SinkTypes, Here
      <4>3. e \in FileEntries /\ file' = Append(file, e) /\ file \in Seq(FileEntries)
        BY <3>2, <4>1, <4>2 DEF FileEntries, AppendEntry, SinkPromise, SinkTypes
      <4>4. (i \in 1..Len(file) /\ file'[i] = file[i]) \/ file'[i] = e
        BY <4>3
      <4> QED
        BY <2>3, <4>1, <4>4
    <3> QED
      BY <2>1, <3>1, <3>2
  <2>4. SinkPromise'
    BY <2>1, <2>2, <2>3, PromiseKeeps
  <2> QED
    BY <2>1, <2>2, <2>4
<1>6. ASSUME DlqAcked
      PROVE  SinkPromise' /\ SinkLedger!Next
  <2>1. /\ EndsAs(Here, "dlq") /\ pc = "dlq"
        /\ UNCHANGED <<log, position, committed, inHand, file>>
    BY <1>6 DEF DlqAcked, groupVars
  <2>2. inHand # None /\ Here' = Here
    BY <2>1 DEF SinkPromise, SinkTypes, Here
  <2>3. Ended' = Ended \cup {Here}
    BY <2>1, EndingEnds
  <2>4. SinkLedger!Settle
    BY <2>1, <2>2, <2>3 DEF SinkLedger!Settle, SinkLedger!InHand, Here
  <2>5. SinkPromise'
    BY <2>1, <2>2, <2>3, PromiseKeeps
  <2> QED
    BY <2>4, <2>5 DEF SinkLedger!Next
<1>7. ASSUME DlqFailed
      PROVE  SinkPromise' /\ SinkLedger!Next
  <2>1. /\ EndsAs(Here, "abandoned") /\ pc = "dlq" /\ pc' = "poll" /\ inHand' = None
        /\ UNCHANGED <<log, position, committed, file>>
    BY <1>7 DEF DlqFailed, CommitIfNeeded
  <2>2. inHand # None
    BY <2>1 DEF SinkPromise, SinkTypes
  <2>3. Ended' = Ended \cup {Here}
    BY <2>1, EndingEnds
  <2>4. SinkLedger!GiveUp
    BY <2>1, <2>2, <2>3 DEF SinkLedger!GiveUp, SinkLedger!InHand, Here
  <2>5. SinkPromise'
    BY <2>1, <2>3, PromiseKeeps
  <2> QED
    BY <2>4, <2>5 DEF SinkLedger!Next
<1>8. ASSUME SinkCommit
      PROVE  SinkPromise' /\ SinkLedger!Next
  <2>1. /\ pc = "commit" /\ pc' = "poll" /\ inHand # None /\ inHand' = None
        /\ committed' \in {committed, position}
        /\ UNCHANGED <<log, position, file, outcome>>
    BY <1>8 DEF SinkCommit, CommitIfNeeded
  <2>2. Here \in Ended /\ Ended' = Ended
    BY <2>1 DEF SinkPromise, Ended
  <2>3. SinkLedger!Finish
    BY <2>1, <2>2 DEF SinkLedger!Finish, SinkLedger!InHand, Here
  <2>4. SinkPromise'
    BY <2>1, <2>2, PromiseKeeps
  <2> QED
    BY <2>3, <2>4 DEF SinkLedger!Next
<1>9. ASSUME SinkRejoin \/ SinkRestart
      PROVE  SinkPromise' /\ SinkLedger!Next
  <2>1. /\ Assign /\ inHand' = None /\ file' = file
        /\ outcome' = outcome \cup SkippedNow
    BY <1>9 DEF SinkRejoin, SinkRestart, Rebalance, Assign
  <2>2. SinkLedger!Resume /\ Ended \subseteq Ended'
    <3>1. PICK T : T = {}
      OBVIOUS
    <3>2. outcome' = outcome \cup SkippedNow \cup T /\ \A x \in T : x[1] \in Ended
      BY <2>1, <3>1
    <3> QED
      BY <2>1, <3>2, SinkReassigns
  <2>3. pc' # "commit"
    BY <2>1 DEF SinkTypes
  <2>4. SinkPromise'
    BY <2>1, <2>2, <2>3, PromiseKeeps
  <2> QED
    BY <2>2, <2>4 DEF SinkLedger!Next
<1>10. ASSUME WriteBack
       PROVE  SinkPromise' /\ UNCHANGED SinkLedger!vars
  <2>1. UNCHANGED <<log, position, committed, inHand, pc, file, outcome>>
    BY <1>10 DEF WriteBack, groupVars
  <2>2. Ended' = Ended /\ Here' = Here
    BY <2>1 DEF Ended, Here
  <2> QED
    BY <2>1, <2>2 DEF SinkPromise
<1>11. ASSUME NodeCrash
       PROVE  SinkPromise' /\ SinkLedger!Next
  <2>1. PICK cut \in synced..Len(file) :
          /\ Assign /\ file' = SubSeq(file, 1, cut) /\ pc' = "poll"
          /\ outcome' = outcome \cup SkippedNow \cup
               {<<file[i].loc, "unsynced">> :
                  i \in {j \in (cut + 1)..Len(file) : file[j].whole}}
    BY <1>11 DEF NodeCrash
  <2> DEFINE T == {<<file[i].loc, "unsynced">> :
                     i \in {j \in (cut + 1)..Len(file) : file[j].whole}}
  <2>2. file \in Seq(FileEntries) /\ Len(file) \in Nat /\ cut \in Nat /\ cut <= Len(file)
    BY DEF SinkPromise, SinkTypes
  <2>3. \A x \in T : x[1] \in Ended
    <3> SUFFICES ASSUME NEW i \in (cut + 1)..Len(file), file[i].whole
                 PROVE  file[i].loc \in Ended
      OBVIOUS
    <3>1. i \in 1..Len(file)
      BY <2>2
    <3> QED
      BY <3>1 DEF SinkPromise
  <2>4. outcome' = outcome \cup SkippedNow \cup T
    BY <2>1
  <2> HIDE DEF T
  <2>5. SinkLedger!Resume /\ Ended \subseteq Ended'
    BY <2>1, <2>3, <2>4, SinkReassigns
  <2>6. \A i \in 1..Len(file') : i \in 1..Len(file) /\ file'[i] = file[i]
    BY <2>1, <2>2
  <2>7. SinkPromise'
    BY <2>1, <2>5, <2>6, PromiseKeeps
  <2> QED
    BY <2>5, <2>7 DEF SinkLedger!Next
<1> QED
  BY <1>1, <1>2, <1>3, <1>4, <1>5, <1>6, <1>7, <1>8, <1>9, <1>10, <1>11
     DEF SinkNext, SinkHandle

\* The sink implements the offset promise of a core consumer.
THEOREM SinkImplementsLedger == SinkSpec => SinkLedgerSpec
<1>1. SinkPromise /\ SinkInv' /\ [SinkNext]_sinkVars =>
        SinkPromise' /\ [SinkLedger!Next]_(SinkLedger!vars)
  BY SinkStepMaps DEF SinkInv
<1> QED
  BY SinkStarts, SinkStep, SinkStartMaps, <1>1, PTL
     DEF SinkSpec, SinkLedgerSpec, SinkLedger!Spec

=============================================================================
