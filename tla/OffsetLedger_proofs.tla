------------------------- MODULE OffsetLedger_proofs -------------------------
(***************************************************************************)
(* The offset promise, for any number of partitions and records: only the  *)
(* record in hand may be unsettled behind a position, so everything before *)
(* a committed offset is settled, and committed offsets never move back.   *)
(***************************************************************************)
EXTENDS OffsetLedger, TLAPS

\* The record in hand has been taken.
HandIsTaken == hand # None => position[hand] > 0

LedgerInv ==
  TypeOK /\ HandIsTaken /\ TakenIsSettled /\ CommittedIsTaken /\ CommittedIsSettled

-----------------------------------------------------------------------------
\* The ledger starts within its invariant.
LEMMA LedgerInit == Init => LedgerInv
BY DEF Init, LedgerInv, TypeOK, HandIsTaken, TakenIsSettled, CommittedIsTaken,
       CommittedIsSettled, NoOffset

\* A new record is ahead of every offset.
LEMMA LedgerAppend ==
  ASSUME LedgerInv, NEW p \in Partitions, Append(p)
  PROVE  LedgerInv'
BY DEF Append, LedgerInv, TypeOK, HandIsTaken, TakenIsSettled,
       CommittedIsTaken, CommittedIsSettled

\* Taking leaves open only the record in hand.
LEMMA LedgerTake ==
  ASSUME None \notin Partitions, LedgerInv, NEW p \in Partitions, Take(p)
  PROVE  LedgerInv'
<1>1. /\ hand = None /\ hand' = p
      /\ position[p] \in Nat
      /\ position' = [position EXCEPT ![p] = @ + 1]
      /\ settled \subseteq settled'
      /\ UNCHANGED <<end, committed>>
  BY DEF Take, LedgerInv, TypeOK
<1>2. TypeOK'
  BY DEF Take, LedgerInv, TypeOK
<1>3. TakenIsSettled'
  <2> SUFFICES ASSUME NEW q \in Partitions, NEW n \in 1..position'[q]
               PROVE  <<q, n>> \in settled' \/ (hand' = q /\ n = position'[q])
    BY DEF TakenIsSettled
  <2>1. CASE n \in 1..position[q]
    BY <1>1, <2>1 DEF LedgerInv, TakenIsSettled
  <2>2. CASE n \notin 1..position[q]
    BY <1>1, <2>2 DEF LedgerInv, TypeOK
  <2>3. QED
    BY <2>1, <2>2
<1>4. CommittedIsTaken'
  <2> SUFFICES ASSUME NEW q \in Partitions
               PROVE  committed[q] <= position'[q]
    BY <1>1 DEF CommittedIsTaken
  <2>1. /\ committed[q] <= position[q]
        /\ committed[q] \in Int /\ position[q] \in Nat
    BY DEF LedgerInv, CommittedIsTaken, TypeOK, NoOffset
  <2>2. position'[q] \in {position[q], position[q] + 1}
    BY <1>1 DEF LedgerInv, TypeOK
  <2>3. QED
    BY <2>1, <2>2
<1>5. CommittedIsSettled'
  BY <1>1 DEF LedgerInv, CommittedIsSettled
<1>6. HandIsTaken'
  BY <1>1 DEF HandIsTaken, LedgerInv, TypeOK
<1>7. QED
  BY <1>2, <1>3, <1>4, <1>5, <1>6 DEF LedgerInv

\* What settling the record in hand does, with or without a commit.
LEMMA SettledGrows ==
  ASSUME LedgerInv, hand # None, settled' = settled \cup {InHand},
         UNCHANGED <<end, position, committed>>, hand' \in {hand, None}
  PROVE  LedgerInv'
<1>1. hand \in Partitions /\ position[hand] \in Nat \ {0}
  BY DEF LedgerInv, TypeOK, HandIsTaken
<1>2. TypeOK'
  BY <1>1 DEF LedgerInv, TypeOK, InHand
<1>3. TakenIsSettled'
  BY DEF LedgerInv, TakenIsSettled, InHand
<1>4. QED
  BY <1>2, <1>3
     DEF LedgerInv, HandIsTaken, CommittedIsTaken, CommittedIsSettled

\* A commit makes the positions the committed offsets, and every record
\* behind them is settled, the one in hand included.
LEMMA LedgerFinish ==
  ASSUME LedgerInv, Finish
  PROVE  LedgerInv' /\ \A p \in Partitions : committed[p] <= committed'[p]
<1>1. ASSUME NEW p \in Partitions, NEW n \in 1..position[p]
      PROVE  <<p, n>> \in settled
  BY <1>1 DEF Finish, InHand, LedgerInv, TakenIsSettled
<1>2. ASSUME NEW p \in Partitions
      PROVE  /\ committed[p] \in Int /\ position[p] \in Nat
             /\ committed[p] <= position[p]
             /\ \A n \in 1..committed[p] : <<p, n>> \in settled
  BY DEF LedgerInv, TypeOK, CommittedIsTaken, CommittedIsSettled, NoOffset
<1>3. /\ committed' \in {committed, position} /\ hand' = None
      /\ UNCHANGED <<end, position, settled>>
  BY DEF Finish
<1>4. TypeOK'
  BY <1>3 DEF LedgerInv, TypeOK
<1>5. TakenIsSettled' /\ CommittedIsSettled'
  BY <1>1, <1>2, <1>3 DEF TakenIsSettled, CommittedIsSettled
<1>6. CommittedIsTaken' /\ \A p \in Partitions : committed[p] <= committed'[p]
  BY <1>2, <1>3 DEF CommittedIsTaken
<1>7. HandIsTaken'
  BY <1>3 DEF HandIsTaken
<1>8. QED
  BY <1>4, <1>5, <1>6, <1>7 DEF LedgerInv

\* Resuming leaves nothing open behind a position.
LEMMA LedgerResume ==
  ASSUME LedgerInv, Resume
  PROVE  LedgerInv'
<1> DEFINE behind == UNION {{<<p, n>> : n \in 1..position'[p]} : p \in Partitions}
<1>1. /\ hand' = None
      /\ position' \in [Partitions -> Nat]
      /\ \A p \in Partitions : position'[p] \in ResumePoints(p)
      /\ settled' = settled \cup behind
      /\ UNCHANGED <<end, committed>>
  BY DEF Resume
<1>2. \A p \in Partitions : \A n \in 1..position'[p] : <<p, n>> \in behind
  OBVIOUS
<1>3. behind \subseteq Partitions \X (Nat \ {0})
  BY <1>1
<1> HIDE DEF behind
<1>4. TypeOK'
  BY <1>1, <1>3 DEF LedgerInv, TypeOK
<1>5. TakenIsSettled'
  BY <1>1, <1>2 DEF TakenIsSettled
<1>6. CommittedIsTaken'
  BY <1>1 DEF LedgerInv, TypeOK, CommittedIsTaken, ResumePoints, NoOffset
<1>7. CommittedIsSettled' /\ HandIsTaken'
  BY <1>1 DEF LedgerInv, CommittedIsSettled, HandIsTaken
<1>8. QED
  BY <1>4, <1>5, <1>6, <1>7 DEF LedgerInv

\* Every step keeps the invariant.
LEMMA LedgerStep ==
  ASSUME None \notin Partitions, LedgerInv, [Next]_vars
  PROVE  LedgerInv' /\ \A p \in Partitions : committed[p] <= committed'[p]
<1> \A p \in Partitions : committed[p] <= committed[p]
  BY DEF LedgerInv, TypeOK, NoOffset
<1>1. CASE UNCHANGED vars
  BY <1>1 DEF vars, LedgerInv, TypeOK, HandIsTaken, TakenIsSettled,
              CommittedIsTaken, CommittedIsSettled
<1>2. ASSUME NEW p \in Partitions, Append(p)
      PROVE  LedgerInv' /\ committed' = committed
  BY <1>2, LedgerAppend DEF Append
<1>3. ASSUME NEW p \in Partitions, Take(p)
      PROVE  LedgerInv' /\ committed' = committed
  BY <1>3, LedgerTake DEF Take
<1>4. CASE Settle
  BY <1>4, SettledGrows DEF Settle
<1>5. CASE Finish
  BY <1>5, LedgerFinish
<1>6. CASE GiveUp
  BY <1>6, SettledGrows DEF GiveUp
<1>7. CASE Resume
  BY <1>7, LedgerResume DEF Resume
<1>8. QED
  BY <1>1, <1>2, <1>3, <1>4, <1>5, <1>6, <1>7 DEF Next

-----------------------------------------------------------------------------
\* Only the record in hand is open behind a position, no partition is read
\* from before its offset, and what an offset passes is settled.
THEOREM LedgerSafe ==
  ASSUME None \notin Partitions
  PROVE  Spec => [](TakenIsSettled /\ CommittedIsTaken /\ CommittedIsSettled)
<1>1. Init => LedgerInv
  BY LedgerInit
<1>2. LedgerInv /\ [Next]_vars => LedgerInv'
  BY LedgerStep
<1>3. LedgerInv => TakenIsSettled /\ CommittedIsTaken /\ CommittedIsSettled
  BY DEF LedgerInv
<1>4. QED
  BY <1>1, <1>2, <1>3, PTL DEF Spec

\* No commit, rebalance or restart moves a committed offset back.
THEOREM OffsetsNeverRetreat ==
  ASSUME None \notin Partitions
  PROVE  Spec => CommitsAdvance
<1>1. Init => LedgerInv
  BY LedgerInit
<1>2. LedgerInv /\ [Next]_vars =>
        LedgerInv' /\ \A p \in Partitions : committed[p] <= committed'[p]
  BY LedgerStep
<1>3. QED
  BY <1>1, <1>2, PTL DEF Spec, CommitsAdvance

=============================================================================
