---------------------------- MODULE AlertsStore ----------------------------
(***************************************************************************)
(* The alert store: one ClickHouse row per alert taken from the alert      *)
(* topic.  An insert that raises is counted and its offset is not          *)
(* committed, but the loop goes on, and the commit of the next record      *)
(* covers it.  The table is a plain MergeTree: equal rows stay.            *)
(***************************************************************************)
EXTENDS AlertTopic

VARIABLE rows  \* rows[loc]: rows inserted for the record at loc

ownVars == <<pc, rows, outcome>>
vars == <<groupVars, ownVars>>

Hows == {"junk", "stored", "failed", "skipped"}

\* Locations the bounds allow.
Slots == UNION {{<<p, n>> : n \in 1..MaxLog[p]} : p \in Partitions}

-----------------------------------------------------------------------------
Alert(p, r) == Produce(p, r) /\ UNCHANGED ownVars

\* An undecodable alert is committed without a dead letter.
TakeJunk(p) ==
  /\ Poll(p)
  /\ Upcoming(p) = Junk
  /\ EndsAs(<<p, position[p] + 1>>, "junk")
  /\ pc' = "commit"
  /\ UNCHANGED rows

\* Mutant of Take: the row is never inserted.
TakeWithoutInsert(p) ==
  /\ Poll(p)
  /\ Upcoming(p) \in Alerts
  /\ pc' = "commit"
  /\ UNCHANGED <<rows, outcome>>

Take(p) ==
  /\ Poll(p)
  /\ Upcoming(p) \in Alerts
  /\ pc' = "insert"
  /\ UNCHANGED <<rows, outcome>>

InsertOk ==
  /\ pc = "insert"
  /\ rows' = [rows EXCEPT ![Here] = @ + 1]
  /\ EndsAs(Here, "stored")
  /\ pc' = "commit"
  /\ UNCHANGED groupVars

\* Mutant of InsertRaised: the insert is retried at once.
InsertRaisedRetries ==
  /\ pc = "insert"
  /\ \/ UNCHANGED rows
     \/ rows' = [rows EXCEPT ![Here] = @ + 1]
  /\ EndsAs(Here, "failed")
  /\ UNCHANGED <<groupVars, pc>>

\* Mutant of InsertRaised: the offset is committed all the same.
InsertRaisedCommits ==
  /\ pc = "insert"
  /\ EndsAs(Here, "failed")
  /\ CommitIfNeeded(TRUE)
  /\ pc' = "poll"
  /\ UNCHANGED rows

\* client.insert raised; a lost answer leaves the row in the table.
InsertRaised ==
  /\ pc = "insert"
  /\ \/ UNCHANGED rows
     \/ rows' = [rows EXCEPT ![Here] = @ + 1]
  /\ EndsAs(Here, "failed")
  /\ CommitIfNeeded(FALSE)
  /\ pc' = "poll"

Commit ==
  /\ pc = "commit"
  /\ CommitIfNeeded(TRUE)
  /\ pc' = "poll"
  /\ UNCHANGED <<rows, outcome>>

-----------------------------------------------------------------------------
Skip ==
  outcome' = outcome \cup
    {<<loc, "skipped">> : loc \in
       {l \in ResumeSkips : \A how \in Hows : <<l, how>> \notin outcome}}

Rejoin == Rebalance /\ Skip /\ UNCHANGED <<pc, rows>>

Restart == Assign /\ Skip /\ pc' = "poll" /\ UNCHANGED rows

Init ==
  /\ GroupInit
  /\ pc = "poll"
  /\ rows = [loc \in Slots |-> 0]
  /\ outcome = {}

Handle ==
  \/ \E p \in Partitions : TakeJunk(p) \/ Take(p)
  \/ InsertOk \/ InsertRaised \/ Commit

Next ==
  \/ \E p \in Partitions : \E r \in Records : Alert(p, r)
  \/ Handle \/ Rejoin \/ Restart

Spec == Init /\ [][Next]_vars

-----------------------------------------------------------------------------
TypeOK ==
  /\ GroupTypeOK
  /\ pc \in {"poll", "insert", "commit"}
  /\ (pc = "poll") <=> (inHand = None)
  /\ rows \in [Slots -> Nat]
  /\ outcome \subseteq Slots \X Hows

Settled == {x[1] : x \in outcome}

\* A record is inserted once per delivery, and delivered again only after a
\* rebalance or a restart: the number of equal rows is bounded by those.
RowsPerDelivery == \A loc \in Slots : rows[loc] <= 1 + faults

\* Everything before a committed offset is in the table, unless it was not
\* JSON, its insert raised, or the reset policy skipped it.
CommittedIsStored ==
  \A p \in Partitions : \A n \in 1..committed[p] :
    \/ rows[<<p, n>>] > 0
    \/ \E how \in Hows \ {"stored"} : <<<<p, n>>, how>> \in outcome

\* What the core guide says: offsets are committed after successful
\* handling.  Every alert before a committed offset is in the table.
CommitsFollowSuccess ==
  \A p \in Partitions : \A n \in 1..committed[p] :
    \/ log[p][n] = Junk
    \/ <<<<p, n>>, "skipped">> \in outcome
    \/ rows[<<p, n>>] > 0

\* The alert store keeps the offset promise of a core consumer: a failed
\* insert is a settled fate, since nothing will retry it.
Ledger ==
  INSTANCE OffsetLedger WITH
    end <- [p \in Partitions |-> Len(log[p])], hand <- inHand,
    settled <- Settled

LedgerSpec == Ledger!Spec

=============================================================================
