----------------------------- MODULE Correlator -----------------------------
(***************************************************************************)
(* The correlator's loop: take a raw record, pass it through the quality   *)
(* gate and the rule engine, publish each alert and wait for the broker,   *)
(* fall back to the dead letter topic, then commit.                        *)
(*                                                                         *)
(* The rule engine is any function of its history: for an accepted event   *)
(* it raises, or returns 0..MaxAlerts alerts.  An alert is <<event, n>>:   *)
(* alert_id is a digest of rule and event, so a second publication of the  *)
(* same alert carries the same id.                                         *)
(***************************************************************************)
EXTENDS ConsumerGroup, QualityGate

CONSTANTS
  Junk,        \* a record that is not JSON
  Invalid,     \* an event with a bad parse status or a missing field
  MaxAlerts    \* bound: alerts the engine returns for one event

ASSUME CorrelatorAssumption ==
  /\ MaxAlerts \in Nat \ {0}
  /\ Records = Events \cup {Junk, Invalid}
  /\ Junk \notin Events /\ Invalid \notin Events /\ Junk # Invalid

VARIABLES
  pc,          \* what the loop does next with the record in hand
  left,        \* alerts of the record in hand still to publish
  alerts,      \* alerts in the alert topic
  dlq,         \* locations recorded in the dead letter topic
  outcome,     \* history: <<location, how>> each handling ended
  accepted     \* history: events accepted since the process started

ownVars == <<pc, left, alerts, dlq, outcome, accepted>>
vars == <<groupVars, gateVars, ownVars>>

Hows == {"invalid", "duplicate", "quiet", "published", "dlq",
         "abandoned", "skipped"}

EndsAs(loc, how) == outcome' = outcome \cup {<<loc, how>>}

NextLocation(p) == <<p, position[p] + 1>>

-----------------------------------------------------------------------------
RawRecord(p, r) == Produce(p, r) /\ UNCHANGED <<gateVars, ownVars>>

TakeJunk(p) ==
  /\ Poll(p)
  /\ Upcoming(p) = Junk
  /\ pc' = "dlq"
  /\ UNCHANGED <<gateVars, left, alerts, dlq, outcome, accepted>>

RejectInvalid(p) ==
  /\ Poll(p)
  /\ Upcoming(p) = Invalid
  /\ EndsAs(NextLocation(p), "invalid")
  /\ pc' = "commit"
  /\ UNCHANGED <<gateVars, left, alerts, dlq, accepted>>

RejectDuplicate(p) ==
  /\ Poll(p)
  /\ Upcoming(p) \in seen
  /\ EndsAs(NextLocation(p), "duplicate")
  /\ pc' = "commit"
  /\ UNCHANGED <<gateVars, left, alerts, dlq, accepted>>

\* The id is remembered before the engine runs and before anything is sent.
Accept(p) ==
  /\ Poll(p)
  /\ Upcoming(p) \in Events \ seen
  /\ Remember(Upcoming(p))
  /\ accepted' = Append(accepted, Upcoming(p))
  /\ \/ \* engine.process raised
        /\ pc' = "dlq"
        /\ UNCHANGED <<left, outcome>>
     \/ \* no alert
        /\ pc' = "commit"
        /\ EndsAs(NextLocation(p), "quiet")
        /\ UNCHANGED left
     \/ /\ left' \in 1..MaxAlerts
        /\ pc' = "publish"
        /\ UNCHANGED outcome
  /\ UNCHANGED <<alerts, dlq>>

-----------------------------------------------------------------------------
PublishAcked ==
  /\ pc = "publish"
  /\ alerts' = alerts \cup {<<Current, left>>}
  /\ left' = left - 1
  /\ IF left = 1
     THEN pc' = "commit" /\ EndsAs(Here, "published")
     ELSE UNCHANGED <<pc, outcome>>
  /\ UNCHANGED <<groupVars, gateVars, dlq, accepted>>

\* Mutant of PublishFailed: should_commit stays true.
PublishFailedCommits ==
  /\ pc = "publish"
  /\ left' = 0
  /\ EndsAs(Here, "published")
  /\ pc' = "commit"
  /\ UNCHANGED <<groupVars, gateVars, alerts, dlq, accepted>>

\* send or get(timeout=30) raised: the loop over the alerts is broken off.
\* A timeout does not mean the alert is not in the topic.
PublishFailed ==
  /\ pc = "publish"
  /\ \/ UNCHANGED alerts
     \/ alerts' = alerts \cup {<<Current, left>>}
  /\ left' = 0
  /\ pc' = "dlq"
  /\ UNCHANGED <<groupVars, gateVars, dlq, outcome, accepted>>

DlqAcked ==
  /\ pc = "dlq"
  /\ dlq' = dlq \cup {Here}
  /\ EndsAs(Here, "dlq")
  /\ pc' = "commit"
  /\ UNCHANGED <<groupVars, gateVars, left, alerts, accepted>>

\* Mutant of DlqFailed: the offset is committed all the same.
DlqFailedCommits ==
  /\ pc = "dlq"
  /\ EndsAs(Here, "abandoned")
  /\ CommitIfNeeded(TRUE)
  /\ pc' = "poll"
  /\ UNCHANGED <<gateVars, left, alerts, dlq, accepted>>

\* Mutant of DlqFailed: the record is tried again from the publication on.
DlqFailedRetries ==
  /\ pc = "dlq"
  /\ left' = 1
  /\ pc' = "publish"
  /\ UNCHANGED <<groupVars, gateVars, alerts, dlq, outcome, accepted>>

\* Nothing is committed and the loop moves on to the next record.
DlqFailed ==
  /\ pc = "dlq"
  /\ \/ UNCHANGED dlq
     \/ dlq' = dlq \cup {Here}
  /\ EndsAs(Here, "abandoned")
  /\ CommitIfNeeded(FALSE)
  /\ pc' = "poll"
  /\ UNCHANGED <<gateVars, left, alerts, accepted>>

Commit ==
  /\ pc = "commit"
  /\ CommitIfNeeded(TRUE)
  /\ pc' = "poll"
  /\ UNCHANGED <<gateVars, left, alerts, dlq, outcome, accepted>>

-----------------------------------------------------------------------------
Skip ==
  outcome' = outcome \cup
    {<<loc, "skipped">> : loc \in
       {l \in ResumeSkips : \A how \in Hows : <<l, how>> \notin outcome}}

\* The process and its memory survive a rebalance.
Rejoin ==
  /\ Rebalance
  /\ Skip
  /\ UNCHANGED <<gateVars, pc, left, alerts, dlq, accepted>>

Restart ==
  /\ Assign
  /\ Skip
  /\ GateLost
  /\ pc' = "poll"
  /\ left' = 0
  /\ accepted' = <<>>
  /\ UNCHANGED <<alerts, dlq>>

-----------------------------------------------------------------------------
Init ==
  /\ GroupInit /\ GateInit
  /\ pc = "poll" /\ left = 0
  /\ alerts = {} /\ dlq = {}
  /\ outcome = {} /\ accepted = <<>>

Handle ==
  \/ \E p \in Partitions :
       TakeJunk(p) \/ RejectInvalid(p) \/ RejectDuplicate(p) \/ Accept(p)
  \/ PublishAcked \/ PublishFailed \/ DlqAcked \/ DlqFailed \/ Commit

Next ==
  \/ \E p \in Partitions : \E r \in Records : RawRecord(p, r)
  \/ Handle \/ Rejoin \/ Restart

Spec == Init /\ [][Next]_vars

\* Every send is bounded by its timeout, so the loop always moves on.
FairSpec == Spec /\ WF_vars(Handle)

-----------------------------------------------------------------------------
TypeOK ==
  /\ GroupTypeOK /\ GateTypeOK
  /\ pc \in {"poll", "publish", "dlq", "commit"}
  /\ (pc = "poll") <=> (inHand = None)
  /\ left \in 0..MaxAlerts
  /\ (pc = "publish") <=> (left > 0)
  /\ alerts \subseteq Events \X (1..MaxAlerts)
  /\ dlq \subseteq Locations
  /\ outcome \subseteq Locations \X Hows
  /\ accepted \in Seq(Events)

\* Locations whose handling has ended at least once.
Settled == {x[1] : x \in outcome}

\* Two acceptances of one event id by one process are more than CacheSize
\* acceptances apart: replays within the window raise no second alert.
DedupWindow ==
  \A i, j \in 1..Len(accepted) :
    i < j /\ accepted[i] = accepted[j] => j - i > CacheSize

\* A committed record does not vanish: it was invalid, the dead letter topic
\* has it, or, for an event, its alerts are out or some delivery of it ended
\* without an alert or in the dead letter topic.  The exceptions are records
\* given up after both sends failed and those the reset policy skipped.
CommittedLeavesTrace ==
  \A p \in Partitions : \A n \in 1..committed[p] :
    LET r == log[p][n]
        copies == {l \in Settled : log[l[1]][l[2]] = r}
    IN  \/ r = Invalid
        \/ <<<<p, n>>, "skipped">> \in outcome
        \/ <<r, 1>> \in alerts
        \/ \E l \in copies :
             /\ r \in Events \/ l = <<p, n>>
             /\ \/ l \in dlq
                \/ <<l, "quiet">> \in outcome
                \/ <<l, "abandoned">> \in outcome

\* The correlator keeps the offset promise of a core consumer.
Ledger ==
  INSTANCE OffsetLedger WITH
    end <- [p \in Partitions |-> Len(log[p])], hand <- inHand,
    settled <- Settled

LedgerSpec == Ledger!Spec

\* Every raw record is eventually taken and handled to the end.
Drains == <>[]Drained

=============================================================================
