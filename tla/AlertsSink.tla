----------------------------- MODULE AlertsSink -----------------------------
(***************************************************************************)
(* The alert sink: one JSON line per alert, appended to an hourly file and *)
(* not synced.  A failed append or an undecodable alert goes to the dead   *)
(* letter topic; without that acknowledgement nothing is committed.        *)
(*                                                                         *)
(* One hourly file is modelled.  An append that raises may leave a         *)
(* fragment without a newline, and the next line is glued to it.           *)
(***************************************************************************)
EXTENDS AlertTopic

VARIABLES
  file,      \* what was appended: [loc, whole] in order
  synced,    \* entries of the file the kernel has written back
  dlq        \* locations recorded in the dead letter topic

fileVars == <<pc, file, synced, dlq, outcome>>
sinkVars == <<groupVars, fileVars>>

SinkHows == {"written", "dlq", "abandoned", "skipped", "unsynced"}

AppendEntry(whole) == file' = Append(file, [loc |-> Here, whole |-> whole])

-----------------------------------------------------------------------------
SinkAlert(p, r) == Produce(p, r) /\ UNCHANGED fileVars

SinkTakeJunk(p) ==
  /\ Poll(p)
  /\ Upcoming(p) = Junk
  /\ pc' = "dlq"
  /\ UNCHANGED <<file, synced, dlq, outcome>>

SinkTake(p) ==
  /\ Poll(p)
  /\ Upcoming(p) \in Alerts
  /\ pc' = "append"
  /\ UNCHANGED <<file, synced, dlq, outcome>>

AppendOk ==
  /\ pc = "append"
  /\ AppendEntry(TRUE)
  /\ EndsAs(Here, "written")
  /\ pc' = "commit"
  /\ UNCHANGED <<groupVars, synced, dlq>>

\* Mutant of AppendRaised: the error is logged and the offset committed.
AppendRaisedCommits ==
  /\ pc = "append"
  /\ UNCHANGED file \/ AppendEntry(FALSE)
  /\ pc' = "commit"
  /\ UNCHANGED <<groupVars, synced, dlq, outcome>>

AppendRaised ==
  /\ pc = "append"
  /\ UNCHANGED file \/ AppendEntry(FALSE)
  /\ pc' = "dlq"
  /\ UNCHANGED <<groupVars, synced, dlq, outcome>>

DlqAcked ==
  /\ pc = "dlq"
  /\ dlq' = dlq \cup {Here}
  /\ EndsAs(Here, "dlq")
  /\ pc' = "commit"
  /\ UNCHANGED <<groupVars, file, synced>>

DlqFailed ==
  /\ pc = "dlq"
  /\ UNCHANGED dlq \/ dlq' = dlq \cup {Here}
  /\ EndsAs(Here, "abandoned")
  /\ CommitIfNeeded(FALSE)
  /\ pc' = "poll"
  /\ UNCHANGED <<file, synced>>

SinkCommit ==
  /\ pc = "commit"
  /\ CommitIfNeeded(TRUE)
  /\ pc' = "poll"
  /\ UNCHANGED <<file, synced, dlq, outcome>>

-----------------------------------------------------------------------------
SkippedNow ==
  {<<l, "skipped">> : l \in
     {l \in ResumeSkips : \A how \in SinkHows : <<l, how>> \notin outcome}}

SinkRejoin ==
  /\ Rebalance
  /\ outcome' = outcome \cup SkippedNow
  /\ UNCHANGED <<pc, file, synced, dlq>>

SinkRestart ==
  /\ Assign
  /\ outcome' = outcome \cup SkippedNow
  /\ pc' = "poll"
  /\ UNCHANGED <<file, synced, dlq>>

\* The kernel writes the file back in its own time.
WriteBack ==
  /\ synced < Len(file)
  /\ synced' = Len(file)
  /\ UNCHANGED <<groupVars, pc, file, dlq, outcome>>

\* The node goes down: the file keeps at least what was written back.
NodeCrash ==
  \E kept \in synced..Len(file) :
    /\ Assign
    /\ file' = SubSeq(file, 1, kept)
    /\ synced' = kept
    /\ outcome' = outcome \cup SkippedNow \cup
         {<<file[i].loc, "unsynced">> :
            i \in {i \in (kept + 1)..Len(file) : file[i].whole}}
    /\ pc' = "poll"
    /\ UNCHANGED dlq

SinkInit ==
  /\ GroupInit
  /\ pc = "poll"
  /\ file = <<>> /\ synced = 0
  /\ dlq = {} /\ outcome = {}

SinkHandle ==
  \/ \E p \in Partitions : SinkTakeJunk(p) \/ SinkTake(p)
  \/ AppendOk \/ AppendRaised \/ DlqAcked \/ DlqFailed \/ SinkCommit

SinkNext ==
  \/ \E p \in Partitions : \E r \in Records : SinkAlert(p, r)
  \/ SinkHandle \/ SinkRejoin \/ SinkRestart \/ WriteBack \/ NodeCrash

SinkSpec == SinkInit /\ [][SinkNext]_sinkVars

-----------------------------------------------------------------------------
Whole(loc) == {i \in 1..Len(file) : file[i].loc = loc /\ file[i].whole}

\* Lines a reader of the file can decode: not glued to a fragment.
Readable(loc) == \E i \in Whole(loc) : i = 1 \/ file[i - 1].whole
Glued(loc)    == \E i \in Whole(loc) : i > 1 /\ ~file[i - 1].whole

\* Everything before a committed offset is a readable line or a dead
\* letter, except what was given up after both failed, skipped by the reset
\* policy, glued to the fragment of an earlier failed append, or committed
\* before it was written back when the node went down.
CommittedIsKept ==
  \A p \in Partitions : \A n \in 1..committed[p] :
    LET loc == <<p, n>> IN
    \/ Readable(loc) \/ Glued(loc)
    \/ loc \in dlq
    \/ \E how \in {"abandoned", "skipped", "unsynced"} :
         <<loc, how>> \in outcome

\* Records whose handling has ended in some way.
Ended == {x[1] : x \in outcome}

\* The sink keeps the offset promise of a core consumer: a line written, a dead
\* letter and a record given up are settled, since nothing will retry them; what
\* a crash of the node takes from the file was settled before.
SinkLedger ==
  INSTANCE OffsetLedger WITH
    end <- [p \in Partitions |-> Len(log[p])], hand <- inHand,
    settled <- Ended

SinkLedgerSpec == SinkLedger!Spec

=============================================================================
