--------------------------- MODULE LcoreStreamer ----------------------------
(***************************************************************************)
(* LCORE streamer: builds a plan from the input table, then writes one     *)
(* event per row to the file the forwarder tails, pass after pass, and     *)
(* remembers the next row in a checkpoint that it saves every              *)
(* checkpoint_every rows.  It may be killed anywhere and is started again. *)
(***************************************************************************)
EXTENDS AdaptivePlan

CONSTANTS
  Tables,           \* possible inputs, each a sequence of rows
  Arguments,        \* possible command lines [loop, maxLoops, maxRecords, runId, reset]
  CheckpointEvery,
  MaxPasses,        \* bound: passes
  MaxKills          \* bound: kills and restarts after an end

ASSUME StreamerAssumption ==
  /\ CheckpointEvery \in Nat \ {0} /\ MaxPasses \in Nat /\ MaxKills \in Nat
  /\ \A t \in Tables : Len(t) \in Nat
  /\ Arguments \subseteq [loop : BOOLEAN, maxLoops : Nat, maxRecords : Nat,
                          runId : Nat, reset : BOOLEAN]

\* A label of the data set: what it contains follows from what it says, and one
\* that names an agent, a link or a node and is no healthy value says that the
\* thing is broken.
Documented(cell) ==
  /\ cell.text = "th" => cell.has \cap FaultMarkers = {}
  /\ cell.text = "transient_healthy" => "transient" \in cell.has
  /\ cell.text \in (ScenarioNames \ {"icmp_blocked_firewall"})
                   \cup {"induced_fault", "transient_fault"} => cell.has \cap FaultMarkers # {}
  /\ cell.has \cap {"agent", "link", "node"} # {} =>
       cell.text \in HealthyValues \/ cell.has \cap FaultMarkers # {}

ASSUME LabelsAssumption ==
  \A t \in Tables : \A i \in 1..Len(t), c \in Marked("label") : Documented(t[i][c])

VARIABLES
  table, args,   \* chosen once
  step,          \* "down", "rows", "save", "end", "final" or "done"
  cursor,        \* row the pass is at
  streamed,      \* rows written in this life
  wrotePass,     \* rows written in this pass of this life
  base,          \* base_run_id, or 0
  loopIndex,
  progress,      \* checkpoint in memory [next, base, loop]
  kept,          \* checkpoint on disk, or NoProgress
  events,        \* the output file
  started,       \* history: where this life started, [next, length of events]
  generated,     \* seconds in which a run id was generated
  kills

streamVars == <<table, args, step, cursor, streamed, wrotePass, base, loopIndex,
                progress, kept, events, started, generated, kills>>

NoProgress == [next |-> 0, base |-> 0, loop |-> 0]

\* _cycle_run_id: each pass of a loop has its own.
CycleRunId(b, l) == IF args.loop THEN <<b, l>> ELSE <<b>>

\* The id given, the one saved, or else the second the program was started in.
Identity(b, second) ==
  IF args.runId # 0 THEN args.runId ELSE IF b # 0 THEN b ELSE second

\* main up to the loop: the plan is made again and the checkpoint is loaded,
\* unless the output is to be reset.  A generated id is a time in whole seconds:
\* a start within the second of the last generated one makes the same id again.
StartStreamer ==
  /\ step \in {"down", "done"} /\ kills < MaxKills /\ kills' = kills + 1
  /\ \E second \in {generated, generated + 1} \ {0} :
     LET from == IF args.reset THEN NoProgress ELSE kept
         id == Identity(from.base, second) IN
     /\ base' = id /\ loopIndex' = from.loop /\ cursor' = from.next
     /\ generated' = IF id = generated + 1 THEN generated + 1 ELSE generated
     /\ progress' = IF args.reset THEN [from EXCEPT !.base = id] ELSE from
     /\ kept' = IF args.reset THEN progress' ELSE kept
     /\ events' = IF args.reset THEN <<>> ELSE events
     /\ started' = [next |-> from.next, length |-> Len(events')]
  /\ step' = "rows" /\ streamed' = 0 /\ wrotePass' = 0
  /\ UNCHANGED <<table, args>>

Enough == args.maxRecords > 0 /\ streamed >= args.maxRecords

\* Mutant of WriteRow: the checkpoint counts the row before it is written.
WriteRowEarlyMark ==
  /\ step = "rows" /\ cursor < Len(table) /\ ~Enough
  /\ events' = Append(events,
       CanonicalEvent(table[cursor + 1], BuildPlan(table), CycleRunId(base, loopIndex), cursor))
  /\ streamed' = streamed + 1 /\ wrotePass' = wrotePass + 1 /\ cursor' = cursor + 1
  /\ progress' = [next |-> cursor + 2, base |-> base, loop |-> loopIndex]
  /\ step' = IF streamed' % CheckpointEvery = 0 THEN "save" ELSE "rows"
  /\ UNCHANGED <<table, args, base, loopIndex, kept, started, generated, kills>>

WriteRow ==
  /\ step = "rows" /\ cursor < Len(table) /\ ~Enough
  /\ events' = Append(events,
       CanonicalEvent(table[cursor + 1], BuildPlan(table), CycleRunId(base, loopIndex), cursor))
  /\ streamed' = streamed + 1 /\ wrotePass' = wrotePass + 1 /\ cursor' = cursor + 1
  /\ progress' = [next |-> cursor + 1, base |-> base, loop |-> loopIndex]
  /\ step' = IF streamed' % CheckpointEvery = 0 THEN "save" ELSE "rows"
  /\ UNCHANGED <<table, args, base, loopIndex, kept, started, generated, kills>>

SaveProgress ==
  /\ step = "save" /\ step' = "rows" /\ kept' = progress
  /\ UNCHANGED <<table, args, cursor, streamed, wrotePass, base, loopIndex, progress,
                 events, started, generated, kills>>

EndPass ==
  /\ step = "rows" /\ step' = "end"
  /\ cursor >= Len(table) \/ Enough
  /\ UNCHANGED <<table, args, cursor, streamed, wrotePass, base, loopIndex, progress,
                 kept, events, started, generated, kills>>

\* Mutant of LastPass: no limit counts as a limit.
LastPassNoLimit ==
  /\ step = "end" /\ step' = "final"
  /\ \/ Enough /\ UNCHANGED loopIndex
     \/ ~args.loop /\ UNCHANGED loopIndex
     \/ /\ ~Enough /\ args.loop
        /\ loopIndex + 1 >= args.maxLoops
        /\ loopIndex' = loopIndex + 1
  /\ UNCHANGED <<table, args, cursor, streamed, wrotePass, base, progress, kept,
                 events, started, generated, kills>>

\* Without --loop, or with enough records or loops, the program ends.
LastPass ==
  /\ step = "end" /\ step' = "final"
  /\ \/ Enough /\ UNCHANGED loopIndex
     \/ ~args.loop /\ UNCHANGED loopIndex
     \/ /\ ~Enough /\ args.loop
        /\ args.maxLoops > 0 /\ loopIndex + 1 >= args.maxLoops
        /\ loopIndex' = loopIndex + 1
  /\ UNCHANGED <<table, args, cursor, streamed, wrotePass, base, progress, kept,
                 events, started, generated, kills>>

\* The next pass has a run id of its own and is saved before it starts; a pass
\* that wrote nothing ends the program.
NextPass ==
  /\ step = "end" /\ ~Enough /\ args.loop /\ loopIndex < MaxPasses
  /\ args.maxLoops = 0 \/ loopIndex + 1 < args.maxLoops
  /\ loopIndex' = loopIndex + 1
  /\ progress' = [next |-> 0, base |-> base, loop |-> loopIndex + 1]
  /\ kept' = progress'
  /\ cursor' = 0 /\ wrotePass' = 0
  /\ step' = IF wrotePass = 0 THEN "final" ELSE "rows"
  /\ UNCHANGED <<table, args, streamed, base, events, started, generated, kills>>

Finish ==
  /\ step = "final" /\ step' = "done"
  /\ progress' = [progress EXCEPT !.base = base, !.loop = loopIndex]
  /\ kept' = progress'
  /\ UNCHANGED <<table, args, cursor, streamed, wrotePass, base, loopIndex, events,
                 started, generated, kills>>

\* The lines are on disk when write returns; what was in memory is lost.
KillStreamer ==
  /\ step \notin {"down", "done"} /\ step' = "down"
  /\ cursor' = 0 /\ streamed' = 0 /\ wrotePass' = 0 /\ base' = 0 /\ loopIndex' = 0
  /\ progress' = NoProgress
  /\ UNCHANGED <<table, args, kept, events, started, generated, kills>>

StreamerInit ==
  /\ table \in Tables /\ args \in Arguments
  /\ step = "down" /\ cursor = 0 /\ streamed = 0 /\ wrotePass = 0
  /\ base = 0 /\ loopIndex = 0 /\ progress = NoProgress /\ kept = NoProgress
  /\ events = <<>> /\ started = [next |-> 0, length |-> 0] /\ generated = 0 /\ kills = 0

StreamerNext ==
  \/ StartStreamer \/ WriteRow \/ SaveProgress \/ EndPass \/ LastPass \/ NextPass
  \/ Finish \/ KillStreamer

StreamerSpec == StreamerInit /\ [][StreamerNext]_streamVars

-----------------------------------------------------------------------------
Ids(from, to) == {events[i].id : i \in from..to}

\* Whatever kills come, a run of the replay has every row up to the last one it
\* wrote, and within one life no row twice; a restart repeats no more than the
\* checkpoint_every rows that were not saved.
ReplayIsExact ==
  /\ \A i \in 1..Len(events) : LET id == events[i].id IN
       id[2] > 0 => <<id[1], id[2] - 1>> \in Ids(1, i - 1)
  /\ Cardinality(Ids(started.length + 1, Len(events))) = Len(events) - started.length
  /\ Cardinality(Ids(1, started.length) \cap Ids(started.length + 1, Len(events)))
       <= CheckpointEvery

\* A replay without end stops only when the input is empty, or when this life
\* started behind the last row: then its first pass writes nothing, which is
\* taken for an empty input.
EndsForAReason ==
  step = "done" /\ args.loop /\ args.maxLoops = 0 /\ args.maxRecords = 0 =>
    started.next >= Len(table)

\* Of the labels the data set documents, an event is a fault exactly when its
\* scenario is one; a blocked ICMP is the exception, it has a scenario and is
\* sent as healthy.
FaultsAreFlagged ==
  \A i \in 1..Len(events) : LET f == events[i].fault IN
    /\ f.isFault => f.scenario \notin {"healthy", "transient_healthy"}
    /\ f.scenario \in (ScenarioNames \ {"icmp_blocked_firewall"})
                      \cup {"induced_fault", "transient_fault"} => f.isFault
=============================================================================
