--------------------------- MODULE EdgeForwarder ---------------------------
(***************************************************************************)
(* The edge forwarder: one process that tails the event files written by   *)
(* the ingest side and hands every fact to an asynchronous Kafka producer, *)
(* keeping one byte offset per file in a JSON checkpoint.                  *)
(*                                                                         *)
(* A file is measured in half lines.  Line k of a file has a head, unit    *)
(* 2k-1, and a tail that ends with the newline, unit 2k; the writer may be *)
(* observed between the two.  An offset o stands for the o units before    *)
(* it, so the head of line k is behind offset o iff 2k-1 <= o.             *)
(*                                                                         *)
(* Truncating or removing a file starts a new generation of it.  The code  *)
(* knows no generations: the field gen of an offset is history, it records *)
(* which incarnation of the file the offset was measured in.               *)
(***************************************************************************)
EXTENDS Naturals, FiniteSets

CONSTANTS
  Files,          \* paths matched by the glob; numbers, in sorted() order
  MaxLines,       \* bound: MaxLines[f] lines per generation of file f
  MaxGen,         \* bound: MaxGen[f] truncations and removals of file f
  MaxCrashes,     \* bound: process crashes
  MaxBatch,       \* FORWARDER_MAX_BATCH_LINES
  Filtered,       \* lines <<file, number>> a configured filter drops
  Malformed,      \* lines that are blank, not UTF-8 or not JSON
  DeliveryFails   \* may an outage outlast the producer's retries?

ASSUME FilesAssumption == Files \subseteq Nat /\ Files # {}
ASSUME BoundsAssumption ==
  /\ MaxLines \in [Files -> Nat] /\ MaxGen \in [Files -> Nat]
  /\ MaxCrashes \in Nat
  /\ MaxBatch \in Nat \ {0}
ASSUME LinesAssumption ==
  /\ Filtered \subseteq Files \X Nat
  /\ Malformed \subseteq Files \X Nat
ASSUME DeliveryAssumption == DeliveryFails \in BOOLEAN

VARIABLES
  present,   \* present[f]: the path exists
  size,      \* size[f]: units in the file
  gen,       \* gen[f]: incarnation of the path
  pc,        \* where the forwarder's loop stands, "down" when crashed
  listed,    \* files: the paths the current scan found
  todo,      \* the listed paths the scan has not finished
  cur,       \* path of the open file
  cursor,    \* fp.tell() of the open file
  sent,      \* lines_sent
  mem,       \* file_offsets in memory
  saved,     \* file_offsets in the checkpoint on disk
  inflight,  \* records handed to the producer, not yet answered
  topic,     \* facts in the raw topic
  lost,      \* history: facts passed over for good, with the reason
  sentNow,   \* history: facts sent since the process started
  resent,    \* history: facts sent twice by one process
  crashes    \* crashes so far

fileVars     == <<present, size, gen>>
readVars     == <<cur, cursor, sent>>
scanVars     == <<listed, todo>>
producerVars == <<inflight, topic>>
vars == <<fileVars, pc, scanVars, readVars, mem, saved, producerVars,
          lost, sentNow, resent, crashes>>

Lines   == {l \in [file : Files, gen : Nat, num : Nat] :
              l.gen <= MaxGen[l.file] /\ l.num \in 1..MaxLines[l.file]}
Offsets == [off : Nat, gen : Nat]
Reasons == {"torn", "overrun", "expired"}
Stages  == {"scan", "pick", "read", "batch", "flush", "save", "prune", "down"}

Line(f, k) == [file |-> f, gen |-> gen[f], num |-> k]

\* The head of line k lies before offset o.
Passed(k, o) == 2 * k - 1 <= o

\* A line the forwarder should send.
IsFact(f, k) == <<f, k>> \notin Filtered \cup Malformed

Start(f) == [off |-> 0, gen |-> gen[f]]

\* Lines of file f that a position measured in an earlier generation skips.
Overrun(f, pos) ==
  IF pos.gen = gen[f] THEN {}
  ELSE {[line |-> Line(f, k), why |-> "overrun"] :
          k \in {n \in 1..MaxLines[f] : Passed(n, pos.off)}}

-----------------------------------------------------------------------------
(***************************************************************************)
(* The writer of the event files.  A line may become visible in two parts; *)
(* the LCORE streamer truncates its output on --reset-output, and an       *)
(* operator may remove an old hourly file that is not being read.          *)
(***************************************************************************)
WriteHead(f) ==
  /\ size[f] % 2 = 0 /\ size[f] < 2 * MaxLines[f]
  /\ size' = [size EXCEPT ![f] = @ + 1]
  /\ present' = [present EXCEPT ![f] = TRUE]
  /\ UNCHANGED <<gen, pc, scanVars, readVars, mem, saved, producerVars,
                 lost, sentNow, resent, crashes>>

WriteTail(f) ==
  /\ size[f] % 2 = 1
  /\ size' = [size EXCEPT ![f] = @ + 1]
  /\ UNCHANGED <<present, gen, pc, scanVars, readVars, mem, saved,
                 producerVars, lost, sentNow, resent, crashes>>

Erase(f, still) ==
  /\ present[f] /\ gen[f] < MaxGen[f]
  /\ size' = [size EXCEPT ![f] = 0]
  /\ gen' = [gen EXCEPT ![f] = @ + 1]
  /\ present' = [present EXCEPT ![f] = still]
  /\ UNCHANGED <<pc, scanVars, readVars, mem, saved, producerVars,
                 lost, sentNow, resent, crashes>>

Truncate(f) == Erase(f, TRUE)

Remove(f) ==
  /\ ~(cur = f /\ pc \in {"read", "batch", "flush"})
  /\ Erase(f, FALSE)

-----------------------------------------------------------------------------
(***************************************************************************)
(* The scan: list the files, then take them one by one in sorted order.    *)
(***************************************************************************)
Scan ==
  /\ pc = "scan"
  /\ listed' = {f \in Files : present[f]}
  /\ todo' = listed'
  /\ pc' = "pick"
  /\ UNCHANGED <<fileVars, readVars, mem, saved, producerVars,
                 lost, sentNow, resent, crashes>>

\* os.path.getsize raises for a path removed since the scan: the process dies.
PickVanished(f) ==
  /\ pc = "pick"
  /\ f \in todo /\ \A g \in todo : f <= g
  /\ ~present[f]
  /\ pc' = "down"
  /\ inflight' = {}
  /\ sentNow' = {}
  /\ UNCHANGED <<fileVars, scanVars, readVars, mem, saved, topic,
                 lost, resent, crashes>>

\* Mutant of Pick: an offset equal to the size restarts the file as well.
PickRestartsAtEnd(f) ==
  LET pos == IF mem[f].off >= size[f] THEN Start(f) ELSE mem[f] IN
  /\ pc = "pick"
  /\ f \in todo /\ \A g \in todo : f <= g
  /\ present[f]
  /\ lost' = lost \cup Overrun(f, pos)
  /\ IF pos.off = size[f]
     THEN todo' = todo \ {f} /\ UNCHANGED <<pc, readVars>>
     ELSE /\ cur' = f /\ cursor' = pos /\ sent' = 0 /\ pc' = "read"
          /\ UNCHANGED todo
  /\ UNCHANGED <<fileVars, listed, mem, saved, producerVars,
                 sentNow, resent, crashes>>

\* Mutant of Pick: an offset beyond the size is kept, and the file skipped.
PickKeepsOffset(f) ==
  /\ pc = "pick"
  /\ f \in todo /\ \A g \in todo : f <= g
  /\ present[f]
  /\ lost' = lost \cup Overrun(f, mem[f])
  /\ IF mem[f].off >= size[f]
     THEN todo' = todo \ {f} /\ UNCHANGED <<pc, readVars>>
     ELSE /\ cur' = f /\ cursor' = mem[f] /\ sent' = 0 /\ pc' = "read"
          /\ UNCHANGED todo
  /\ UNCHANGED <<fileVars, listed, mem, saved, producerVars,
                 sentNow, resent, crashes>>

\* An offset beyond the size restarts the file, an equal one skips it.
Pick(f) ==
  LET pos == IF mem[f].off > size[f] THEN Start(f) ELSE mem[f] IN
  /\ pc = "pick"
  /\ f \in todo /\ \A g \in todo : f <= g
  /\ present[f]
  /\ lost' = lost \cup Overrun(f, pos)
  /\ \/ /\ pos.off = size[f]
        /\ todo' = todo \ {f}
        /\ UNCHANGED <<pc, readVars>>
     \/ /\ pos.off < size[f]
        /\ cur' = f
        /\ cursor' = pos
        /\ sent' = 0
        /\ pc' = "read"
        /\ UNCHANGED todo
  /\ UNCHANGED <<fileVars, listed, mem, saved, producerVars,
                 sentNow, resent, crashes>>

-----------------------------------------------------------------------------
(***************************************************************************)
(* The reading loop over one open file.                                    *)
(***************************************************************************)
At(o) == [off |-> o, gen |-> gen[cur]]

\* Stands for no open file; which path it is makes no difference.
NoFile == CHOOSE f \in Files : TRUE

Closed == cur' = NoFile /\ cursor' = [off |-> 0, gen |-> 0] /\ sent' = 0

\* Undecodable, blank or invalid line: only the file position moves.
ReadMalformed(k) ==
  /\ pc = "read"
  /\ cursor.off = 2 * k - 2 /\ size[cur] >= 2 * k
  /\ <<cur, k>> \in Malformed
  /\ cursor' = At(2 * k)
  /\ lost' = lost \cup Overrun(cur, cursor)
  /\ UNCHANGED <<fileVars, pc, scanVars, cur, sent, mem, saved, producerVars,
                 sentNow, resent, crashes>>

\* A filter drops the fact: its offset is recorded, nothing is sent.
ReadFiltered(k) ==
  /\ pc = "read"
  /\ cursor.off = 2 * k - 2 /\ size[cur] >= 2 * k
  /\ <<cur, k>> \in Filtered \ Malformed
  /\ cursor' = At(2 * k)
  /\ mem' = [mem EXCEPT ![cur] = At(2 * k)]
  /\ lost' = lost \cup Overrun(cur, cursor)
  /\ UNCHANGED <<fileVars, pc, scanVars, cur, sent, saved, producerVars,
                 sentNow, resent, crashes>>

\* Mutant of ReadFact: the record sent is the line after the one read.
ReadFactSendsNext(k) ==
  LET l == Line(cur, k + 1) IN
  /\ pc = "read"
  /\ cursor.off = 2 * k - 2 /\ size[cur] >= 2 * k
  /\ IsFact(cur, k)
  /\ inflight' = inflight \cup {l}
  /\ sentNow' = sentNow \cup {l}
  /\ cursor' = At(2 * k)
  /\ mem' = [mem EXCEPT ![cur] = At(2 * k)]
  /\ sent' = sent + 1
  /\ pc' = IF sent' % MaxBatch = 0 THEN "batch" ELSE "read"
  /\ lost' = lost \cup Overrun(cur, cursor)
  /\ UNCHANGED <<fileVars, scanVars, cur, saved, topic, resent, crashes>>

\* producer.send only queues the record; the offset moves at once.
ReadFact(k) ==
  LET l == Line(cur, k) IN
  /\ pc = "read"
  /\ cursor.off = 2 * k - 2 /\ size[cur] >= 2 * k
  /\ IsFact(cur, k)
  /\ inflight' = inflight \cup {l}
  /\ sentNow' = sentNow \cup {l}
  /\ resent' = IF l \in sentNow THEN resent \cup {l} ELSE resent
  /\ cursor' = At(2 * k)
  /\ mem' = [mem EXCEPT ![cur] = At(2 * k)]
  /\ sent' = sent + 1
  /\ pc' = IF sent' % MaxBatch = 0 THEN "batch" ELSE "read"
  /\ lost' = lost \cup Overrun(cur, cursor)
  /\ UNCHANGED <<fileVars, scanVars, cur, saved, topic, crashes>>

\* The head of a line whose tail is not written yet reads as invalid JSON.
ReadTornHead(k) ==
  /\ pc = "read"
  /\ cursor.off = 2 * k - 2 /\ size[cur] = 2 * k - 1
  /\ cursor' = At(2 * k - 1)
  /\ lost' = lost \cup Overrun(cur, cursor)
                  \cup {[line |-> Line(cur, k), why |-> "torn"]}
  /\ UNCHANGED <<fileVars, pc, scanVars, cur, sent, mem, saved, producerVars,
                 sentNow, resent, crashes>>

\* The rest of a line whose head is behind the position is invalid JSON too.
ReadOrphanTail(k) ==
  /\ pc = "read"
  /\ cursor.off = 2 * k - 1 /\ size[cur] >= 2 * k
  /\ cursor' = At(2 * k)
  /\ lost' = lost \cup Overrun(cur, cursor)
  /\ UNCHANGED <<fileVars, pc, scanVars, cur, sent, mem, saved, producerVars,
                 sentNow, resent, crashes>>

EndOfFile ==
  /\ pc = "read"
  /\ cursor.off >= size[cur]
  /\ pc' = "flush"
  /\ UNCHANGED <<fileVars, scanVars, readVars, mem, saved, producerVars,
                 lost, sentNow, resent, crashes>>

-----------------------------------------------------------------------------
(***************************************************************************)
(* Flushing and checkpointing.  producer.flush returns once every record   *)
(* has been answered, whatever the answer.                                 *)
(***************************************************************************)
\* Mutant of BatchSave: the checkpoint is written without the flush.
BatchSaveUnflushed ==
  /\ pc = "batch"
  /\ saved' = mem
  /\ pc' = "read"
  /\ UNCHANGED <<fileVars, scanVars, readVars, mem, producerVars,
                 lost, sentNow, resent, crashes>>

BatchSave ==
  /\ pc = "batch"
  /\ inflight = {}
  /\ saved' = mem
  /\ pc' = "read"
  /\ UNCHANGED <<fileVars, scanVars, readVars, mem, producerVars,
                 lost, sentNow, resent, crashes>>

FlushFile ==
  /\ pc = "flush"
  /\ inflight = {}
  /\ mem' = [mem EXCEPT ![cur] = cursor]
  /\ pc' = "save"
  /\ UNCHANGED <<fileVars, scanVars, readVars, saved, producerVars,
                 lost, sentNow, resent, crashes>>

\* The file is closed by now: its position and line count are dead.
SaveFile ==
  /\ pc = "save"
  /\ saved' = mem
  /\ todo' = todo \ {cur}
  /\ Closed
  /\ pc' = "pick"
  /\ UNCHANGED <<fileVars, listed, mem, producerVars,
                 lost, sentNow, resent, crashes>>

EndScan ==
  /\ pc = "pick"
  /\ todo = {}
  /\ pc' = "prune"
  /\ UNCHANGED <<fileVars, scanVars, readVars, mem, saved, producerVars,
                 lost, sentNow, resent, crashes>>

\* Offset 0 and an absent key mean the same to file_offsets.get(path, 0).
Stale(f) == f \notin listed /\ mem[f].off > 0

Prune(f) ==
  /\ pc = "prune"
  /\ Stale(f)
  /\ mem' = [mem EXCEPT ![f] = Start(f)]
  /\ saved' = mem'
  /\ UNCHANGED <<fileVars, pc, scanVars, readVars, producerVars,
                 lost, sentNow, resent, crashes>>

\* Mutant of Sleep: the files are listed once, before the loop.
SleepWithoutScan ==
  /\ pc = "prune"
  /\ \A f \in Files : ~Stale(f)
  /\ todo' = listed
  /\ pc' = "pick"
  /\ UNCHANGED <<fileVars, listed, readVars, mem, saved, producerVars,
                 lost, sentNow, resent, crashes>>

Sleep ==
  /\ pc = "prune"
  /\ \A f \in Files : ~Stale(f)
  /\ listed' = {}
  /\ pc' = "scan"
  /\ UNCHANGED <<fileVars, todo, readVars, mem, saved, producerVars,
                 lost, sentNow, resent, crashes>>

-----------------------------------------------------------------------------
(***************************************************************************)
(* The producer's background sender: acks=all with retries, after which    *)
(* the failure sits in a future nobody reads.                              *)
(***************************************************************************)
Deliver(l) ==
  /\ l \in inflight
  /\ inflight' = inflight \ {l}
  /\ topic' = topic \cup {l}
  /\ UNCHANGED <<fileVars, pc, scanVars, readVars, mem, saved,
                 lost, sentNow, resent, crashes>>

Expire(l) ==
  /\ DeliveryFails
  /\ l \in inflight
  /\ inflight' = inflight \ {l}
  /\ lost' = lost \cup {[line |-> l, why |-> "expired"]}
  /\ UNCHANGED <<fileVars, pc, scanVars, readVars, mem, saved, topic,
                 sentNow, resent, crashes>>

(***************************************************************************)
(* Crash and restart.  The offsets in memory and the queued records go;    *)
(* a checkpoint that cannot be read counts as an empty one.                *)
(***************************************************************************)
Crash ==
  /\ pc # "down"
  /\ crashes < MaxCrashes
  /\ crashes' = crashes + 1
  /\ pc' = "down"
  /\ inflight' = {}
  /\ sentNow' = {}
  /\ UNCHANGED <<fileVars, scanVars, readVars, mem, saved, topic,
                 lost, resent>>

Restart ==
  /\ pc = "down"
  /\ \/ mem' = saved
     \/ mem' = [f \in Files |-> Start(f)]
  /\ listed' = {}
  /\ todo' = {}
  /\ pc' = "scan"
  /\ Closed
  /\ UNCHANGED <<fileVars, saved, producerVars,
                 lost, sentNow, resent, crashes>>

-----------------------------------------------------------------------------
Init ==
  /\ present = [f \in Files |-> FALSE]
  /\ size = [f \in Files |-> 0]
  /\ gen = [f \in Files |-> 0]
  /\ pc = "scan"
  /\ listed = {} /\ todo = {}
  /\ cur = NoFile
  /\ cursor = [off |-> 0, gen |-> 0]
  /\ sent = 0
  /\ mem = [f \in Files |-> [off |-> 0, gen |-> 0]]
  /\ saved = mem
  /\ inflight = {} /\ topic = {}
  /\ lost = {} /\ sentNow = {} /\ resent = {}
  /\ crashes = 0

Write == \E f \in Files : WriteHead(f) \/ WriteTail(f) \/ Truncate(f) \/ Remove(f)

ReadLine ==
  \E k \in 1..MaxLines[cur] :
    ReadMalformed(k) \/ ReadFiltered(k) \/ ReadFact(k)
      \/ ReadTornHead(k) \/ ReadOrphanTail(k)

Forward ==
  \/ Scan
  \/ \E f \in Files : PickVanished(f) \/ Pick(f) \/ Prune(f)
  \/ ReadLine
  \/ EndOfFile \/ BatchSave \/ FlushFile \/ SaveFile \/ EndScan \/ Sleep

Answer == \E l \in inflight : Deliver(l) \/ Expire(l)

Next == Write \/ Forward \/ Answer \/ Crash \/ Restart

Spec == Init /\ [][Next]_vars

\* The loop never blocks for good, the producer answers every record and
\* the orchestrator restarts the pod.  Nothing is assumed of the writer.
Fairness == WF_vars(Forward) /\ WF_vars(Answer) /\ WF_vars(Restart)

FairSpec == Spec /\ Fairness

-----------------------------------------------------------------------------
TypeOK ==
  /\ present \in [Files -> BOOLEAN]
  /\ size \in [Files -> Nat] /\ gen \in [Files -> Nat]
  /\ \A f \in Files : size[f] <= 2 * MaxLines[f] /\ gen[f] <= MaxGen[f]
  /\ pc \in Stages
  /\ listed \subseteq Files /\ todo \subseteq Files
  /\ cur \in Files
  /\ cursor \in Offsets
  /\ sent \in Nat
  /\ mem \in [Files -> Offsets] /\ saved \in [Files -> Offsets]
  /\ inflight \subseteq Lines /\ topic \subseteq Lines
  /\ lost \subseteq [line : Lines, why : Reasons]
  /\ sentNow \subseteq Lines /\ resent \subseteq Lines
  /\ crashes \in 0..MaxCrashes

\* The fate of a line is settled: it is in the topic, it was never to be
\* sent, or it was passed over for one of the three reasons.
Accounted(l) ==
  \/ l \in topic
  \/ ~IsFact(l.file, l.num)
  \/ \E why \in Reasons : [line |-> l, why |-> why] \in lost

\* Every line the checkpoint on disk has passed is accounted for, so a
\* restart from it skips nothing that was only queued in the producer
\* (flush before save_checkpoint, on every path that saves).
CheckpointAccounted ==
  \A f \in Files : \A k \in 1..MaxLines[f] :
    saved[f].gen = gen[f] /\ Passed(k, saved[f].off) => Accounted(Line(f, k))

\* One process never sends the same fact twice: replays need a restart
\* (offsets in memory only move forward within a generation of a file).
NoResendInOneLife == resent = {}

\* A line is given up only when the producer gave it up, when it was read
\* before it was complete, or when its file was truncated and then grew past
\* the old offset between two looks at it.  A truncation the size check sees
\* costs no line: one not yet written is never given up.
LossHasCause ==
  \A x \in lost :
    \/ x.why = "expired" /\ DeliveryFails
    \/ x.why = "torn"
    \/ /\ x.why = "overrun" /\ x.line.gen > 0
       /\ \/ x.line.gen < gen[x.line.file]
          \/ Passed(x.line.num, size[x.line.file])

\* Once the files grow no more, and nothing is truncated or removed any more,
\* every complete line is forwarded or given up for a reason.
EveryLineSettles ==
  <>[](\A f \in Files : \A k \in 1..MaxLines[f] :
         size[f] >= 2 * k => Accounted([file |-> f, gen |-> gen[f], num |-> k]))

\* What the edge guide says: facts in the JSONL files reach the raw topic.
\* A complete fact behind the saved offset is in the topic.
PassedFactsAreForwarded ==
  \A f \in Files : \A k \in 1..MaxLines[f] :
    /\ saved[f].gen = gen[f] /\ Passed(k, saved[f].off)
    /\ size[f] >= 2 * k /\ IsFact(f, k)
    => Line(f, k) \in topic

=============================================================================
