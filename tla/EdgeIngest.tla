----------------------------- MODULE EdgeIngest -----------------------------
(***************************************************************************)
(* FortiGate ingest: one loop reads rotated log files whole, then tails    *)
(* the active log from an offset, and saves offset and completed files     *)
(* every two seconds.  Meanwhile the firewall writes and logrotate         *)
(* renames, recreates, copies, compresses and deletes, between any two     *)
(* system calls of the loop.                                               *)
(*                                                                         *)
(* Lines are numbered in the order they are logged and are one unit long.  *)
(* The loop treats an event and a dead letter alike, so a line that has    *)
(* been written to either is in out.                                       *)
(***************************************************************************)
EXTENDS Integers, Sequences, FiniteSets

CONSTANTS
  Inodes,          \* inodes of the input directory
  MaxLines,        \* bound: lines logged
  MaxRotations,    \* bound: rotations
  MaxMoves,        \* bound: renames, truncations, compressions, deletions
  CompletedLimit,  \* the 5000 of mark_completed
  MaxFaults,       \* bound: kills, stops and failed writes
  None

Lines == 1..MaxLines
Names == (1..MaxRotations) \X {"log", "gz"}   \* fortigate.log-<stamp>[.gz]
Active == <<0, "active">>                     \* ACTIVE_PATH
Sources == Names \cup {Active}

ASSUME IngestAssumption ==
  /\ MaxLines \in Nat /\ MaxRotations \in Nat /\ MaxMoves \in Nat
  /\ MaxFaults \in Nat
  /\ CompletedLimit \in Nat \ {0}
  /\ Inodes \subseteq Nat /\ 1 \in Inodes /\ None \notin Inodes /\ None \notin Names

VARIABLES
  method,     \* how logrotate rotates: "rename" or "copytruncate", chosen once
  dir,        \* inode of each name in the directory, or None
  content,    \* lines of each inode
  writer,     \* inode the firewall writes to
  logged,     \* lines logged
  rotations,  \* rotations made
  moves,      \* renames, truncations, compressions and deletions made
  young,      \* rotated names whose mtime is within ROTATED_MIN_AGE_SEC
  pc,         \* what the loop does next
  listed,     \* rotated names still to visit in this pass
  name,       \* rotated name being read, or None
  fd,         \* inode of the open file, or None
  at,         \* lines read from the open file
  buf,        \* lines read from the active log and not yet yielded
  ck,         \* [inode, offset, completed] in memory
  saved,      \* the same on disk
  out,        \* lines in the event or dead letter file
  lost,       \* history: lines not in out that were refused by the disk, or
              \* logged to a file already read, or deleted with their file
  thisLife,   \* history: <<line, source>> written since the process started
  twice,      \* history: those of them written again, the evicted apart
  evicted,    \* history: rotated names dropped from completed
  faults      \* kills, stops and failed writes so far

fileVars == <<method, dir, content, writer, logged, rotations, moves, young>>
readVars == <<listed, name, fd, at, buf>>
outVars == <<out, thisLife, twice, lost>>
vars == <<fileVars, pc, readVars, ck, saved, outVars, evicted, faults>>

Fresh == [inode |-> None, offset |-> 0, completed |-> <<>>]
Elements(s) == {s[i] : i \in 1..Len(s)}
LinesOf(i) == Elements(content[i])
InUse(i) == fd = i \/ writer = i \/ \E s \in Sources : dir[s] = i

\* The file system reuses the lowest inode that is free.
Free(i) == ~InUse(i) /\ \A j \in Inodes : ~InUse(j) => i <= j

\* Mutant of IsCompleted: a file is known by its inode alone.
IsCompletedByInode(n, i) == \E m \in Names : <<m, i>> \in Elements(ck.completed)

\* is_completed: the strict key implies path and inode.
IsCompleted(n, i) == <<n, i>> \in Elements(ck.completed)

-----------------------------------------------------------------------------
(* The firewall and logrotate. *)

\* The files that the process will not read again.
Completed == Elements(IF pc = "down" THEN saved.completed ELSE ck.completed)

\* A line that goes where the loop has already been is late.
AlreadyRead(i) == \E n \in Names : dir[n] = i /\
  \/ <<n, i>> \in Elements(ck.completed \o saved.completed)
  \/ name = n /\ pc = "mark"

Log ==
  /\ logged < MaxLines /\ writer # None
  /\ logged' = logged + 1
  /\ content' = [content EXCEPT ![writer] = Append(@, logged + 1)]
  /\ lost' = IF AlreadyRead(writer) THEN lost \cup {logged + 1} ELSE lost
  /\ young' = young \cup {n \in Names : dir[n] = writer}
  /\ UNCHANGED <<method, dir, writer, rotations, moves, pc, readVars, ck, saved, out,
                 thisLife, twice, evicted, faults>>

Move == moves < MaxMoves /\ moves' = moves + 1

\* Rename: the firewall keeps writing to the renamed file.
Rotate ==
  /\ method = "rename" /\ Move /\ dir[Active] # None /\ rotations < MaxRotations
  /\ rotations' = rotations + 1
  /\ dir' = [dir EXCEPT ![Active] = None,
                        ![<<rotations + 1, "log">>] = dir[Active]]
  /\ young' = young \cup {<<rotations + 1, "log">>}
  /\ UNCHANGED <<method, content, writer, logged, pc, readVars, ck, saved, outVars, evicted, faults>>

\* The firewall opens a new file; the inode may be one that was freed.
Reopen ==
  /\ Move /\ dir[Active] = None
  /\ \E i \in {j \in Inodes : Free(j)} :
       /\ dir' = [dir EXCEPT ![Active] = i]
       /\ content' = [content EXCEPT ![i] = <<>>]
       /\ writer' = i
  /\ UNCHANGED <<method, logged, rotations, young, pc, readVars, ck, saved, outVars, evicted, faults>>

CopyTruncate ==
  /\ method = "copytruncate" /\ Move /\ dir[Active] # None /\ rotations < MaxRotations
  /\ rotations' = rotations + 1
  /\ \E i \in {j \in Inodes : Free(j)} :
       /\ dir' = [dir EXCEPT ![<<rotations + 1, "log">>] = i]
       /\ content' = [content EXCEPT ![i] = content[dir[Active]],
                                     ![dir[Active]] = <<>>]
  /\ young' = young \cup {<<rotations + 1, "log">>}
  /\ UNCHANGED <<method, writer, logged, pc, readVars, ck, saved, outVars, evicted, faults>>

\* gzip keeps the time of the original.
Compress(r) ==
  LET log == <<r, "log">>  gz == <<r, "gz">> IN
  /\ Move /\ dir[log] # None /\ dir[log] # writer
  /\ \E i \in {j \in Inodes : Free(j)} :
       /\ dir' = [dir EXCEPT ![log] = None, ![gz] = i]
       /\ content' = [content EXCEPT ![i] = content[dir[log]]]
  /\ young' = IF log \in young THEN (young \ {log}) \cup {gz} ELSE young
  /\ UNCHANGED <<method, writer, logged, rotations, pc, readVars, ck, saved, outVars, evicted, faults>>

\* logrotate drops the oldest.
Delete(n) ==
  /\ Move /\ dir[n] # None /\ dir[n] # writer
  /\ \A m \in Names : dir[m] # None => n[1] <= m[1]
  /\ dir' = [dir EXCEPT ![n] = None]
  /\ lost' = lost \cup (LinesOf(dir[n]) \ out)
  /\ content' = IF fd = dir[n] THEN content ELSE [content EXCEPT ![dir[n]] = <<>>]
  /\ young' = young \ {n}
  /\ UNCHANGED <<method, writer, logged, rotations, pc, readVars, ck, saved, out,
                 thisLife, twice, evicted, faults>>

Age(n) ==
  /\ n \in young
  /\ young' = young \ {n}
  /\ UNCHANGED <<method, dir, content, writer, logged, rotations, moves, pc, readVars, ck,
                 saved, outVars, evicted, faults>>

Firewall == Log \/ Rotate \/ Reopen \/ CopyTruncate
Housekeeping == (\E r \in 1..MaxRotations : Compress(r)) \/ \E n \in Names : Delete(n)

-----------------------------------------------------------------------------
(* The loop. *)

Go(label) == pc' = label
Close == fd' = None /\ at' = 0 /\ buf' = <<>>

\* The process ends; what it held in memory is gone.
Die ==
  /\ Go("down") /\ Close
  /\ listed' = {} /\ name' = None /\ ck' = Fresh

\* append_event or append_dlq: the line is on disk, or the write raised and is
\* only counted, and then the line may be on disk all the same.
Write(l, src) ==
  LET wrote == /\ out' = out \cup {l} /\ lost' = lost \ {l}
               /\ thisLife' = thisLife \cup {<<l, src>>}
               /\ twice' = IF <<l, src>> \in thisLife /\ src \notin evicted
                           THEN twice \cup {<<l, src>>} ELSE twice IN
  \/ wrote /\ UNCHANGED faults
  \/ /\ faults < MaxFaults /\ faults' = faults + 1
     /\ \/ wrote
        \/ /\ lost' = IF l \in out THEN lost ELSE lost \cup {l}
           /\ UNCHANGED <<out, thisLife, twice>>

\* process_rotated_files: the files that are present and old enough, by stamp.
ListRotated ==
  /\ pc = "top" /\ Go("scan")
  /\ listed' = {n \in Names : dir[n] # None /\ n \notin young}
  /\ UNCHANGED <<fileVars, name, fd, at, buf, ck, saved, outVars,
                 evicted, faults>>

\* Mutant of VisitRotated: a file is marked before it is read.
VisitMarksFirst(n) ==
  /\ pc = "scan" /\ n \in listed /\ \A m \in listed : n[1] <= m[1]
  /\ listed' = listed \ {n}
  /\ IF dir[n] = None \/ IsCompleted(n, dir[n])
     THEN UNCHANGED <<pc, name, ck>>
     ELSE /\ Go("open") /\ name' = n
          /\ ck' = [ck EXCEPT !.completed = <<<<n, dir[n]>>>>]
  /\ UNCHANGED <<fileVars, fd, at, buf, saved, outVars, evicted, faults>>

VisitRotated(n) ==
  /\ pc = "scan" /\ n \in listed /\ \A m \in listed : n[1] <= m[1]
  /\ listed' = listed \ {n}
  /\ IF dir[n] = None \/ IsCompleted(n, dir[n])
     THEN UNCHANGED <<pc, name>>
     ELSE Go("open") /\ name' = n
  /\ UNCHANGED <<fileVars, fd, at, buf, ck, saved, outVars, evicted,
                 faults>>

\* A file that vanished after its stat ends the process: the error is caught in
\* main, which saves and exits.
OpenRotated ==
  /\ pc = "open" /\ dir[name] # None
  /\ Go("read") /\ fd' = dir[name] /\ at' = 0
  /\ UNCHANGED <<fileVars, listed, name, buf, ck, saved, outVars,
                 evicted, faults>>

VanishedBeforeOpen ==
  /\ \/ pc = "open" /\ dir[name] = None
     \/ pc = "topen" /\ dir[Active] = None
  /\ Die
  /\ saved' \in {ck, saved}
  /\ UNCHANGED <<fileVars, outVars, evicted, faults>>

ReadRotatedLine ==
  /\ pc = "read" /\ at < Len(content[fd])
  /\ at' = at + 1
  /\ Write(content[fd][at + 1], name)
  /\ UNCHANGED <<fileVars, pc, listed, name, fd, buf, ck, saved, evicted>>

EndOfRotated ==
  /\ pc = "read" /\ at >= Len(content[fd])
  /\ Go("mark")
  /\ UNCHANGED <<fileVars, readVars, ck, saved, outVars, evicted, faults>>

LastOf(s, k) == IF Len(s) > k THEN SubSeq(s, Len(s) - k + 1, Len(s)) ELSE s

MarkCompleted ==
  /\ pc = "mark"
  /\ LET all == Append(ck.completed, <<name, fd>>)
         kept == LastOf(all, CompletedLimit) IN
     /\ ck' = [ck EXCEPT !.completed = kept]
     /\ evicted' = evicted \cup {f[1] : f \in Elements(all) \ Elements(kept)}
  /\ Go("scan") /\ Close /\ name' = None
  /\ UNCHANGED <<fileVars, listed, saved, outVars, faults>>

\* A file that has another inode than the one tailed is read from its start.
FromStart(i) == [inode |-> i, offset |-> 0, completed |-> ck.completed]

\* process_active_tail: a new inode is read from its start.
TailStat ==
  /\ pc = "scan" /\ listed = {}
  /\ IF dir[Active] = None
     THEN Go("flush") /\ UNCHANGED ck
     ELSE /\ Go("size")
          /\ ck' = IF ck.inode = dir[Active] THEN ck
                   ELSE FromStart(dir[Active])
  /\ UNCHANGED <<fileVars, readVars, saved, outVars, evicted, faults>>

\* A file shorter than the offset was truncated.
TailSize ==
  /\ pc = "size" /\ Go("topen")
  /\ ck' = IF dir[Active] # None /\ Len(content[dir[Active]]) < ck.offset
           THEN [ck EXCEPT !.offset = 0] ELSE ck
  /\ UNCHANGED <<fileVars, readVars, saved, outVars, evicted, faults>>

TailOpen ==
  /\ pc = "topen" /\ dir[Active] # None
  /\ Go("follow") /\ fd' = dir[Active] /\ at' = ck.offset
  /\ UNCHANGED <<fileVars, listed, name, buf, ck, saved, outVars,
                 evicted, faults>>

\* One read returns everything there is.
TailChunk ==
  /\ pc = "follow" /\ buf = <<>> /\ at < Len(content[fd])
  /\ buf' = SubSeq(content[fd], at + 1, Len(content[fd]))
  /\ at' = Len(content[fd])
  /\ UNCHANGED <<fileVars, pc, listed, name, fd, ck, saved, outVars,
                 evicted, faults>>

TailIdle ==
  /\ pc = "follow" /\ buf = <<>> /\ at >= Len(content[fd])
  /\ Go("flush") /\ Close
  /\ UNCHANGED <<fileVars, listed, name, ck, saved, outVars, evicted, faults>>

\* The line read when a new file has taken the active name is dropped, with
\* the rest of the chunk: the renamed file will be read whole.
TailSwitched ==
  /\ pc = "follow" /\ buf # <<>>
  /\ dir[Active] \notin {None, ck.inode}
  /\ ck' = FromStart(dir[Active])
  /\ Go("flush") /\ Close
  /\ UNCHANGED <<fileVars, listed, name, saved, outVars, evicted, faults>>

\* Mutant of TailLine: the offset is the one where the line starts.
TailLineStale ==
  /\ pc = "follow" /\ buf # <<>>
  /\ dir[Active] \in {None, ck.inode}
  /\ Write(Head(buf), Active)
  /\ ck' = [ck EXCEPT !.offset = at - Len(buf)]
  /\ \/ buf' = Tail(buf) /\ UNCHANGED <<pc, fd, at>>
     \/ Go("flush") /\ Close
  /\ UNCHANGED <<fileVars, listed, name, saved, evicted>>

\* After two seconds the tail stops behind the line, whatever is in the chunk.
TailLine ==
  /\ pc = "follow" /\ buf # <<>>
  /\ dir[Active] \in {None, ck.inode}
  /\ Write(Head(buf), Active)
  /\ ck' = [ck EXCEPT !.offset = at - Len(buf) + 1]
  /\ \/ buf' = Tail(buf) /\ UNCHANGED <<pc, fd, at>>
     \/ Go("flush") /\ Close
  /\ UNCHANGED <<fileVars, listed, name, saved, evicted>>

\* The interval has passed, or not; a save that fails is only counted.
Flush ==
  /\ pc = "flush" /\ Go("top")
  /\ saved' \in {ck, saved}
  /\ UNCHANGED <<fileVars, readVars, ck, outVars, evicted, faults>>

\* SIGTERM is looked at once per pass.
Stop ==
  /\ pc = "top" /\ faults < MaxFaults /\ faults' = faults + 1
  /\ Die
  /\ saved' \in {ck, saved}
  /\ UNCHANGED <<fileVars, outVars, evicted>>

Kill ==
  /\ pc # "down" /\ faults < MaxFaults /\ faults' = faults + 1
  /\ Die
  /\ UNCHANGED <<fileVars, saved, outVars, evicted>>

Restart ==
  /\ pc = "down" /\ Go("top")
  /\ ck' = saved
  /\ thisLife' = {}
  /\ UNCHANGED <<fileVars, readVars, saved, out, twice, lost, evicted, faults>>

-----------------------------------------------------------------------------
Init ==
  /\ method \in {"rename", "copytruncate"}
  /\ writer = 1
  /\ dir = [s \in Sources |-> IF s = Active THEN writer ELSE None]
  /\ content = [i \in Inodes |-> <<>>]
  /\ logged = 0 /\ rotations = 0 /\ moves = 0 /\ young = {}
  /\ pc = "top" /\ listed = {} /\ name = None /\ fd = None /\ at = 0 /\ buf = <<>>
  /\ ck = Fresh /\ saved = Fresh
  /\ out = {} /\ lost = {} /\ thisLife = {} /\ twice = {} /\ evicted = {} /\ faults = 0

Loop ==
  \/ ListRotated \/ (\E n \in Names : VisitRotated(n)) \/ OpenRotated
  \/ VanishedBeforeOpen \/ ReadRotatedLine \/ EndOfRotated \/ MarkCompleted
  \/ TailStat \/ TailSize \/ TailOpen \/ TailChunk \/ TailIdle \/ TailSwitched
  \/ TailLine \/ Flush \/ Restart

Next ==
  \/ Loop \/ Stop \/ Kill
  \/ Firewall \/ Housekeeping \/ \E n \in Names : Age(n)

Spec == Init /\ [][Next]_vars

\* The supervisor restarts the process, the loop never blocks, and time passes.
FairSpec == Spec /\ WF_vars(Loop) /\ \A n \in Names : WF_vars(Age(n))

-----------------------------------------------------------------------------
Settled(l) == l \in out \cup lost

\* A rotation, truncation, rename, compression, reused inode, stop or kill, at
\* whatever moment it comes, never makes the ingest forget a line: a line that
\* was neither written nor refused by the disk is in the active file, or in a
\* rotated file that the checkpoint does not call completed.
NothingForgotten ==
  \A l \in 1..logged : ~Settled(l) =>
    \/ l \in LinesOf(writer)
    \/ \E n \in Names : /\ dir[n] # None /\ l \in LinesOf(dir[n])
                        /\ <<n, dir[n]>> \notin Completed

\* The names a line was written under since the process started.
Copies(l) == {x[2] : x \in {y \in thisLife : y[1] = l}}

\* Lines are repeated, within bounds.  What was tailed is written again when the
\* file of its rotation is read whole, and again from that file's .gz.  In one
\* life of the process there is no other copy: none from a second rotation, and
\* none twice under one name, unless the mark of that name was evicted from the
\* list of completed files.
ThreeCopiesAtMost ==
  /\ twice = {}
  /\ \A l \in Lines : \E r \in 0..MaxRotations :
       Copies(l) \subseteq {Active, <<r, "log">>, <<r, "gz">>}

\* When the rotations are over, every line in a rotated file is written, or was
\* refused, or came too late: no file is passed over for ever.
RotatedDrains ==
  <>[](\A n \in Names : dir[n] # None => \A l \in LinesOf(dir[n]) : Settled(l))
=============================================================================
