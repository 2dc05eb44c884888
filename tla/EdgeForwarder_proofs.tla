------------------------ MODULE EdgeForwarder_proofs ------------------------
(***************************************************************************)
(* The forwarder's checkpoint passes only accounted lines, for any number  *)
(* of files, lines, truncations and crashes.                               *)
(*                                                                         *)
(* The property about the checkpoint on disk is not inductive: what is     *)
(* saved comes from the offsets in memory, those from the position in the  *)
(* open file, and both run ahead of the broker.  The invariant therefore   *)
(* follows a line through all three places, counting a line that is queued *)
(* in the producer as handled, and says when nothing is queued.            *)
(***************************************************************************)
EXTENDS EdgeForwarder, TLAPS

\* A line behind a position is accounted for, or the producer has it.
Handled(l) == Accounted(l) \/ l \in inflight

Covers(f, pos) ==
  pos.gen = gen[f] =>
    \A k \in 1..MaxLines[f] : Passed(k, pos.off) => Handled(Line(f, k))

Reading == pc \in {"read", "batch", "flush"}

MemHandled    == pc # "down" => \A f \in Files : Covers(f, mem[f])
CursorHandled == Reading => Covers(cur, cursor)
QuietBetween  == ~Reading => inflight = {}

\* No offset was measured in a generation still to come.
Generations ==
  /\ \A f \in Files : mem[f].gen <= gen[f] /\ saved[f].gen <= gen[f]
  /\ cursor.gen <= gen[cur]

IInv ==
  /\ TypeOK
  /\ Generations
  /\ QuietBetween
  /\ MemHandled
  /\ CursorHandled
  /\ CheckpointAccounted

-----------------------------------------------------------------------------
\* The file in hand, when none is, is a member of Files all the same.
LEMMA NoFileInFiles == NoFile \in Files
  BY FilesAssumption DEF NoFile

\* The initial state satisfies the invariant.
LEMMA InitIInv ==
  ASSUME Init
  PROVE  IInv
<1>1. NoFile \in Files
  BY NoFileInFiles
<1>2. TypeOK
  BY <1>1, BoundsAssumption DEF Init, TypeOK, Offsets, Stages, Lines, Reasons
<1>3. Generations /\ QuietBetween
  BY <1>1 DEF Init, Generations, QuietBetween
<1>4. \A f \in Files : Covers(f, mem[f])
  BY BoundsAssumption DEF Init, Covers, Passed
<1>5. CheckpointAccounted
  BY BoundsAssumption DEF Init, CheckpointAccounted, Passed
<1> QED
  BY <1>2, <1>3, <1>4, <1>5
  DEF IInv, MemHandled, CursorHandled, Reading, Init

-----------------------------------------------------------------------------
\* A line of the open file is a line; so are the lines an offset overruns.
LEMMA LineType ==
  ASSUME TypeOK, NEW f \in Files, NEW k \in 1..MaxLines[f]
  PROVE  Line(f, k) \in Lines
  BY BoundsAssumption DEF TypeOK, Line, Lines

\* Facts passed over are recorded with their reason.
LEMMA OverrunType ==
  ASSUME TypeOK, NEW f \in Files, NEW pos \in Offsets
  PROVE  Overrun(f, pos) \subseteq [line : Lines, why : Reasons]
<1>1. \A k \in 1..MaxLines[f] : Line(f, k) \in Lines
  BY LineType
<1> QED
  BY <1>1 DEF Overrun, Reasons

\* Every step keeps the types.
LEMMA TypeStep ==
  ASSUME TypeOK, Next
  PROVE  TypeOK'
<1> USE BoundsAssumption, NoFileInFiles
<1>1. ASSUME NEW f \in Files, WriteHead(f) PROVE TypeOK'
  <2>1. present' \in [Files -> BOOLEAN]
    BY <1>1, Zenon DEF TypeOK, WriteHead
  <2>2. size' \in [Files -> Nat] /\ \A g \in Files : size'[g] <= 2 * MaxLines[g]
    BY <1>1 DEF TypeOK, WriteHead
  <2> QED
    BY <1>1, <2>1, <2>2
    DEF TypeOK, WriteHead, readVars, scanVars, producerVars
<1>2. ASSUME NEW f \in Files, WriteTail(f) PROVE TypeOK'
  BY <1>2 DEF TypeOK, WriteTail, fileVars, readVars, scanVars, producerVars
<1>3. ASSUME NEW f \in Files, Truncate(f) \/ Remove(f) PROVE TypeOK'
  <2>1. PICK still \in BOOLEAN : Erase(f, still)
    BY <1>3 DEF Truncate, Remove
  <2>2. present' \in [Files -> BOOLEAN]
    BY <2>1, Zenon DEF TypeOK, Erase
  <2>3. /\ size' \in [Files -> Nat] /\ gen' \in [Files -> Nat]
        /\ \A g \in Files : size'[g] <= 2 * MaxLines[g] /\ gen'[g] <= MaxGen[g]
    BY <2>1 DEF TypeOK, Erase
  <2> QED
    BY <2>1, <2>2, <2>3 DEF TypeOK, Erase, readVars, scanVars, producerVars
<1>4. CASE Scan
  BY <1>4 DEF TypeOK, Scan, Stages, fileVars, readVars, producerVars
<1>5. ASSUME NEW f \in Files, PickVanished(f) PROVE TypeOK'
  BY <1>5 DEF TypeOK, PickVanished, Stages, fileVars, readVars, scanVars
<1>6. ASSUME NEW f \in Files, Pick(f) PROVE TypeOK'
  BY <1>6, OverrunType
  DEF TypeOK, Pick, Start, Offsets, Stages, fileVars, readVars, producerVars
<1>7. ASSUME NEW f \in Files, Prune(f) PROVE TypeOK'
  BY <1>7 DEF TypeOK, Prune, Start, Offsets, fileVars, readVars, scanVars,
              producerVars
<1>8. ASSUME NEW k \in 1..MaxLines[cur], ReadMalformed(k) PROVE TypeOK'
  BY <1>8, OverrunType
  DEF TypeOK, ReadMalformed, At, Offsets, fileVars, scanVars, producerVars
<1>9. ASSUME NEW k \in 1..MaxLines[cur], ReadFiltered(k) PROVE TypeOK'
  BY <1>9, OverrunType
  DEF TypeOK, ReadFiltered, At, Offsets, fileVars, scanVars, producerVars
<1>10. ASSUME NEW k \in 1..MaxLines[cur], ReadFact(k) PROVE TypeOK'
  BY <1>10, OverrunType, LineType
  DEF TypeOK, ReadFact, At, Offsets, Stages, fileVars, scanVars
<1>11. ASSUME NEW k \in 1..MaxLines[cur], ReadTornHead(k) PROVE TypeOK'
  BY <1>11, OverrunType, LineType
  DEF TypeOK, ReadTornHead, At, Offsets, Reasons, fileVars, scanVars,
      producerVars
<1>12. ASSUME NEW k \in 1..MaxLines[cur], ReadOrphanTail(k) PROVE TypeOK'
  BY <1>12, OverrunType
  DEF TypeOK, ReadOrphanTail, At, Offsets, fileVars, scanVars, producerVars
<1>13. CASE EndOfFile \/ EndScan
  BY <1>13 DEF TypeOK, EndOfFile, EndScan, Stages, fileVars, readVars,
               scanVars, producerVars
<1>14. CASE BatchSave \/ FlushFile
  BY <1>14 DEF TypeOK, BatchSave, FlushFile, Stages, fileVars, readVars,
               scanVars, producerVars
<1>15. CASE SaveFile \/ Sleep
  BY <1>15 DEF TypeOK, SaveFile, Sleep, Closed, Offsets, Stages, fileVars,
               readVars, producerVars
<1>16. ASSUME NEW l \in inflight, Deliver(l) \/ Expire(l) PROVE TypeOK'
  BY <1>16 DEF TypeOK, Deliver, Expire, Reasons, fileVars, readVars, scanVars
<1>17. CASE Crash
  BY <1>17 DEF TypeOK, Crash, Stages, fileVars, readVars, scanVars
<1>18. CASE Restart
  BY <1>18 DEF TypeOK, Restart, Closed, Start, Offsets, Stages, fileVars,
               producerVars
<1> QED
  BY <1>1, <1>2, <1>3, <1>4, <1>5, <1>6, <1>7, <1>8, <1>9, <1>10, <1>11,
     <1>12, <1>13, <1>14, <1>15, <1>16, <1>17, <1>18
  DEF Next, Write, Forward, ReadLine, Answer

-----------------------------------------------------------------------------
(***************************************************************************)
(* What is settled stays settled: the topic and the history of losses only *)
(* grow.  A queued record stays handled unless the queue is dropped.       *)
(***************************************************************************)
LEMMA AccountedKept ==
  ASSUME topic \subseteq topic', lost \subseteq lost', NEW l, Accounted(l)
  PROVE  Accounted(l)'
  BY DEF Accounted, IsFact

\* An offset stays covered while what was handled stays handled.
LEMMA CoversKept ==
  ASSUME topic \subseteq topic', lost \subseteq lost', gen' = gen,
         \A l \in inflight : Handled(l)',
         NEW f \in Files, NEW pos, Covers(f, pos)
  PROVE  Covers(f, pos)'
<1> SUFFICES ASSUME pos.gen = gen[f], NEW k \in 1..MaxLines[f],
                    Passed(k, pos.off)
             PROVE  Handled(Line(f, k))'
  BY DEF Covers
<1>1. Handled(Line(f, k))
  BY DEF Covers
<1>2. Line(f, k)' = Line(f, k)
  BY DEF Line
<1> QED
  BY <1>1, <1>2, AccountedKept DEF Handled

(***************************************************************************)
(* A step of the reading loop over line k extends what the position        *)
(* covers: lines behind the old position were covered, or are overrun now  *)
(* because the file was truncated under it; line k is the step's business. *)
(***************************************************************************)
LEMMA ReadCovers ==
  ASSUME IInv, pc = "read", gen' = gen, cur' = cur,
         topic \subseteq topic', lost \subseteq lost',
         inflight \subseteq inflight',
         Overrun(cur, cursor) \subseteq lost',
         NEW k \in 1..MaxLines[cur], NEW o \in {2 * k - 1, 2 * k},
         cursor.off \in {2 * k - 2, 2 * k - 1},
         Handled(Line(cur, k))' \/ cursor.off = 2 * k - 1
  PROVE  \A j \in 1..MaxLines[cur] : Passed(j, o) => Handled(Line(cur, j))'
<1> SUFFICES ASSUME NEW j \in 1..MaxLines[cur], Passed(j, o),
                    j # k \/ cursor.off = 2 * k - 1
             PROVE  Handled(Line(cur, j))'
  OBVIOUS
<1>1. Passed(j, cursor.off)
  BY BoundsAssumption DEF Passed, IInv, TypeOK, Offsets
<1>2. Line(cur, j)' = Line(cur, j)
  BY DEF Line
<1>3. CASE cursor.gen = gen[cur]
  <2>1. Handled(Line(cur, j))
    BY <1>1, <1>3 DEF IInv, CursorHandled, Reading, Covers
  <2> QED
    BY <1>2, <2>1, AccountedKept DEF Handled
<1>4. CASE cursor.gen # gen[cur]
  <2>1. [line |-> Line(cur, j), why |-> "overrun"] \in lost'
    BY <1>1, <1>4 DEF Overrun
  <2> QED
    BY <1>2, <2>1 DEF Handled, Accounted, Reasons
<1> QED
  BY <1>3, <1>4

\* The conjuncts of the invariant about offsets, for the steps that leave
\* the generations of the files alone.
LEMMA CheckpointKept ==
  ASSUME CheckpointAccounted, topic \subseteq topic', lost \subseteq lost',
         gen' = gen, saved' = saved
  PROVE  CheckpointAccounted'
<1>1. \A f \in Files : \A k \in 1..MaxLines[f] : Line(f, k)' = Line(f, k)
  BY DEF Line
<1> QED
  BY <1>1, AccountedKept DEF CheckpointAccounted

\* Memory stays covered while it does not change.
LEMMA MemKept ==
  ASSUME MemHandled, pc # "down", topic \subseteq topic', lost \subseteq lost',
         gen' = gen, mem' = mem, \A l \in inflight : Handled(l)'
  PROVE  MemHandled'
<1>1. \A f \in Files : Covers(f, mem[f])
  BY DEF MemHandled
<1>2. \A f \in Files : Covers(f, mem[f])'
  BY <1>1, CoversKept
<1> QED
  BY <1>2 DEF MemHandled

\* Reading one line, whichever way, keeps the invariant.
LEMMA ReadStep ==
  ASSUME IInv, TypeOK', pc = "read", gen' = gen, cur' = cur, saved' = saved,
         topic' = topic, lost \subseteq lost', inflight \subseteq inflight',
         Overrun(cur, cursor) \subseteq lost',
         NEW k \in 1..MaxLines[cur], NEW o \in {2 * k - 1, 2 * k},
         cursor.off \in {2 * k - 2, 2 * k - 1},
         Handled(Line(cur, k))' \/ cursor.off = 2 * k - 1,
         cursor' = At(o), pc' \in {"read", "batch"},
         mem' = mem \/ mem' = [mem EXCEPT ![cur] = At(o)]
  PROVE  /\ Generations' /\ QuietBetween' /\ MemHandled' /\ CursorHandled'
         /\ CheckpointAccounted'
<1>1. cursor'.off = o /\ cursor'.gen = gen[cur]
  BY DEF At
<1>2. Generations'
  BY <1>1 DEF IInv, Generations, TypeOK, Offsets, At
<1>3. QuietBetween'
  BY DEF QuietBetween, Reading
<1>4. \A j \in 1..MaxLines[cur] : Passed(j, o) => Handled(Line(cur, j))'
  BY ReadCovers
<1>5. CursorHandled'
  BY <1>1, <1>4 DEF CursorHandled, Covers
<1>6. ASSUME NEW f \in Files PROVE Covers(f, mem[f])'
  <2>1. \A l \in inflight : Handled(l)'
    BY DEF Handled
  <2>2. CASE mem'[f] = mem[f]
    <3>1. Covers(f, mem[f])
      BY DEF IInv, MemHandled
    <3> QED
      BY <2>1, <2>2, <3>1, CoversKept
  <2>3. CASE f = cur /\ mem'[f] = At(o)
    BY <1>4, <2>3 DEF Covers, At
  <2> QED
    BY <2>2, <2>3 DEF IInv, TypeOK
<1>7. MemHandled'
  BY <1>6 DEF MemHandled
<1> QED
  BY <1>2, <1>3, <1>5, <1>7, CheckpointKept DEF IInv

-----------------------------------------------------------------------------
\* Types of the offsets in the three places.
LEMMA OffsetTypes ==
  ASSUME TypeOK
  PROVE  /\ cur \in Files /\ cursor.off \in Nat /\ cursor.gen \in Nat
         /\ \A f \in Files :
              /\ gen[f] \in Nat
              /\ mem[f].off \in Nat /\ mem[f].gen \in Nat
              /\ saved[f].off \in Nat /\ saved[f].gen \in Nat
  BY DEF TypeOK, Offsets

\* The part of the invariant that is not about types.
Safe ==
  /\ Generations /\ QuietBetween /\ MemHandled /\ CursorHandled
  /\ CheckpointAccounted

\* Steps of the writer and answers of the broker.
LEMMA OutsideStep ==
  ASSUME IInv, TypeOK', gen' = gen, pc' = pc, cur' = cur, cursor' = cursor,
         mem' = mem, saved' = saved, topic \subseteq topic',
         lost \subseteq lost', inflight' \subseteq inflight,
         \A l \in inflight : Handled(l)'
  PROVE  Safe'
<1>1. Generations' /\ QuietBetween'
  BY DEF IInv, Generations, QuietBetween, Reading
<1>2. MemHandled'
  BY CoversKept DEF IInv, MemHandled
<1>3. CursorHandled'
  BY CoversKept DEF IInv, TypeOK, CursorHandled, Reading
<1> QED
  BY <1>1, <1>2, <1>3, CheckpointKept DEF IInv, Safe

\* A truncated or removed file has no offset of its new generation yet.
LEMMA EraseStep ==
  ASSUME IInv, TypeOK', NEW f \in Files, NEW still, Erase(f, still)
  PROVE  Safe'
<1>1. /\ gen'[f] = gen[f] + 1
      /\ \A g \in Files : g # f => gen'[g] = gen[g]
  BY DEF Erase, IInv, TypeOK
<1>2. /\ pc' = pc /\ cur' = cur /\ cursor' = cursor /\ mem' = mem
      /\ saved' = saved /\ inflight' = inflight /\ topic' = topic
      /\ lost' = lost
  BY DEF Erase, scanVars, readVars, producerVars
<1>3. Generations'
  <2>1. \A g \in Files : gen[g] \in Nat /\ gen[g] <= gen'[g]
    BY <1>1 DEF IInv, TypeOK
  <2>2. cur \in Files /\ cursor.gen \in Nat
        /\ \A g \in Files : mem[g].gen \in Nat /\ saved[g].gen \in Nat
    BY OffsetTypes DEF IInv
  <2>3. \A g \in Files : gen'[g] \in Nat
    BY <1>1, <2>1
  <2> QED
    BY <1>2, <2>1, <2>2, <2>3 DEF IInv, Generations
<1>4. QuietBetween'
  BY <1>2 DEF IInv, QuietBetween, Reading
<1>5. ASSUME NEW g \in Files, NEW pos, pos.gen \in Nat, pos.gen <= gen[g],
             Covers(g, pos)
      PROVE  Covers(g, pos)'
  <2>1. CASE g = f
    BY <1>1, <1>5, <2>1 DEF Covers, IInv, TypeOK
  <2>2. CASE g # f
    <3>1. \A k \in 1..MaxLines[g] : Line(g, k)' = Line(g, k)
      BY <1>1, <2>2 DEF Line
    <3> QED
      BY <1>1, <1>2, <1>5, <2>2, <3>1 DEF Covers, Handled, Accounted, IsFact
  <2> QED
    BY <2>1, <2>2
<1>6. MemHandled'
  BY <1>2, <1>5 DEF IInv, TypeOK, Offsets, Generations, MemHandled
<1>7. CursorHandled'
  BY <1>2, <1>5 DEF IInv, TypeOK, Offsets, Generations, CursorHandled, Reading
<1>8. CheckpointAccounted'
  <2> SUFFICES ASSUME NEW g \in Files, NEW k \in 1..MaxLines[g],
                      saved[g].gen = gen'[g], Passed(k, saved[g].off)
               PROVE  Accounted(Line(g, k))'
    BY <1>2 DEF CheckpointAccounted
  <2>1. g # f
    BY <1>1 DEF IInv, TypeOK, Offsets, Generations
  <2>2. Line(g, k)' = Line(g, k)
    BY <1>1, <2>1 DEF Line
  <2>3. Accounted(Line(g, k))
    BY <1>1, <2>1 DEF IInv, CheckpointAccounted
  <2> QED
    BY <1>2, <2>2, <2>3 DEF Accounted, IsFact
<1> QED
  BY <1>3, <1>4, <1>6, <1>7, <1>8 DEF Safe

\* Opening a file, or skipping one that has not grown.
LEMMA PickStep ==
  ASSUME IInv, TypeOK', NEW f \in Files, Pick(f)
  PROVE  Safe'
<1>1. /\ gen' = gen /\ mem' = mem /\ saved' = saved /\ topic' = topic
      /\ lost \subseteq lost' /\ inflight' = inflight /\ pc = "pick"
  BY DEF Pick, fileVars, readVars, producerVars
<1>2. PICK pos \in {Start(f), mem[f]} :
        \/ pc' = pc /\ cur' = cur /\ cursor' = cursor
        \/ pc' = "read" /\ cur' = f /\ cursor' = pos
  BY DEF Pick, readVars
<1>3. \A l \in inflight : Handled(l)'
  BY <1>1 DEF Handled
<1>4. pos.gen <= gen[f] /\ Covers(f, pos)
  <2>1. CASE pos = Start(f)
    <3>1. Start(f).gen = gen[f] /\ Start(f).off = 0
      BY DEF Start
    <3>2. \A k \in 1..MaxLines[f] : ~Passed(k, 0)
      BY BoundsAssumption DEF Passed
    <3> QED
      BY <2>1, <3>1, <3>2, OffsetTypes DEF Covers, IInv
  <2>2. CASE pos = mem[f]
    <3>1. Covers(f, mem[f]) /\ mem[f].gen <= gen[f]
      BY <1>1 DEF IInv, MemHandled, Generations
    <3> QED
      BY <2>2, <3>1
  <2> QED
    BY <1>2, <2>1, <2>2
<1>5. Generations'
  BY <1>1, <1>2, <1>4 DEF IInv, Generations
<1>6. QuietBetween'
  BY <1>1, <1>2 DEF IInv, QuietBetween, Reading
<1>7. MemHandled'
  BY <1>1, <1>3, MemKept DEF IInv
<1>8. CursorHandled'
  <2>1. Covers(f, pos)'
    BY <1>1, <1>3, <1>4, CoversKept
  <2>2. CASE cur' = f /\ cursor' = pos
    BY <2>1, <2>2 DEF CursorHandled, Covers, Line, Passed, Handled, Accounted,
                      IsFact
  <2> QED
    BY <1>1, <1>2, <2>2 DEF CursorHandled, Reading
<1> QED
  BY <1>1, <1>5, <1>6, <1>7, <1>8, CheckpointKept DEF IInv, Safe

\* Writing the offsets in memory to the checkpoint: nothing is queued then,
\* so what memory covers is accounted for.
LEMMA SaveStep ==
  ASSUME IInv, TypeOK', gen' = gen, saved' = mem', inflight = {},
         inflight' = {}, topic' = topic, lost' = lost,
         \A f \in Files : Covers(f, mem'[f]) /\ mem'[f].gen <= gen[f],
         cursor'.gen <= gen[cur'],
         Reading' => cur' = cur /\ cursor' = cursor /\ Reading
  PROVE  Safe'
<1>1. \A l \in inflight : Handled(l)'
  OBVIOUS
<1>2. \A f \in Files : Covers(f, mem[f])'
  BY <1>1, CoversKept
<1>3. Generations' /\ QuietBetween' /\ MemHandled'
  BY <1>2 DEF IInv, Generations, QuietBetween, MemHandled
<1>4. CursorHandled'
  <2> SUFFICES ASSUME Reading'
               PROVE  Covers(cur, cursor)'
    BY DEF CursorHandled
  <2>1. Covers(cur, cursor) /\ cur \in Files
    BY DEF IInv, CursorHandled, TypeOK
  <2> QED
    BY <1>1, <2>1, CoversKept
<1>5. CheckpointAccounted'
  <2> SUFFICES ASSUME NEW f \in Files, NEW k \in 1..MaxLines[f],
                      mem'[f].gen = gen[f], Passed(k, mem'[f].off)
               PROVE  Accounted(Line(f, k))'
    BY DEF CheckpointAccounted
  <2>1. Handled(Line(f, k))'
    BY <1>2 DEF Covers
  <2> QED
    BY <2>1 DEF Handled
<1> QED
  BY <1>3, <1>4, <1>5 DEF Safe

-----------------------------------------------------------------------------
\* Every step of the reading loop, with the line it reads.
LEMMA ReadLineStep ==
  ASSUME IInv, TypeOK', NEW k \in 1..MaxLines[cur],
         \/ ReadMalformed(k) \/ ReadFiltered(k) \/ ReadFact(k)
         \/ ReadTornHead(k) \/ ReadOrphanTail(k)
  PROVE  Safe'
<1>1. /\ pc = "read" /\ gen' = gen /\ cur' = cur /\ saved' = saved
      /\ topic' = topic /\ lost \subseteq lost'
      /\ inflight \subseteq inflight' /\ Overrun(cur, cursor) \subseteq lost'
      /\ pc' \in {"read", "batch"}
      /\ cursor.off \in {2 * k - 2, 2 * k - 1}
  BY DEF ReadMalformed, ReadFiltered, ReadFact, ReadTornHead, ReadOrphanTail,
         fileVars, producerVars
<1>2. Line(cur, k)' = Line(cur, k)
  BY <1>1 DEF Line
<1>3. k \in Nat /\ Line(cur, k).file = cur /\ Line(cur, k).num = k
  BY BoundsAssumption DEF Line, IInv, TypeOK
<1>4. CASE ReadMalformed(k) \/ ReadFiltered(k)
  <2>1. Handled(Line(cur, k))'
    BY <1>2, <1>3, <1>4
    DEF Handled, Accounted, IsFact, ReadMalformed, ReadFiltered
  <2>2. /\ cursor' = At(2 * k)
        /\ mem' = mem \/ mem' = [mem EXCEPT ![cur] = At(2 * k)]
    BY <1>4 DEF ReadMalformed, ReadFiltered
  <2> QED
    BY <1>1, <2>1, <2>2, ReadStep DEF Safe
<1>5. CASE ReadFact(k)
  <2>1. Handled(Line(cur, k))'
    BY <1>2, <1>5 DEF Handled, ReadFact
  <2>2. cursor' = At(2 * k) /\ mem' = [mem EXCEPT ![cur] = At(2 * k)]
    BY <1>5 DEF ReadFact
  <2> QED
    BY <1>1, <2>1, <2>2, ReadStep DEF Safe
<1>6. CASE ReadTornHead(k)
  <2>1. Handled(Line(cur, k))'
    BY <1>2, <1>6 DEF Handled, Accounted, Reasons, ReadTornHead
  <2>2. cursor' = At(2 * k - 1) /\ mem' = mem
    BY <1>6 DEF ReadTornHead
  <2> QED
    BY <1>1, <2>1, <2>2, ReadStep DEF Safe
<1>7. CASE ReadOrphanTail(k)
  <2>1. cursor.off = 2 * k - 1 /\ cursor' = At(2 * k) /\ mem' = mem
    BY <1>7 DEF ReadOrphanTail
  <2> QED
    BY <1>1, <2>1, ReadStep DEF Safe
<1> QED
  BY <1>4, <1>5, <1>6, <1>7

\* The three steps that write the checkpoint file.
LEMMA SavingStep ==
  ASSUME IInv, TypeOK',
         BatchSave \/ SaveFile \/ \E f \in Files : Prune(f)
  PROVE  Safe'
<1>1. \A f \in Files : pc # "down" => Covers(f, mem[f]) /\ mem[f].gen <= gen[f]
  BY DEF IInv, MemHandled, Generations
<1>2. CASE BatchSave
  BY <1>1, <1>2, SaveStep
  DEF BatchSave, IInv, Generations, Reading, fileVars, readVars, producerVars
<1>3. CASE SaveFile
  <2>1. inflight = {}
    BY <1>3 DEF SaveFile, IInv, QuietBetween, Reading
  <2>2. cursor'.gen <= gen[cur']
    BY <1>3, NoFileInFiles DEF SaveFile, Closed, IInv, TypeOK
  <2> QED
    BY <1>1, <1>3, <2>1, <2>2, SaveStep
    DEF SaveFile, Reading, fileVars, producerVars
<1>4. ASSUME NEW f \in Files, Prune(f) PROVE Safe'
  <2>1. inflight = {}
    BY <1>4 DEF Prune, IInv, QuietBetween, Reading
  <2>2. Covers(f, Start(f)) /\ Start(f).gen <= gen[f]
    BY BoundsAssumption DEF Covers, Passed, Start, IInv, TypeOK
  <2>3. \A g \in Files : Covers(g, mem'[g]) /\ mem'[g].gen <= gen[g]
    BY <1>1, <1>4, <2>2 DEF Prune, IInv, TypeOK
  <2> QED
    BY <1>4, <2>1, <2>3, SaveStep
    DEF Prune, IInv, Generations, Reading, fileVars, readVars, producerVars
<1> QED
  BY <1>2, <1>3, <1>4

\* After the flush the position in the file becomes the offset in memory.
LEMMA FlushStep ==
  ASSUME IInv, TypeOK', FlushFile
  PROVE  Safe'
<1>1. /\ gen' = gen /\ cur' = cur /\ cursor' = cursor /\ saved' = saved
      /\ topic' = topic /\ lost' = lost /\ inflight = {} /\ inflight' = {}
      /\ pc = "flush" /\ pc' = "save" /\ mem' = [mem EXCEPT ![cur] = cursor]
  BY DEF FlushFile, fileVars, readVars, producerVars
<1>2. \A f \in Files : mem'[f] = mem[f] \/ (f = cur /\ mem'[f] = cursor)
  BY <1>1 DEF IInv, TypeOK
<1>3. Generations' /\ QuietBetween' /\ CursorHandled'
  BY <1>1, <1>2 DEF IInv, Generations, QuietBetween, CursorHandled, Reading
<1>4. ASSUME NEW f \in Files PROVE Covers(f, mem[f])'
  <2>1. PICK pos : mem'[f] = pos /\ Covers(f, pos)
    BY <1>1, <1>2 DEF IInv, MemHandled, CursorHandled, Reading
  <2>2. Covers(f, pos)'
    BY <1>1, <2>1, CoversKept
  <2> QED
    BY <2>1, <2>2 DEF Covers
<1>5. MemHandled'
  BY <1>4 DEF MemHandled
<1> QED
  BY <1>1, <1>3, <1>5, CheckpointKept DEF IInv, Safe

\* A crash keeps the checkpoint; a restart reads it, or starts from nothing.
LEMMA RestartStep ==
  ASSUME IInv, TypeOK', Restart
  PROVE  Safe'
<1>1. /\ gen' = gen /\ saved' = saved /\ topic' = topic /\ lost' = lost
      /\ inflight' = inflight /\ pc = "down" /\ pc' = "scan"
      /\ cur' \in Files /\ cursor'.gen = 0
  BY NoFileInFiles DEF Restart, Closed, fileVars, producerVars
<1>2. ASSUME NEW f \in Files
      PROVE  \E pos : mem'[f] = pos /\ pos.gen <= gen[f] /\ Covers(f, pos)
  <2>1. CASE mem' = saved
    BY <2>1 DEF IInv, Generations, CheckpointAccounted, Covers, Handled
  <2>2. CASE mem' = [g \in Files |-> Start(g)]
    BY <2>2, BoundsAssumption DEF Covers, Passed, Start, IInv, TypeOK
  <2> QED
    BY <2>1, <2>2 DEF Restart
<1>3. Generations'
  BY <1>1, <1>2, OffsetTypes DEF IInv, Generations
<1>4. ASSUME NEW f \in Files PROVE Covers(f, mem[f])'
  <2>1. PICK pos : mem'[f] = pos /\ Covers(f, pos)
    BY <1>2
  <2>2. \A l \in inflight : Handled(l)'
    BY <1>1 DEF Handled
  <2>3. Covers(f, pos)'
    BY <1>1, <2>1, <2>2, CoversKept
  <2> QED
    BY <2>1, <2>3 DEF Covers
<1>5. QuietBetween' /\ MemHandled' /\ CursorHandled'
  BY <1>1, <1>4
  DEF IInv, QuietBetween, MemHandled, CursorHandled, Reading
<1> QED
  BY <1>1, <1>3, <1>5, CheckpointKept DEF IInv, Safe

\* Steps that only move the loop to another stage.
LEMMA StageStep ==
  ASSUME IInv, TypeOK', gen' = gen, cur' = cur, cursor' = cursor, mem' = mem,
         saved' = saved, topic' = topic, lost' = lost, inflight' = inflight,
         Reading' <=> Reading, pc # "down"
  PROVE  Safe'
<1>1. Generations' /\ QuietBetween'
  BY DEF IInv, Generations, QuietBetween
<1>2. \A l \in inflight : Handled(l)'
  BY DEF Handled
<1>3. MemHandled'
  BY <1>2, MemKept DEF IInv
<1>4. CursorHandled'
  <2> SUFFICES ASSUME Reading'
               PROVE  Covers(cur, cursor)'
    BY DEF CursorHandled
  <2>1. Covers(cur, cursor) /\ cur \in Files
    BY DEF IInv, CursorHandled, TypeOK
  <2> QED
    BY <1>2, <2>1, CoversKept
<1> QED
  BY <1>1, <1>3, <1>4, CheckpointKept DEF IInv, Safe

\* Steps that end the process: the queue is dropped, the checkpoint stays.
LEMMA DownStep ==
  ASSUME IInv, TypeOK', gen' = gen, cur' = cur, cursor' = cursor, mem' = mem,
         saved' = saved, topic' = topic, lost' = lost, inflight' = {},
         pc' = "down"
  PROVE  Safe'
<1>1. Generations' /\ QuietBetween' /\ MemHandled' /\ CursorHandled'
  BY DEF IInv, Generations, QuietBetween, MemHandled, CursorHandled, Reading
<1> QED
  BY <1>1, CheckpointKept DEF IInv, Safe

-----------------------------------------------------------------------------
\* Every step of the specification keeps the invariant.
LEMMA InvariantStep ==
  ASSUME IInv, [Next]_vars
  PROVE  IInv'
<1>1. CASE UNCHANGED vars
  BY <1>1
  DEF IInv, TypeOK, Generations, QuietBetween, MemHandled, CursorHandled,
      Covers, Handled, Reading, CheckpointAccounted, Accounted, IsFact, Line,
      Passed, vars, fileVars, scanVars, readVars, producerVars
<1>2. CASE Next
  <2>1. TypeOK'
    BY <1>2, TypeStep DEF IInv
  <2> SUFFICES Safe'
    BY <2>1 DEF Safe, IInv
  <2>2. CASE Write
    <3>1. ASSUME NEW f \in Files, WriteHead(f) \/ WriteTail(f) PROVE Safe'
      <4>1. \A l \in inflight : Handled(l)'
        BY <3>1 DEF WriteHead, WriteTail, Handled, producerVars
      <4> QED
        BY <2>1, <3>1, <4>1, OutsideStep
        DEF WriteHead, WriteTail, readVars, producerVars
    <3>2. ASSUME NEW f \in Files, Truncate(f) \/ Remove(f) PROVE Safe'
      BY <2>1, <3>2, EraseStep DEF Truncate, Remove
    <3> QED
      BY <2>2, <3>1, <3>2 DEF Write
  <2>3. CASE Answer
    <3>1. PICK l \in inflight : Deliver(l) \/ Expire(l)
      BY <2>3 DEF Answer
    <3>2. \A m \in inflight : Handled(m)'
      BY <3>1 DEF Deliver, Expire, Handled, Accounted, Reasons
    <3> QED
      BY <2>1, <3>1, <3>2, OutsideStep
      DEF Deliver, Expire, fileVars, readVars
  <2>4. CASE Scan \/ EndOfFile \/ EndScan \/ Sleep
    <3>1. \A l \in inflight : Handled(l)'
      BY <2>4 DEF Scan, EndOfFile, EndScan, Sleep, Handled, producerVars
    <3>2. /\ gen' = gen /\ cur' = cur /\ cursor' = cursor /\ mem' = mem
          /\ saved' = saved /\ topic' = topic /\ lost' = lost
          /\ inflight' = inflight /\ (Reading' <=> Reading)
          /\ pc # "down" /\ pc' # "down"
      BY <2>4 DEF Scan, EndOfFile, EndScan, Sleep, Reading, fileVars, readVars,
                  producerVars
    <3> QED
      BY <2>1, <3>1, <3>2, StageStep DEF IInv
  <2>5. CASE \E f \in Files : PickVanished(f)
    BY <2>1, <2>5, DownStep DEF PickVanished, fileVars, readVars
  <2>6. CASE Crash
    BY <2>1, <2>6, DownStep DEF Crash, fileVars, readVars
  <2>7. CASE \E f \in Files : Pick(f)
    BY <2>1, <2>7, PickStep
  <2>8. CASE BatchSave \/ SaveFile \/ \E f \in Files : Prune(f)
    BY <2>1, <2>8, SavingStep
  <2>9. CASE ReadLine
    BY <2>1, <2>9, ReadLineStep DEF ReadLine
  <2>10. CASE FlushFile
    BY <2>1, <2>10, FlushStep
  <2>11. CASE Restart
    BY <2>1, <2>11, RestartStep
  <2> QED
    BY <1>2, <2>2, <2>3, <2>4, <2>5, <2>6, <2>7, <2>8, <2>9, <2>10, <2>11
    DEF Next, Forward
<1> QED
  BY <1>1, <1>2

\* The forwarder's variables keep their types: every offset is a pair of
\* naturals, every record sent is a line of a listed file.
THEOREM TypeCorrect == Spec => []TypeOK
<1>1. Init => IInv
  BY InitIInv
<1>2. IInv /\ [Next]_vars => IInv'
  BY InvariantStep
<1>3. IInv => TypeOK
  BY DEF IInv
<1> QED
  BY <1>1, <1>2, <1>3, PTL DEF Spec

\* The checkpoint on disk never passes a line that is only queued: whatever
\* crashes, a restart from it skips no fact without a recorded reason.
THEOREM CheckpointSafe == Spec => []CheckpointAccounted
<1>1. Init => IInv
  BY InitIInv
<1>2. IInv /\ [Next]_vars => IInv'
  BY InvariantStep
<1>3. IInv => CheckpointAccounted
  BY DEF IInv
<1> QED
  BY <1>1, <1>2, <1>3, PTL DEF Spec

-----------------------------------------------------------------------------
(***************************************************************************)
(* Why lines are passed over.  A line recorded as overrun belongs to an    *)
(* incarnation the path has had, so a later truncation only makes it older.*)
(***************************************************************************)
LossGenerations ==
  \A x \in lost : x.why = "overrun" => x.line.gen <= gen[x.line.file]

LossInv == IInv /\ LossHasCause /\ LossGenerations

\* What the two say of one recorded loss.
Caused(x) ==
  \/ x.why = "expired" /\ DeliveryFails
  \/ x.why = "torn"
  \/ /\ x.why = "overrun" /\ x.line.gen > 0
     /\ x.line.gen <= gen[x.line.file]
     /\ \/ x.line.gen < gen[x.line.file]
        \/ Passed(x.line.num, size[x.line.file])

\* The two parts are one statement about each loss.
LEMMA LossParts ==
  /\ LossHasCause /\ LossGenerations => \A x \in lost : Caused(x)
  /\ (\A x \in lost : Caused(x)) => LossHasCause /\ LossGenerations
  BY DEF LossHasCause, LossGenerations, Caused

\* A position within the file that an older incarnation left gives up only
\* lines already written.
LEMMA OverrunCaused ==
  ASSUME TypeOK, NEW f \in Files, NEW pos \in Offsets,
         pos.gen <= gen[f], pos.off <= size[f]
  PROVE  \A x \in Overrun(f, pos) : Caused(x)
<1> SUFFICES ASSUME NEW x \in Overrun(f, pos)
             PROVE  Caused(x)
  OBVIOUS
<1>1. PICK k \in 1..MaxLines[f] :
        /\ pos.gen # gen[f] /\ Passed(k, pos.off)
        /\ x = [line |-> Line(f, k), why |-> "overrun"]
  BY DEF Overrun
<1>2. /\ x.line.gen = gen[f] /\ x.line.file = f /\ x.line.num = k
      /\ x.why = "overrun"
  BY <1>1 DEF Line
<1>3. /\ gen[f] \in Nat /\ size[f] \in Nat /\ pos.gen \in Nat
      /\ pos.off \in Nat /\ k \in Nat
  BY BoundsAssumption DEF TypeOK, Offsets
<1>4. gen[f] > 0
  BY <1>1, <1>3
<1>5. Passed(k, size[f])
  BY <1>1, <1>3 DEF Passed
<1> QED
  BY <1>2, <1>3, <1>4, <1>5 DEF Caused

\* A cause stays one while the file grows or starts again.
LEMMA CausedKept ==
  ASSUME TypeOK, NEW x \in lost, Caused(x),
         \/ gen' = gen /\ \A f \in Files : size'[f] >= size[f]
         \/ \E f \in Files, still \in BOOLEAN : Erase(f, still),
         TypeOK'
  PROVE  Caused(x)'
<1>1. /\ x.line.file \in Files /\ x.line.gen \in Nat /\ x.line.num \in Nat
  BY DEF TypeOK, Lines
<1> DEFINE g == x.line.file
<1>2. /\ gen[g] \in Nat /\ size[g] \in Nat /\ gen'[g] \in Nat /\ size'[g] \in Nat
  BY <1>1 DEF TypeOK
<1>3. CASE gen' = gen /\ size'[g] >= size[g]
  BY <1>1, <1>2, <1>3 DEF Caused, Passed
<1>4. ASSUME NEW f \in Files, NEW still \in BOOLEAN, Erase(f, still)
      PROVE  Caused(x)'
  <2>1. CASE g = f
    <3>1. gen'[g] = gen[g] + 1
      BY <1>4, <2>1 DEF Erase, TypeOK
    <3> QED
      BY <1>1, <1>2, <3>1 DEF Caused
  <2>2. CASE g # f
    <3>1. gen'[g] = gen[g] /\ size'[g] = size[g]
      BY <1>1, <1>4, <2>2 DEF Erase, TypeOK
    <3> QED
      BY <3>1 DEF Caused
  <2> QED
    BY <2>1, <2>2
<1> QED
  BY <1>1, <1>3, <1>4

\* A step that records no loss keeps the causes.
LEMMA LossKept ==
  ASSUME LossInv, TypeOK', lost' = lost,
         \/ gen' = gen /\ \A f \in Files : size'[f] >= size[f]
         \/ \E f \in Files, still \in BOOLEAN : Erase(f, still)
  PROVE  \A x \in lost' : Caused(x)'
  BY CausedKept, LossParts DEF LossInv, IInv

\* A step on an unchanged file that records losses with a cause keeps them.
LEMMA LossAdded ==
  ASSUME LossInv, TypeOK', NEW more, lost' = lost \cup more,
         gen' = gen, size' = size, \A x \in more : Caused(x)
  PROVE  \A x \in lost' : Caused(x)'
<1>1. \A x \in lost' : Caused(x)
  BY LossParts DEF LossInv
<1>2. \A x : Caused(x) => Caused(x)'
  BY DEF Caused
<1> QED
  BY <1>1, <1>2

\* Taking up a file or reading a line in it: the position is within the file.
LEMMA LossWhileReading ==
  ASSUME LossInv, TypeOK',
         \/ \E f \in Files : Pick(f)
         \/ ReadLine
  PROVE  \A x \in lost' : Caused(x)'
<1>1. ASSUME NEW f \in Files, Pick(f)
      PROVE  \A x \in lost' : Caused(x)'
  <2>1. PICK pos \in {Start(f), mem[f]} :
          pos.off <= size[f] /\ lost' = lost \cup Overrun(f, pos)
    <3>1. /\ Start(f).off = 0 /\ size[f] \in Nat /\ mem[f].off \in Nat
          /\ 0 <= size[f]
      BY OffsetTypes DEF Start, LossInv, IInv, TypeOK
    <3>2. CASE mem[f].off > size[f]
      BY <1>1, <3>1, <3>2 DEF Pick
    <3>3. CASE ~(mem[f].off > size[f])
      BY <1>1, <3>1, <3>3 DEF Pick
    <3> QED
      BY <3>2, <3>3
  <2>2. pos \in Offsets /\ pos.gen <= gen[f]
    BY <2>1 DEF Start, Offsets, LossInv, IInv, TypeOK, Generations
  <2>3. gen' = gen /\ size' = size
    BY <1>1 DEF Pick, fileVars
  <2>4. \A x \in Overrun(f, pos) : Caused(x)
    BY <2>1, <2>2, OverrunCaused DEF LossInv, IInv
  <2> QED
    BY <2>1, <2>3, <2>4, LossAdded
<1>2. ASSUME ReadLine
      PROVE  \A x \in lost' : Caused(x)'
  <2>1. PICK k \in 1..MaxLines[cur] :
          ReadMalformed(k) \/ ReadFiltered(k) \/ ReadFact(k)
            \/ ReadTornHead(k) \/ ReadOrphanTail(k)
    BY <1>2 DEF ReadLine
  <2> DEFINE torn == [line |-> Line(cur, k), why |-> "torn"]
  <2>2. /\ \/ cursor.off = 2 * k - 2 /\ size[cur] >= 2 * k - 1
           \/ cursor.off = 2 * k - 1 /\ size[cur] >= 2 * k
        /\ gen' = gen /\ size' = size
    <3>1. k \in Nat /\ size[cur] \in Nat
      BY BoundsAssumption DEF LossInv, IInv, TypeOK
    <3> QED
      BY <2>1, <3>1 DEF ReadMalformed, ReadFiltered, ReadFact, ReadTornHead,
                   ReadOrphanTail, fileVars
  <2>3. cursor.off <= size[cur] /\ cursor.gen <= gen[cur]
    <3>1. k \in Nat /\ size[cur] \in Nat
      BY BoundsAssumption DEF LossInv, IInv, TypeOK
    <3> QED
      BY <2>2, <3>1 DEF LossInv, IInv, Generations
  <2>4. \A x \in Overrun(cur, cursor) \cup {torn} : Caused(x)
    <3>1. Caused(torn)
      BY DEF Caused
    <3>2. \A x \in Overrun(cur, cursor) : Caused(x)
      BY <2>3, OverrunCaused DEF LossInv, IInv, TypeOK
    <3> QED
      BY <3>1, <3>2
  <2>5. \/ lost' = lost \cup Overrun(cur, cursor)
        \/ lost' = lost \cup (Overrun(cur, cursor) \cup {torn})
    BY <2>1 DEF ReadMalformed, ReadFiltered, ReadFact, ReadTornHead,
                ReadOrphanTail
  <2> QED
    BY <2>2, <2>4, <2>5, LossAdded
<1> QED
  BY <1>1, <1>2

\* Every step keeps the causes of all losses.
LEMMA LossStep ==
  ASSUME LossInv, [Next]_vars
  PROVE  LossInv'
<1>1. IInv' /\ TypeOK'
  BY InvariantStep DEF LossInv, IInv
<1>2. SUFFICES \A x \in lost' : Caused(x)'
  BY <1>1 DEF LossInv, LossHasCause, LossGenerations, Caused
<1>3. CASE lost' = lost /\ gen' = gen /\ size' = size
  <2>1. \A f \in Files : size'[f] >= size[f]
    BY <1>3 DEF LossInv, IInv, TypeOK
  <2> QED
    BY <1>1, <1>3, <2>1, LossKept
<1>4. CASE Write
  <2>1. lost' = lost
    BY <1>4 DEF Write, WriteHead, WriteTail, Truncate, Remove, Erase
  <2>2. ASSUME NEW f \in Files, WriteHead(f) \/ WriteTail(f)
        PROVE  gen' = gen /\ \A g \in Files : size'[g] >= size[g]
    <3>1. size \in [Files -> Nat]
      BY DEF LossInv, IInv, TypeOK
    <3>2. gen' = gen /\ size' = [size EXCEPT ![f] = @ + 1]
      BY <2>2 DEF WriteHead, WriteTail
    <3> QED
      BY <3>1, <3>2
  <2>3. ASSUME NEW f \in Files, Truncate(f) \/ Remove(f)
        PROVE  \E g \in Files, still \in BOOLEAN : Erase(g, still)
    BY <2>3 DEF Truncate, Remove
  <2>4. \/ gen' = gen /\ \A f \in Files : size'[f] >= size[f]
        \/ \E f \in Files, still \in BOOLEAN : Erase(f, still)
    BY <1>4, <2>2, <2>3 DEF Write
  <2> QED
    BY <1>1, <2>1, <2>4, LossKept
<1>5. CASE (\E f \in Files : Pick(f)) \/ ReadLine
  BY <1>1, <1>5, LossWhileReading
<1>6. CASE Answer
  <2>1. PICK l \in inflight : Deliver(l) \/ Expire(l)
    BY <1>6 DEF Answer
  <2>2. gen' = gen /\ size' = size
    BY <2>1 DEF Deliver, Expire, fileVars
  <2>3. CASE Deliver(l)
    BY <1>3, <2>2, <2>3 DEF Deliver
  <2>4. CASE Expire(l)
    <3>1. PICK more : more = {[line |-> l, why |-> "expired"]}
      OBVIOUS
    <3>2. \A x \in more : Caused(x)
      BY <2>4, <3>1 DEF Caused, Expire
    <3>3. lost' = lost \cup more
      BY <2>4, <3>1 DEF Expire
    <3> QED
      BY <1>1, <2>2, <3>2, <3>3, LossAdded
  <2> QED
    BY <2>1, <2>3, <2>4
<1>7. CASE Crash \/ Restart
  BY <1>3, <1>7 DEF Crash, Restart, fileVars
<1>8. CASE \/ Scan \/ EndOfFile \/ BatchSave \/ FlushFile \/ SaveFile
           \/ EndScan \/ Sleep \/ \E f \in Files : PickVanished(f) \/ Prune(f)
  BY <1>3, <1>8
  DEF Scan, EndOfFile, BatchSave, FlushFile, SaveFile, EndScan, Sleep,
      PickVanished, Prune, fileVars
<1>9. CASE UNCHANGED vars
  BY <1>3, <1>9 DEF vars, fileVars
<1> QED
  BY <1>4, <1>5, <1>6, <1>7, <1>8, <1>9 DEF Next, Forward

\* No line is ever given up without one of the three causes, and a truncation
\* the size check sees costs none.
THEOREM LossesExplained == Spec => []LossHasCause
<1>1. Init => LossInv
  BY InitIInv DEF LossInv, LossHasCause, LossGenerations, Init
<1>2. LossInv /\ [Next]_vars => LossInv'
  BY LossStep
<1>3. LossInv => LossHasCause
  BY DEF LossInv
<1> QED
  BY <1>1, <1>2, <1>3, PTL DEF Spec

-----------------------------------------------------------------------------
(***************************************************************************)
(* One process sends a fact once.  What it has sent of the incarnation a   *)
(* path now has lies behind the offset in memory and, for the open file,   *)
(* behind the position: the offset cannot be reset, since it lies within   *)
(* the file, nor pruned, since the file is still there and listed.         *)
(***************************************************************************)
Behind(l, pos) == pos.gen = gen[l.file] /\ 2 * l.num <= pos.off

\* An offset of the present incarnation lies within the file.
Within(f, pos) == pos.gen = gen[f] => pos.off <= size[f]

OffsetsWithin ==
  /\ \A f \in Files : Within(f, mem[f]) /\ Within(f, saved[f])
  /\ Reading => Within(cur, cursor)

\* The scan takes its files from the list it made.
FromTheList ==
  /\ pc \in {"pick", "read", "batch", "flush", "save"} => todo \subseteq listed
  /\ Reading => cur \in listed

\* A file is not removed while it is read.
OpenIsPresent == Reading => present[cur]

\* A sent fact of the present incarnation is behind every position in use.
Kept(l) ==
  /\ present[l.file]
  /\ pc # "scan" => l.file \in listed
  /\ Behind(l, mem[l.file])
  /\ Reading /\ l.file = cur => Behind(l, cursor)

SentIsBehind ==
  \A l \in sentNow : /\ l.gen <= gen[l.file]
                     /\ l.gen = gen[l.file] => Kept(l)

LifeInv ==
  /\ IInv
  /\ NoResendInOneLife
  /\ pc = "down" => sentNow = {}
  /\ OffsetsWithin
  /\ FromTheList
  /\ OpenIsPresent
  /\ SentIsBehind

\* The part of it that is not in the invariant of the checkpoint.
Life ==
  /\ NoResendInOneLife /\ (pc = "down" => sentNow = {})
  /\ OffsetsWithin /\ FromTheList /\ OpenIsPresent /\ SentIsBehind

\* The numbers of a line that was sent.
LEMMA SentTypes ==
  ASSUME TypeOK, NEW l \in sentNow
  PROVE  /\ l.file \in Files /\ l.gen \in Nat /\ l.num \in Nat
         /\ gen[l.file] \in Nat
  BY DEF TypeOK, Lines

\* The writer: a file grows, or starts a new incarnation nothing was sent of.
LEMMA WriterLife ==
  ASSUME LifeInv, Write
  PROVE  Life'
<1>1. /\ UNCHANGED <<pc, listed, todo, cur, cursor, mem, saved, sentNow, resent>>
  BY DEF Write, WriteHead, WriteTail, Truncate, Remove, Erase, scanVars, readVars
<1>2. TypeOK /\ Generations /\ TypeOK'
  BY TypeStep DEF LifeInv, IInv, Next
<1>3. PICK f \in Files :
        /\ \/ /\ gen' = gen /\ size' = [size EXCEPT ![f] = @ + 1]
              /\ present' = present \/ present' = [present EXCEPT ![f] = TRUE]
           \/ \E still \in BOOLEAN : Erase(f, still)
  BY DEF Write, WriteHead, WriteTail, Truncate, Remove, fileVars
<1>4. ASSUME NEW g \in Files
      PROVE  \/ gen'[g] = gen[g] /\ size'[g] >= size[g] /\ (present[g] => present'[g])
             \/ gen'[g] = gen[g] + 1
  <2>1. size[g] \in Nat /\ gen[g] \in Nat
    BY <1>2 DEF TypeOK
  <2>2. CASE gen' = gen /\ size' = [size EXCEPT ![f] = @ + 1]
             /\ (present' = present \/ present' = [present EXCEPT ![f] = TRUE])
    <3>1. gen'[g] = gen[g] /\ size'[g] >= size[g]
      BY <1>2, <2>1, <2>2 DEF TypeOK
    <3>2. present[g] => present'[g]
      BY <1>2, <2>2 DEF TypeOK
    <3> QED
      BY <3>1, <3>2
  <2>3. ASSUME NEW still \in BOOLEAN, Erase(f, still)
        PROVE  \/ gen'[g] = gen[g] + 1
               \/ gen'[g] = gen[g] /\ size'[g] = size[g] /\ present'[g] = present[g]
    BY <1>2, <2>3 DEF Erase, TypeOK
  <2> QED
    BY <1>3, <2>1, <2>2, <2>3
<1>5. ASSUME NEW g \in Files, NEW pos \in Offsets, pos.gen <= gen[g],
             Within(g, pos)
      PROVE  Within(g, pos)'
  <2>1. /\ gen[g] \in Nat /\ size[g] \in Nat /\ pos.gen \in Nat /\ pos.off \in Nat
        /\ size'[g] \in Nat
    BY <1>2 DEF TypeOK, Offsets
  <2>2. CASE gen'[g] = gen[g] + 1
    <3>1. pos.gen # gen'[g]
      BY <1>5, <2>1, <2>2
    <3> QED
      BY <3>1 DEF Within
  <2>3. CASE gen'[g] = gen[g] /\ size'[g] >= size[g] /\ size'[g] \in Nat
    BY <1>5, <2>1, <2>3 DEF Within
  <2> QED
    BY <1>4, <2>1, <2>2, <2>3
<1>6. OffsetsWithin'
  <2>1. \A g \in Files : Within(g, mem[g])' /\ Within(g, saved[g])'
    <3> SUFFICES ASSUME NEW g \in Files
                 PROVE  Within(g, mem[g])' /\ Within(g, saved[g])'
      OBVIOUS
    <3>1. PICK a, b : a = mem[g] /\ b = saved[g]
      OBVIOUS
    <3>2. /\ a \in Offsets /\ b \in Offsets /\ a.gen <= gen[g] /\ b.gen <= gen[g]
          /\ Within(g, a) /\ Within(g, b)
      BY <1>2, <3>1 DEF TypeOK, Generations, LifeInv, OffsetsWithin
    <3>3. Within(g, a)' /\ Within(g, b)'
      BY <1>5, <3>2
    <3> QED
      BY <1>1, <3>1, <3>3 DEF Within
  <2>2. Reading' => Within(cur, cursor)'
    <3>1. PICK c, q : c = cur /\ q = cursor
      OBVIOUS
    <3>2. Reading => c \in Files /\ q \in Offsets /\ q.gen <= gen[c] /\ Within(c, q)
      BY <1>2, <3>1 DEF TypeOK, Generations, LifeInv, OffsetsWithin
    <3>3. Reading => Within(c, q)'
      BY <1>5, <3>2
    <3> QED
      BY <1>1, <3>1, <3>3 DEF Within, Reading
  <2> QED
    BY <2>1, <2>2 DEF OffsetsWithin
<1>7. SentIsBehind'
  <2> SUFFICES ASSUME NEW l \in sentNow
               PROVE  /\ l.gen <= gen'[l.file]
                      /\ l.gen = gen'[l.file] => Kept(l)'
    BY <1>1 DEF SentIsBehind
  <2>1. /\ l.file \in Files /\ l.gen \in Nat /\ gen[l.file] \in Nat
        /\ l.gen <= gen[l.file]
        /\ l.gen = gen[l.file] => Kept(l)
    BY <1>2, SentTypes DEF LifeInv, SentIsBehind
  <2>2. CASE gen'[l.file] = gen[l.file] + 1
    BY <2>1, <2>2
  <2>3. CASE gen'[l.file] = gen[l.file] /\ (present[l.file] => present'[l.file])
    BY <1>1, <2>1, <2>3 DEF Kept, Behind, Reading
  <2> QED
    BY <1>4, <2>1, <2>2, <2>3
<1>8. OpenIsPresent'
  <2> SUFFICES ASSUME Reading
               PROVE  present'[cur]
    BY <1>1 DEF OpenIsPresent, Reading
  <2>1. present[cur] /\ cur \in Files /\ present \in [Files -> BOOLEAN]
    BY <1>2 DEF LifeInv, OpenIsPresent, TypeOK
  <2>2. CASE present' = present
    BY <2>1, <2>2
  <2>3. ASSUME NEW g \in Files, present' = [present EXCEPT ![g] = TRUE]
        PROVE  present'[cur]
    BY <2>1, <2>3
  <2>4. ASSUME NEW g \in Files, Remove(g)
        PROVE  present'[cur]
    <3>1. cur # g /\ present' = [present EXCEPT ![g] = FALSE]
      BY <2>4 DEF Remove, Erase, Reading
    <3> QED
      BY <2>1, <3>1
  <2> QED
    BY <2>2, <2>3, <2>4 DEF Write, WriteHead, WriteTail, Truncate, Erase
<1> QED
  BY <1>1, <1>6, <1>7, <1>8 DEF LifeInv, Life, NoResendInOneLife, FromTheList, Reading

\* Steps that move no offset and send nothing.
LEMMA StillLife ==
  ASSUME LifeInv, UNCHANGED <<present, size, gen, mem, saved, cur, cursor>>,
         sentNow' \in {sentNow, {}}, resent' = resent,
         pc' = "down" => sentNow' = {},
         Reading' => Reading,
         FromTheList',
         pc' # "scan" /\ sentNow' # {} => pc # "scan" /\ listed' = listed
  PROVE  Life'
<1>1. OffsetsWithin'
  BY DEF LifeInv, OffsetsWithin, Within
<1>2. SentIsBehind'
  BY DEF LifeInv, SentIsBehind, Kept, Behind
<1>3. OpenIsPresent'
  BY DEF LifeInv, OpenIsPresent
<1> QED
  BY <1>1, <1>2, <1>3 DEF LifeInv, Life, NoResendInOneLife

\* Listing the files: what was sent of their present incarnations is there.
LEMMA ScanLife ==
  ASSUME LifeInv, Scan
  PROVE  Life'
<1>1. /\ UNCHANGED <<present, size, gen, mem, saved, cur, cursor, sentNow, resent>>
      /\ pc = "scan" /\ pc' = "pick"
      /\ listed' = {f \in Files : present[f]} /\ todo' = listed'
  BY DEF Scan, fileVars, readVars
<1>2. OffsetsWithin' /\ FromTheList'
  BY <1>1 DEF LifeInv, OffsetsWithin, Within, FromTheList, Reading
<1>3. SentIsBehind'
  BY <1>1, SentTypes DEF LifeInv, IInv, SentIsBehind, Kept, Behind, Reading
<1>4. OpenIsPresent'
  BY <1>1 DEF OpenIsPresent, Reading
<1> QED
  BY <1>1, <1>2, <1>3, <1>4 DEF LifeInv, Life, NoResendInOneLife

\* Opening a file at the offset in memory, which is not reset while facts of
\* this incarnation are behind it.
LEMMA PickLife ==
  ASSUME LifeInv, NEW f \in Files, Pick(f)
  PROVE  Life'
<1>1. /\ UNCHANGED <<present, size, gen, mem, saved, sentNow, resent, listed>>
      /\ pc = "pick" /\ f \in todo /\ present[f]
  BY DEF Pick, fileVars
<1>2. TypeOK /\ Generations
  BY DEF LifeInv, IInv
<1>3. CASE pc' = pc /\ todo' = todo \ {f} /\ UNCHANGED <<cur, cursor>>
  <2>1. FromTheList' /\ ~Reading'
    BY <1>1, <1>3 DEF LifeInv, FromTheList, Reading
  <2> QED
    BY <1>1, <1>3, <2>1, StillLife
<1>4. ASSUME NEW pos, pos = IF mem[f].off > size[f] THEN Start(f) ELSE mem[f],
             pos.off < size[f],
             cur' = f, cursor' = pos, pc' = "read", todo' = todo
      PROVE  Life'
  <2>1. Within(f, pos)
    <3>1. CASE pos = Start(f)
      BY <1>2, <3>1 DEF Start, Within, TypeOK
    <3>2. CASE pos = mem[f]
      BY <3>2 DEF LifeInv, OffsetsWithin
    <3> QED
      BY <1>4, <3>1, <3>2
  <2>2. OffsetsWithin' /\ FromTheList'
    BY <1>1, <1>4, <2>1 DEF LifeInv, OffsetsWithin, Within, FromTheList, Reading
  <2>3. SentIsBehind'
    <3> SUFFICES ASSUME NEW l \in sentNow, l.gen = gen[l.file]
                 PROVE  Kept(l)'
      BY <1>1 DEF LifeInv, SentIsBehind
    <3>1. Kept(l)
      BY DEF LifeInv, SentIsBehind
    <3>2. l.file = f => pos = mem[f]
      BY <1>2, <1>4, <3>1, OffsetTypes
         DEF Kept, Behind, LifeInv, OffsetsWithin, Within, TypeOK
    <3> QED
      BY <1>1, <1>4, <3>1, <3>2 DEF Kept, Behind, Reading
  <2>4. OpenIsPresent'
    BY <1>1, <1>4 DEF OpenIsPresent
  <2> QED
    BY <1>1, <1>4, <2>2, <2>3, <2>4 DEF LifeInv, Life, NoResendInOneLife
<1> QED
  BY <1>3, <1>4 DEF Pick, readVars

\* Reading a line moves the position forward within the present incarnation;
\* a fact at the position has not been sent.
LEMMA ReadLife ==
  ASSUME LifeInv, ReadLine
  PROVE  Life'
<1>1. PICK k \in 1..MaxLines[cur] :
        ReadMalformed(k) \/ ReadFiltered(k) \/ ReadFact(k)
          \/ ReadTornHead(k) \/ ReadOrphanTail(k)
  BY DEF ReadLine
<1>2. TypeOK /\ Generations /\ cur \in Files /\ k \in Nat
      /\ size[cur] \in Nat /\ gen[cur] \in Nat /\ cursor.off \in Nat
      /\ cursor \in Offsets
  BY BoundsAssumption DEF LifeInv, IInv, TypeOK, Offsets
<1>3. /\ UNCHANGED <<present, size, gen, saved, cur, listed, todo>>
      /\ pc = "read" /\ pc' \in {"read", "batch"}
  BY <1>1 DEF ReadMalformed, ReadFiltered, ReadFact, ReadTornHead,
              ReadOrphanTail, fileVars, scanVars
<1>4. PICK o \in {2 * k - 1, 2 * k} :
        /\ cursor.off < o /\ o <= size[cur]
        /\ cursor' = At(o)
        /\ \/ mem' = mem /\ ~ReadFact(k)
           \/ mem' = [mem EXCEPT ![cur] = At(o)] /\ o = 2 * k
  <2>1. CASE ReadMalformed(k)
    BY <1>2, <2>1 DEF ReadMalformed, ReadFact, IsFact
  <2>2. CASE ReadFiltered(k)
    BY <1>2, <2>2 DEF ReadFiltered
  <2>3. CASE ReadFact(k)
    BY <1>2, <2>3 DEF ReadFact
  <2>4. CASE ReadTornHead(k)
    BY <1>2, <2>4 DEF ReadTornHead, ReadFact
  <2>5. CASE ReadOrphanTail(k)
    BY <1>2, <2>5 DEF ReadOrphanTail, ReadFact
  <2> QED
    BY <1>1, <2>1, <2>2, <2>3, <2>4, <2>5
<1>5. At(o).off = o /\ At(o).gen = gen[cur]
  BY DEF At
<1>6. \A f \in Files : mem'[f] = mem[f] \/ (f = cur /\ mem'[f] = At(o))
  <2>1. mem \in [Files -> Offsets]
    BY <1>2 DEF TypeOK
  <2> QED
    BY <1>2, <1>4, <2>1
<1>7. OffsetsWithin' /\ FromTheList' /\ OpenIsPresent'
  <2>1. Within(cur, At(o))
    BY <1>4, <1>5 DEF Within
  <2>2. ASSUME NEW f \in Files
        PROVE  Within(f, mem'[f]) /\ Within(f, saved[f])
    BY <1>6, <2>1, <2>2 DEF LifeInv, OffsetsWithin
  <2>3. OffsetsWithin'
    BY <1>3, <1>4, <2>1, <2>2 DEF OffsetsWithin, Within
  <2> QED
    BY <1>3, <2>3 DEF LifeInv, FromTheList, OpenIsPresent, Reading
<1>8. ASSUME NEW l \in sentNow
      PROVE  /\ l.gen <= gen[l.file]
             /\ l.gen = gen[l.file] =>
                  Kept(l)' /\ (l.file = cur => 2 * l.num <= cursor.off)
  <2>1. l.gen <= gen[l.file] /\ (l.gen = gen[l.file] => Kept(l))
    BY DEF LifeInv, SentIsBehind
  <2>2. l.num \in Nat /\ l.file \in Files
    BY <1>2, SentTypes
  <2>3. ASSUME Kept(l)
        PROVE  Kept(l)' /\ (l.file = cur => 2 * l.num <= cursor.off)
    <3>1. l.file = cur => Behind(l, cursor) /\ Behind(l, At(o))
      BY <1>2, <1>3, <1>4, <1>5, <2>2, <2>3 DEF Kept, Behind, Reading
    <3> QED
      BY <1>3, <1>4, <1>6, <2>2, <2>3, <3>1 DEF Kept, Behind, Reading
  <2> QED
    BY <2>1, <2>3
<1>9. CASE sentNow' = sentNow /\ resent' = resent
  BY <1>3, <1>7, <1>8, <1>9 DEF LifeInv, Life, SentIsBehind, NoResendInOneLife
<1>10. CASE ReadFact(k)
  <2>0. PICK l : l = Line(cur, k)
    OBVIOUS
  <2>1. /\ sentNow' = sentNow \cup {l}
        /\ resent' = IF l \in sentNow THEN resent \cup {l} ELSE resent
        /\ cursor.off = 2 * k - 2
        /\ mem' = [mem EXCEPT ![cur] = At(2 * k)]
        /\ cursor' = At(2 * k)
    BY <1>10, <2>0 DEF ReadFact
  <2>2. l.file = cur /\ l.gen = gen[cur] /\ l.num = k
    BY <2>0 DEF Line
  <2>3. l \notin sentNow
    BY <1>2, <1>8, <2>1, <2>2
  <2>4. present[cur] /\ cur \in listed
    BY <1>3 DEF LifeInv, FromTheList, OpenIsPresent, Reading
  <2>5. Kept(l)'
    BY <1>2, <1>3, <2>1, <2>2, <2>4 DEF Kept, Behind, TypeOK, At
  <2>6. SentIsBehind'
    BY <1>2, <1>3, <1>8, <2>1, <2>2, <2>5 DEF SentIsBehind
  <2> QED
    BY <1>3, <1>7, <2>1, <2>3, <2>6 DEF LifeInv, Life, NoResendInOneLife
<1> QED
  BY <1>1, <1>9, <1>10
  DEF ReadMalformed, ReadFiltered, ReadTornHead, ReadOrphanTail

\* Writing the checkpoint changes no offset in memory.
LEMMA SavedLife ==
  ASSUME LifeInv, BatchSave \/ SaveFile
  PROVE  Life'
<1>1. /\ UNCHANGED <<present, size, gen, mem, listed, sentNow, resent>>
      /\ saved' = mem /\ pc' \notin {"scan", "down"} /\ pc # "scan"
      /\ todo' \subseteq todo
      /\ Reading' => Reading /\ UNCHANGED <<cur, cursor>>
      /\ pc \in {"batch", "save"}
  BY DEF BatchSave, SaveFile, Reading, fileVars, scanVars, readVars
<1>2. OffsetsWithin'
  BY <1>1 DEF LifeInv, OffsetsWithin, Within
<1>3. FromTheList' /\ OpenIsPresent'
  BY <1>1 DEF LifeInv, FromTheList, OpenIsPresent
<1>4. SentIsBehind'
  BY <1>1 DEF LifeInv, SentIsBehind, Kept, Behind
<1> QED
  BY <1>1, <1>2, <1>3, <1>4 DEF LifeInv, Life, NoResendInOneLife

\* After the flush the position, which is behind nothing sent, goes to memory.
LEMMA FlushLife ==
  ASSUME LifeInv, FlushFile
  PROVE  Life'
<1>1. /\ UNCHANGED <<present, size, gen, saved, cur, cursor, listed, todo,
                     sentNow, resent>>
      /\ mem' = [mem EXCEPT ![cur] = cursor] /\ pc = "flush" /\ pc' = "save"
  BY DEF FlushFile, fileVars, scanVars, readVars
<1>2. \A f \in Files : mem'[f] = mem[f] \/ (f = cur /\ mem'[f] = cursor)
  BY <1>1 DEF LifeInv, IInv, TypeOK
<1>3. OffsetsWithin'
  <2>1. \A f \in Files : Within(f, mem'[f]) /\ Within(f, saved[f])
    BY <1>1, <1>2 DEF LifeInv, OffsetsWithin, Reading
  <2> QED
    BY <1>1, <2>1 DEF OffsetsWithin, Within, Reading
<1>4. FromTheList' /\ OpenIsPresent'
  BY <1>1 DEF LifeInv, FromTheList, OpenIsPresent, Reading
<1>5. SentIsBehind'
  <2> SUFFICES ASSUME NEW l \in sentNow, l.gen = gen[l.file]
               PROVE  Kept(l)'
    BY <1>1 DEF LifeInv, SentIsBehind
  <2>1. Kept(l) /\ l.file \in Files
    BY SentTypes DEF LifeInv, IInv, SentIsBehind
  <2>2. PICK m : m = mem'[l.file] /\ Behind(l, m)
    BY <1>1, <1>2, <2>1 DEF Kept, Reading
  <2> QED
    BY <1>1, <2>1, <2>2 DEF Kept, Behind, Reading
<1> QED
  BY <1>1, <1>3, <1>4, <1>5 DEF LifeInv, Life, NoResendInOneLife

\* A path is pruned when it was not there to be listed: nothing has been sent
\* of the incarnation it has now.
LEMMA PruneLife ==
  ASSUME LifeInv, NEW f \in Files, Prune(f)
  PROVE  Life'
<1>1. /\ UNCHANGED <<present, size, gen, pc, cur, cursor, listed, todo,
                     sentNow, resent>>
      /\ pc = "prune" /\ f \notin listed
      /\ mem' = [mem EXCEPT ![f] = Start(f)] /\ saved' = mem'
  BY DEF Prune, Stale, fileVars, scanVars, readVars
<1>2. \A g \in Files : mem'[g] = mem[g] \/ (g = f /\ mem'[g] = Start(f))
  BY <1>1 DEF LifeInv, IInv, TypeOK
<1>3. OffsetsWithin'
  <2>1. Within(f, Start(f))
    BY DEF Within, Start, LifeInv, IInv, TypeOK
  <2>2. \A g \in Files : Within(g, mem'[g])
    BY <1>2, <2>1 DEF LifeInv, OffsetsWithin
  <2> QED
    BY <1>1, <2>2 DEF OffsetsWithin, Within, Reading
<1>4. FromTheList' /\ OpenIsPresent'
  BY <1>1 DEF LifeInv, FromTheList, OpenIsPresent, Reading
<1>5. SentIsBehind'
  <2> SUFFICES ASSUME NEW l \in sentNow, l.gen = gen[l.file]
               PROVE  Kept(l)'
    BY <1>1 DEF LifeInv, SentIsBehind
  <2>1. Kept(l) /\ l.file \in Files
    BY SentTypes DEF LifeInv, IInv, SentIsBehind
  <2>2. l.file # f
    BY <1>1, <2>1 DEF Kept
  <2>3. mem'[l.file] = mem[l.file]
    BY <1>2, <2>1, <2>2
  <2> QED
    BY <1>1, <2>1, <2>3 DEF Kept, Behind, Reading
<1> QED
  BY <1>1, <1>3, <1>4, <1>5 DEF LifeInv, Life, NoResendInOneLife

\* A new process has sent nothing.
LEMMA RestartLife ==
  ASSUME LifeInv, Restart
  PROVE  Life'
<1>1. /\ UNCHANGED <<present, size, gen, saved, sentNow, resent>>
      /\ pc = "down" /\ pc' = "scan" /\ sentNow = {}
      /\ mem' \in {saved, [f \in Files |-> Start(f)]}
  BY DEF LifeInv, Restart, fileVars
<1>2. \A f \in Files : Within(f, mem'[f])
  <2>1. \A f \in Files : Within(f, Start(f)) /\ Within(f, saved[f])
    BY DEF Within, Start, LifeInv, IInv, TypeOK, OffsetsWithin
  <2> QED
    BY <1>1, <2>1
<1>3. OffsetsWithin'
  BY <1>1, <1>2 DEF LifeInv, OffsetsWithin, Within, Reading
<1> QED
  BY <1>1, <1>3 DEF LifeInv, Life, NoResendInOneLife, FromTheList,
                    OpenIsPresent, Reading, SentIsBehind

\* Every step keeps the order of what one process has sent.
LEMMA LifeStep ==
  ASSUME LifeInv, [Next]_vars
  PROVE  LifeInv'
<1>1. IInv'
  BY InvariantStep DEF LifeInv
<1> SUFFICES Life'
  BY <1>1 DEF LifeInv, Life
<1>2. CASE Write
  BY <1>2, WriterLife
<1>3. CASE Scan
  BY <1>3, ScanLife
<1>4. CASE \E f \in Files : Pick(f)
  BY <1>4, PickLife
<1>5. CASE ReadLine
  BY <1>5, ReadLife
<1>6. CASE BatchSave \/ SaveFile
  BY <1>6, SavedLife
<1>7. CASE FlushFile
  BY <1>7, FlushLife
<1>8. CASE \E f \in Files : Prune(f)
  BY <1>8, PruneLife
<1>9. CASE Restart
  BY <1>9, RestartLife
<1>10. CASE Crash \/ \E f \in Files : PickVanished(f)
  <2>1. /\ UNCHANGED <<present, size, gen, mem, saved, cur, cursor, resent>>
        /\ sentNow' = {} /\ pc' = "down"
    BY <1>10 DEF Crash, PickVanished, fileVars, readVars
  <2>2. FromTheList' /\ ~Reading'
    BY <2>1 DEF FromTheList, Reading
  <2> QED
    BY <2>1, <2>2, StillLife
<1>11. CASE EndOfFile \/ EndScan \/ Sleep
  <2>1. /\ UNCHANGED <<present, size, gen, mem, saved, cur, cursor, resent, sentNow>>
        /\ pc # "scan" /\ pc' # "down" /\ (Reading' => Reading)
        /\ pc' # "scan" => listed' = listed /\ todo' = todo
        /\ pc' \in {"flush", "prune", "scan"}
        /\ pc' = "flush" => pc = "read"
    BY <1>11 DEF EndOfFile, EndScan, Sleep, Reading, fileVars, scanVars, readVars
  <2>2. FromTheList'
    BY <2>1 DEF LifeInv, FromTheList, Reading
  <2> QED
    BY <2>1, <2>2, StillLife
<1>12. CASE Answer
  <2>1. /\ UNCHANGED <<present, size, gen, pc, mem, saved, cur, cursor, resent,
                       sentNow, listed, todo>>
    BY <1>12 DEF Answer, Deliver, Expire, fileVars, scanVars, readVars
  <2> QED
    BY <2>1, StillLife DEF LifeInv, FromTheList, Reading
<1>13. CASE UNCHANGED vars
  <2>1. /\ UNCHANGED <<present, size, gen, pc, mem, saved, cur, cursor, resent,
                       sentNow, listed, todo>>
    BY <1>13 DEF vars, fileVars, scanVars, readVars
  <2> QED
    BY <2>1, StillLife DEF LifeInv, FromTheList, Reading
<1> QED
  BY <1>2, <1>3, <1>4, <1>5, <1>6, <1>7, <1>8, <1>9, <1>10, <1>11, <1>12, <1>13
  DEF Next, Forward

\* One process never hands the same fact to the producer twice, whatever is
\* truncated, removed or written again while it runs.
THEOREM SendsOnce == Spec => []NoResendInOneLife
<1>1. Init => LifeInv
  <2> SUFFICES ASSUME Init
               PROVE  LifeInv
    OBVIOUS
  <2>1. IInv
    BY InitIInv
  <2>2. OffsetsWithin
    BY DEF Init, OffsetsWithin, Within, Reading
  <2> QED
    BY <2>1, <2>2
    DEF Init, LifeInv, NoResendInOneLife, FromTheList, OpenIsPresent,
        SentIsBehind, Reading
<1>2. LifeInv /\ [Next]_vars => LifeInv'
  BY LifeStep
<1>3. LifeInv => NoResendInOneLife
  BY DEF LifeInv
<1> QED
  BY <1>1, <1>2, <1>3, PTL DEF Spec

=============================================================================
