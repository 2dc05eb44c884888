------------------------- MODULE EdgeSources_proofs -------------------------
(***************************************************************************)
(* The two programs that fill the directory the forwarder tails.           *)
(*                                                                         *)
(* The ingest, for any number of inodes, lines, rotations, moves and       *)
(* faults, and any length of the list of completed files: it forgets no    *)
(* line, and in one life writes none more than three times: from the tail, *)
(* from the file of its rotation and from that file's .gz.                 *)
(*                                                                         *)
(* The streamer, for any table, arguments, checkpoint interval and number  *)
(* of kills: what a replay has written is complete and nearly free of      *)
(* repetition, it ends for a reason, and the fault flag of every event     *)
(* agrees with its scenario.                                               *)
(***************************************************************************)
EXTENDS EdgeIngest, LcoreStreamer, FiniteSetTheorems, WellFoundedInduction, TLAPS

-----------------------------------------------------------------------------
Marks == Elements(ck.completed) \cup Elements(saved.completed)

IsCheckpoint(c) ==
  /\ c = [inode |-> c.inode, offset |-> c.offset, completed |-> c.completed]
  /\ c.completed \in Seq(Names \X Inodes)

Types ==
  /\ dir \in [Sources -> Inodes \cup {None}]
  /\ content \in [Inodes -> Seq(Nat)]
  /\ writer \in Inodes
  /\ logged \in Nat /\ rotations \in Nat
  /\ fd \in Inodes \cup {None}
  /\ name \in Names \cup {None} /\ (pc = "open" => name # None)
  /\ IsCheckpoint(ck) /\ IsCheckpoint(saved)

\* An inode has one name, and the firewall's file has one: the active name
\* if there is a file of that name.
OneName ==
  /\ \A s, t \in Sources : dir[s] # None /\ dir[s] = dir[t] => s = t
  /\ dir[Active] # None => dir[Active] = writer
  /\ \E s \in Sources : dir[s] = writer

\* No rotated name will be given again: it belongs to a rotation that was made,
\* and a compressed file has replaced its original.
Used(n) == n[1] <= rotations /\ (n[2] = "gz" => dir[<<n[1], "log">>] = None)

NamesAreUsed ==
  /\ \A n \in Names : dir[n] # None => Used(n)
  /\ \A m \in Marks : Used(m[1])
  /\ name # None => Used(name)

\* A line not settled is in a file that has a name.
Present ==
  \A l \in 1..logged : Settled(l) \/ \E s \in Sources : dir[s] # None /\ l \in LinesOf(dir[s])

\* What a file marked in memory or on disk holds is settled.
MarkedIsSettled ==
  \A n \in Names : dir[n] # None /\ <<n, dir[n]>> \in Marks =>
    \A l \in LinesOf(dir[n]) : Settled(l)

\* So is what has been read of the open rotated file, which the active name
\* never comes back to.
ReadIsSettled ==
  pc \in {"read", "mark"} =>
    /\ name # None /\ fd # None /\ fd # dir[Active]
    /\ pc = "read" => /\ at \in Nat /\ at <= Len(content[fd])
                      /\ \A k \in 1..at : Settled(content[fd][k])
    /\ pc = "mark" => (dir[name] = fd => \A l \in LinesOf(fd) : Settled(l))

IngestInv ==
  Types /\ OneName /\ NamesAreUsed /\ Present /\ MarkedIsSettled /\ ReadIsSettled

-----------------------------------------------------------------------------
(* Facts about the lists of completed files and about the lines. *)

\* The elements of a sequence after an Append.
LEMMA ElementsOfAppend ==
  ASSUME NEW S, NEW q \in Seq(S), NEW e \in S
  PROVE  /\ Append(q, e) \in Seq(S)
         /\ Len(Append(q, e)) = Len(q) + 1
         /\ Elements(Append(q, e)) = Elements(q) \cup {e}
<1>1. Append(q, e) \in Seq(S) /\ Len(Append(q, e)) = Len(q) + 1 /\ Len(q) \in Nat
  OBVIOUS
<1>2. \A i \in 1..Len(q) : Append(q, e)[i] = q[i]
  OBVIOUS
<1>3. Append(q, e)[Len(q) + 1] = e
  OBVIOUS
<1>4. 1..(Len(q) + 1) = 1..Len(q) \cup {Len(q) + 1}
  BY <1>1
<1> QED BY <1>1, <1>2, <1>3, <1>4 DEF Elements

\* The end of a list of marks is a list of marks, and holds no others.
LEMMA ElementsOfLast ==
  ASSUME NEW S, NEW q \in Seq(S), NEW k \in Nat \ {0}
  PROVE  LastOf(q, k) \in Seq(S) /\ Elements(LastOf(q, k)) \subseteq Elements(q)
<1>1. CASE Len(q) > k
  <2> DEFINE m == Len(q) - k + 1
  <2>1. m \in 1..Len(q) /\ Len(q) \in Nat
    BY <1>1
  <2>2. SubSeq(q, m, Len(q)) \in Seq(S) /\ Len(SubSeq(q, m, Len(q))) = k
    BY <2>1, <1>1
  <2>3. \A i \in 1..k : SubSeq(q, m, Len(q))[i] = q[m + i - 1] /\ m + i - 1 \in 1..Len(q)
    BY <2>1, <1>1
  <2>4. LastOf(q, k) = SubSeq(q, m, Len(q))
    BY <1>1 DEF LastOf
  <2> QED BY <2>2, <2>3, <2>4 DEF Elements
<1>2. CASE ~(Len(q) > k)
  BY <1>2 DEF LastOf
<1> QED BY <1>1, <1>2

\* The elements of a concatenation.
LEMMA ElementsOfConcat ==
  ASSUME NEW S, NEW a \in Seq(S), NEW b \in Seq(S)
  PROVE  Elements(a \o b) = Elements(a) \cup Elements(b)
<1>1. Len(a) \in Nat /\ Len(b) \in Nat /\ Len(a \o b) = Len(a) + Len(b)
  OBVIOUS
<1>2. /\ \A i \in 1..Len(a) : (a \o b)[i] = a[i] /\ i \in 1..(Len(a) + Len(b))
      /\ \A i \in 1..Len(b) : (a \o b)[Len(a) + i] = b[i] /\ Len(a) + i \in 1..(Len(a) + Len(b))
  OBVIOUS
<1>3. \A i \in 1..(Len(a) + Len(b)) : i \in 1..Len(a) \/ \E j \in 1..Len(b) : i = Len(a) + j
  <2> SUFFICES ASSUME NEW i \in 1..(Len(a) + Len(b)), i \notin 1..Len(a)
               PROVE  \E j \in 1..Len(b) : i = Len(a) + j
    OBVIOUS
  <2>1. i - Len(a) \in 1..Len(b) /\ i = Len(a) + (i - Len(a))
    BY <1>1
  <2> QED BY <2>1
<1>4. Elements(a \o b) \subseteq Elements(a) \cup Elements(b)
  <2> SUFFICES ASSUME NEW i \in 1..(Len(a) + Len(b))
               PROVE  (a \o b)[i] \in Elements(a) \cup Elements(b)
    BY <1>1 DEF Elements
  <2> QED BY <1>2, <1>3 DEF Elements
<1>5. Elements(a) \cup Elements(b) \subseteq Elements(a \o b)
  BY <1>1, <1>2 DEF Elements
<1> QED BY <1>4, <1>5

\* A mark is in one of the two lists.
LEMMA MarksAreTheTwoLists ==
  ASSUME IsCheckpoint(ck), IsCheckpoint(saved)
  PROVE  Marks = Elements(ck.completed \o saved.completed)
<1>1. ck.completed \in Seq(Names \X Inodes) /\ saved.completed \in Seq(Names \X Inodes)
  BY DEF IsCheckpoint
<1> QED BY <1>1, ElementsOfConcat DEF Marks

\* A mark is a pair of a rotated name and an inode.
LEMMA MarksAreNamed ==
  ASSUME IsCheckpoint(ck), IsCheckpoint(saved)
  PROVE  \A m \in Marks : m[1] \in Names /\ m[2] \in Inodes
<1>1. \A c : IsCheckpoint(c) => \A i \in 1..Len(c.completed) : c.completed[i] \in Names \X Inodes
  BY DEF IsCheckpoint
<1> QED BY <1>1 DEF Marks, Elements

\* The active name is not a rotated one, and an inode has a number.
LEMMA NamesAndInodes ==
  /\ Active \notin Names /\ Active \in Sources /\ Names \subseteq Sources
  /\ 1 \in Inodes /\ None \notin Inodes /\ None \notin Names /\ MaxRotations \in Nat
  /\ \A n \in Names : n[1] \in Nat /\ n[1] > 0 /\ n[2] \in {"log", "gz"} /\ n = <<n[1], n[2]>>
  /\ \A r \in 1..MaxRotations : <<r, "log">> \in Names /\ <<r, "gz">> \in Names
BY IngestAssumption DEF Active, Names, Sources

\* Whatever the disk does, what was settled stays settled, and so is the line
\* that was handled.
LEMMA WriteSettles ==
  ASSUME NEW l, NEW src, Write(l, src)
  PROVE  Settled(l)' /\ \A k : Settled(k) => Settled(k)'
BY DEF Write, Settled

\* A step that leaves the files alone keeps the invariant if it marks nothing
\* and the open file is still as it was read.
LEMMA FilesUntouched ==
  ASSUME IngestInv, Types', ReadIsSettled', UNCHANGED <<dir, content, writer, logged, rotations>>,
         Elements(ck'.completed) \cup Elements(saved'.completed) \subseteq Marks,
         name' \in {name, None} \/ Used(name'),
         \A l : Settled(l) => Settled(l)'
  PROVE  IngestInv'
<1>1. OneName' /\ Present'
  BY DEF IngestInv, OneName, Present, LinesOf
<1>2. \A n : Used(n)' <=> Used(n)
  BY DEF Used
<1>3. NamesAreUsed'
  BY <1>2 DEF IngestInv, NamesAreUsed, Marks
<1>4. MarkedIsSettled'
  BY DEF IngestInv, MarkedIsSettled, Marks, LinesOf
<1> QED BY <1>1, <1>3, <1>4 DEF IngestInv

-----------------------------------------------------------------------------
(* The firewall and logrotate. *)

\* A new line is in the writer's file; in a file already read, it is too late.
LEMMA LogKeeps == IngestInv /\ Log => IngestInv'
<1> SUFFICES ASSUME IngestInv, Log PROVE IngestInv'
  OBVIOUS
<1> USE NamesAndInodes
<1> DEFINE l == logged + 1
<1>1. /\ Types /\ writer \in Inodes /\ content[writer] \in Seq(Nat) /\ l \in Nat
      /\ UNCHANGED <<dir, writer, rotations, pc, name, fd, at, ck, saved, out>>
      /\ logged' = l /\ content' = [content EXCEPT ![writer] = Append(@, l)]
      /\ lost' = IF AlreadyRead(writer) THEN lost \cup {l} ELSE lost
  BY DEF IngestInv, Types, Log, readVars
<1>2. /\ content'[writer] = Append(content[writer], l)
      /\ \A i \in Inodes \ {writer} : content'[i] = content[i]
      /\ content' \in [Inodes -> Seq(Nat)]
  <2>1. Append(content[writer], l) \in Seq(Nat)
    BY <1>1, ElementsOfAppend
  <2> QED BY <2>1, <1>1 DEF Types
<1>3. /\ Elements(content'[writer]) = LinesOf(writer) \cup {l}
      /\ \A i \in Inodes \ {writer} : Elements(content'[i]) = LinesOf(i)
  BY <1>1, <1>2, ElementsOfAppend DEF LinesOf
<1>4. \A k : Settled(k) => Settled(k)'
  BY <1>1 DEF Settled
<1>5. Types'
  BY <1>1, <1>2 DEF Types
<1>6. OneName' /\ NamesAreUsed'
  BY <1>1 DEF IngestInv, OneName, NamesAreUsed, Used, Marks
<1>7. Present'
  <2> SUFFICES ASSUME NEW k \in 1..l, ~Settled(k)'
               PROVE  \E s \in Sources : dir[s] # None /\ k \in Elements(content'[dir[s]])
    BY <1>1 DEF Present, LinesOf
  <2>1. CASE k = l
    BY <2>1, <1>1, <1>3 DEF IngestInv, OneName
  <2>2. CASE k # l
    <3>1. k \in 1..logged /\ ~Settled(k)
      BY <2>2, <1>1, <1>4 DEF Types
    <3>2. PICK s \in Sources : dir[s] # None /\ k \in LinesOf(dir[s])
      BY <3>1 DEF IngestInv, Present
    <3>3. dir[s] \in Inodes
      BY <3>2, <1>1 DEF Types
    <3> QED BY <3>2, <3>3, <1>3
  <2> QED BY <2>1, <2>2
<1>8. MarkedIsSettled'
  <2> SUFFICES ASSUME NEW n \in Names, dir[n] # None, <<n, dir[n]>> \in Marks,
                      NEW k \in Elements(content'[dir[n]])
               PROVE  Settled(k)'
    BY <1>1 DEF MarkedIsSettled, Marks, LinesOf
  <2>1. dir[n] \in Inodes /\ (k \in LinesOf(dir[n]) => Settled(k)')
    BY <1>1, <1>4 DEF Types, IngestInv, MarkedIsSettled
  <2>2. CASE k \in LinesOf(dir[n])
    BY <2>1, <2>2
  <2>3. CASE k \notin LinesOf(dir[n])
    <3>1. dir[n] = writer /\ k = l
      BY <2>1, <2>3, <1>3
    <3>2. <<n, dir[n]>> \in Elements(ck.completed \o saved.completed)
      BY <1>1, MarksAreTheTwoLists DEF Types
    <3>3. AlreadyRead(writer)
      BY <3>1, <3>2 DEF AlreadyRead
    <3> QED BY <3>1, <3>3, <1>1 DEF Settled
  <2> QED BY <2>2, <2>3
<1>9. ReadIsSettled'
  <2> SUFFICES ASSUME pc \in {"read", "mark"}
               PROVE  /\ name # None /\ fd # None /\ fd # dir[Active]
                      /\ pc = "read" => /\ at \in Nat /\ at <= Len(content'[fd])
                                        /\ \A k \in 1..at : content'[fd][k] \in out' \cup lost'
                      /\ pc = "mark" => (dir[name] = fd =>
                                           \A k \in Elements(content'[fd]) : Settled(k)')
    BY <1>1 DEF ReadIsSettled, LinesOf, Settled
  <2>1. name # None /\ fd # None /\ fd # dir[Active] /\ fd \in Inodes /\ name \in Names
    BY <1>1 DEF IngestInv, ReadIsSettled, Types
  <2>2. ASSUME pc = "read"
        PROVE  /\ at \in Nat /\ at <= Len(content'[fd])
               /\ \A k \in 1..at : content'[fd][k] \in out' \cup lost'
    <3>1. /\ at \in Nat /\ at <= Len(content[fd]) /\ content[fd] \in Seq(Nat)
          /\ \A k \in 1..at : Settled(content[fd][k])
      BY <2>1, <2>2, <1>1 DEF IngestInv, ReadIsSettled, Types
    <3>2. /\ Len(content'[fd]) >= Len(content[fd])
          /\ \A k \in 1..Len(content[fd]) : content'[fd][k] = content[fd][k]
      <4>1. CASE fd = writer
        BY <4>1, <1>1, <1>2, <3>1
      <4>2. CASE fd # writer
        BY <4>2, <2>1, <1>2, <3>1
      <4> QED BY <4>1, <4>2
    <3>3. Len(content[fd]) \in Nat /\ Len(content'[fd]) \in Nat
      BY <2>1, <1>2, <3>1
    <3>4. at <= Len(content'[fd])
      BY <3>1, <3>2, <3>3
    <3>5. \A k \in 1..at : content'[fd][k] = content[fd][k]
      BY <3>1, <3>2, <3>3
    <3>6. \A k \in 1..at : content'[fd][k] \in out' \cup lost'
      BY <3>1, <3>5, <1>4 DEF Settled
    <3> QED BY <3>1, <3>4, <3>6
  <2>3. ASSUME pc = "mark", dir[name] = fd, NEW k \in Elements(content'[fd])
        PROVE  Settled(k)'
    <3>1. k \in LinesOf(fd) => Settled(k)'
      BY <2>3, <1>4 DEF IngestInv, ReadIsSettled
    <3>2. CASE k \notin LinesOf(fd)
      <4>1. fd = writer /\ k = l
        BY <3>2, <2>1, <2>3, <1>3
      <4>2. AlreadyRead(writer)
        BY <4>1, <2>1, <2>3 DEF AlreadyRead
      <4> QED BY <4>1, <4>2, <1>1 DEF Settled
    <3> QED BY <3>1, <3>2
  <2> QED BY <2>1, <2>2, <2>3
<1> QED BY <1>5, <1>6, <1>7, <1>8, <1>9 DEF IngestInv

\* The renamed file has a name no mark has; the lines stay where they are.
LEMMA RotateKeeps == IngestInv /\ Rotate => IngestInv'
<1> SUFFICES ASSUME IngestInv, Rotate PROVE IngestInv'
  OBVIOUS
<1> USE NamesAndInodes
<1>0. PICK new : new = <<rotations + 1, "log">>
  OBVIOUS
<1>1. /\ Types /\ rotations \in Nat /\ rotations + 1 \in 1..MaxRotations
      /\ dir[Active] # None /\ dir[Active] = writer
      /\ rotations' = rotations + 1
      /\ dir' = [dir EXCEPT ![Active] = None, ![new] = dir[Active]]
      /\ UNCHANGED <<content, writer, logged, pc, name, fd, at, ck, saved, out, lost>>
  BY <1>0 DEF IngestInv, Types, OneName, Rotate, readVars, outVars
<1>2. new \in Names /\ new # Active /\ new[1] = rotations + 1 /\ new[2] = "log"
  BY <1>0, <1>1
<1>3. /\ dir'[Active] = None /\ dir'[new] = writer
      /\ \A s \in Sources \ {Active, new} : dir'[s] = dir[s]
  BY <1>1, <1>2 DEF Types
<1>4. \A n : Used(n) /\ n \in Names => n # new /\ Used(n)'
  <2> SUFFICES ASSUME NEW n \in Names, Used(n) PROVE n # new /\ Used(n)'
    OBVIOUS
  <2>1. n # new /\ n[1] <= rotations /\ n[1] \in 1..MaxRotations
    BY <1>1, <1>2 DEF Used, Names
  <2>2. <<n[1], "log">> \in Names /\ <<n[1], "log">> # new /\ <<n[1], "log">> # Active
    <3>1. <<n[1], "log">> \in Names
      BY <2>1
    <3>2. <<n[1], "log">>[1] # new[1]
      BY <2>1, <1>1, <1>2
    <3> QED BY <3>1, <3>2
  <2>3. dir'[<<n[1], "log">>] = dir[<<n[1], "log">>]
    BY <2>2, <1>3
  <2> QED BY <2>1, <2>3, <1>1 DEF Used
<1>5. Types'
  BY <1>1, <1>2 DEF Types
<1>6. dir[new] = None /\ \A i : <<new, i>> \notin Marks
  <2>1. ~Used(new)
    BY <1>1, <1>2 DEF Used
  <2>2. \A i : <<new, i>>[1] = new
    OBVIOUS
  <2> QED BY <2>1, <2>2, <1>2 DEF IngestInv, NamesAreUsed
<1>7. OneName'
  <2>1. \A s \in Sources \ {Active, new} : dir'[s] # None => dir'[s] # writer
    BY <1>1, <1>3 DEF IngestInv, OneName
  <2>2. \A s, t \in Sources : dir'[s] # None /\ dir'[s] = dir'[t] => s = t
    BY <2>1, <1>3 DEF IngestInv, OneName
  <2>3. \E s \in Sources : dir'[s] = writer
    BY <1>2, <1>3
  <2> QED BY <2>2, <2>3, <1>1, <1>3 DEF OneName
<1>8. NamesAreUsed'
  <2>1. Used(new)'
    BY <1>1, <1>2 DEF Used
  <2>2. \A n \in Names : dir'[n] # None => Used(n)'
    BY <2>1, <1>2, <1>3, <1>4 DEF IngestInv, NamesAreUsed
  <2>3. \A m \in Marks : m[1] \in Names
    BY <1>1, MarksAreNamed DEF Types
  <2>4. (\A m \in Marks : Used(m[1])') /\ Marks' = Marks
    BY <2>3, <1>1, <1>4 DEF IngestInv, NamesAreUsed, Marks
  <2>5. name # None => Used(name)'
    BY <1>1, <1>4 DEF IngestInv, NamesAreUsed, Types
  <2> QED BY <2>2, <2>4, <2>5, <1>1 DEF NamesAreUsed
<1>9. Present' /\ MarkedIsSettled'
  <2>1. \A i : LinesOf(i)' = LinesOf(i)
    BY <1>1 DEF LinesOf
  <2>2. \A k : Settled(k)' <=> Settled(k)
    BY <1>1 DEF Settled
  <2>3. Present'
    <3> SUFFICES ASSUME NEW k \in 1..logged, ~Settled(k)
                 PROVE  \E s \in Sources : dir'[s] # None /\ k \in LinesOf(dir'[s])
      BY <2>1, <2>2, <1>1 DEF Present, LinesOf
    <3>1. PICK s \in Sources : dir[s] # None /\ k \in LinesOf(dir[s])
      BY DEF IngestInv, Present
    <3>2. CASE s = Active
      BY <3>1, <3>2, <1>1, <1>2, <1>3
    <3>3. CASE s # Active
      BY <3>1, <3>3, <1>3, <1>6
    <3> QED BY <3>2, <3>3
  <2>4. Marks' = Marks
    BY <1>1 DEF Marks
  <2>5. MarkedIsSettled'
    BY <2>1, <2>2, <2>4, <1>2, <1>3, <1>6 DEF IngestInv, MarkedIsSettled
  <2> QED BY <2>3, <2>5
<1>10. ReadIsSettled'
  <2>1. name # None => name \in Names /\ name # new /\ name # Active
    BY <1>1, <1>4 DEF IngestInv, NamesAreUsed, Types
  <2>2. name # None => dir'[name] = dir[name]
    BY <2>1, <1>3
  <2> QED BY <2>2, <1>1, <1>3 DEF IngestInv, ReadIsSettled, LinesOf, Settled
<1> QED BY <1>5, <1>7, <1>8, <1>9, <1>10 DEF IngestInv

\* The inode of a new file is in no file's place: not the writer's, not the open
\* one, and under no name.
LEMMA FreeIsUnused ==
  ASSUME NEW i \in Inodes, Free(i)
  PROVE  i # fd /\ i # writer /\ \A s \in Sources : dir[s] # i
BY DEF Free, InUse

\* The new active file is empty, and its inode was nobody's.
LEMMA ReopenKeeps == IngestInv /\ Reopen => IngestInv'
<1> SUFFICES ASSUME IngestInv, Reopen PROVE IngestInv'
  OBVIOUS
<1> USE NamesAndInodes
<1>1. PICK i \in Inodes :
        /\ Free(i) /\ dir[Active] = None
        /\ dir' = [dir EXCEPT ![Active] = i] /\ content' = [content EXCEPT ![i] = <<>>]
        /\ writer' = i
        /\ UNCHANGED <<logged, rotations, pc, name, fd, at, ck, saved, out, lost>>
  BY DEF Reopen, readVars, outVars
<1>2. i # fd /\ i # writer /\ (\A s \in Sources : dir[s] # i) /\ i # None
  BY <1>1, FreeIsUnused
<1>3. /\ Types
      /\ dir'[Active] = i /\ \A s \in Sources \ {Active} : dir'[s] = dir[s]
      /\ \A s \in Names : s \in Sources \ {Active}
      /\ \A j \in Inodes \ {i} : content'[j] = content[j]
  BY <1>1 DEF IngestInv, Types
<1>4. Types'
  BY <1>1, <1>3 DEF Types
<1>5. OneName'
  <2>1. \A s, t \in Sources : dir'[s] # None /\ dir'[s] = dir'[t] => s = t
    BY <1>2, <1>3 DEF IngestInv, OneName
  <2> QED BY <2>1, <1>1, <1>3 DEF OneName
<1>6. NamesAreUsed' /\ Marks' = Marks
  <2>1. \A n \in Names : Used(n) => Used(n)'
    <3> SUFFICES ASSUME NEW n \in Names, Used(n) PROVE Used(n)'
      OBVIOUS
    <3>1. <<n[1], "log">> \in Names
      BY <1>3 DEF Names
    <3> QED BY <3>1, <1>1, <1>3 DEF Used
  <2>2. \A m \in Marks : m[1] \in Names
    BY <1>3, MarksAreNamed DEF Types
  <2>3. Marks' = Marks
    BY <1>1 DEF Marks
  <2>4. \A n \in Names : dir'[n] # None => Used(n)'
    BY <2>1, <1>3 DEF IngestInv, NamesAreUsed
  <2>5. \A m \in Marks : Used(m[1])'
    BY <2>1, <2>2 DEF IngestInv, NamesAreUsed
  <2>6. name # None => Used(name)'
    BY <2>1, <1>1, <1>3 DEF IngestInv, NamesAreUsed, Types
  <2> QED BY <2>3, <2>4, <2>5, <2>6, <1>1 DEF NamesAreUsed
<1>7. \A k : Settled(k)' <=> Settled(k)
  BY <1>1 DEF Settled
<1>8. \A s \in Sources : dir[s] # None => /\ s # Active /\ dir'[s] = dir[s]
                                          /\ Elements(content'[dir[s]]) = LinesOf(dir[s])
  BY <1>1, <1>2, <1>3 DEF Types, LinesOf
<1>9. Present'
  BY <1>1, <1>7, <1>8 DEF IngestInv, Present, LinesOf
<1>10. MarkedIsSettled'
  BY <1>3, <1>6, <1>7, <1>8 DEF IngestInv, MarkedIsSettled, LinesOf
<1>11. ReadIsSettled'
  <2>1. name # None => dir'[name] = dir[name]
    BY <1>3 DEF Types
  <2>2. fd # None => content'[fd] = content[fd]
    BY <1>2, <1>3 DEF Types
  <2> QED BY <2>1, <2>2, <1>1, <1>2, <1>3 DEF IngestInv, ReadIsSettled, LinesOf, Settled
<1> QED BY <1>4, <1>5, <1>6, <1>9, <1>10, <1>11 DEF IngestInv

\* The copy has the lines of the active file, under a name no mark has.
LEMMA CopyTruncateKeeps == IngestInv /\ CopyTruncate => IngestInv'
<1> SUFFICES ASSUME IngestInv, CopyTruncate PROVE IngestInv'
  OBVIOUS
<1> USE NamesAndInodes
<1>0. PICK new : new = <<rotations + 1, "log">>
  OBVIOUS
<1>1. PICK i \in Inodes :
        /\ Free(i) /\ dir[Active] # None /\ rotations < MaxRotations
        /\ rotations' = rotations + 1
        /\ dir' = [dir EXCEPT ![new] = i]
        /\ content' = [content EXCEPT ![i] = content[dir[Active]], ![dir[Active]] = <<>>]
        /\ UNCHANGED <<logged, writer, pc, name, fd, at, ck, saved, out, lost>>
  BY <1>0 DEF CopyTruncate, readVars, outVars
<1>2. i # fd /\ i # writer /\ (\A s \in Sources : dir[s] # i) /\ i # None
  BY <1>1, FreeIsUnused
<1>3. /\ Types /\ rotations \in Nat /\ dir[Active] = writer /\ writer \in Inodes
      /\ rotations + 1 \in 1..MaxRotations
  BY <1>1 DEF IngestInv, OneName, Types
<1>4. new \in Names /\ new # Active /\ new[1] = rotations + 1 /\ new[2] = "log"
  BY <1>0, <1>3
<1>5. /\ dir'[new] = i /\ \A s \in Sources \ {new} : dir'[s] = dir[s]
      /\ content'[i] = content[writer]
      /\ \A j \in Inodes \ {i, writer} : content'[j] = content[j]
      /\ content' \in [Inodes -> Seq(Nat)]
  <2>1. dir \in [Sources -> Inodes \cup {None}] /\ content \in [Inodes -> Seq(Nat)]
    BY <1>3 DEF Types
  <2>2. content' = [content EXCEPT ![i] = content[writer], ![writer] = <<>>] /\ i # writer
    BY <1>1, <1>2, <1>3
  <2>3. content[writer] \in Seq(Nat) /\ <<>> \in Seq(Nat)
    BY <2>1, <1>3
  <2>4. content' \in [Inodes -> Seq(Nat)]
    BY <2>1, <2>2, <2>3, <1>3
  <2>5. content'[i] = content[writer] /\ \A j \in Inodes \ {i, writer} : content'[j] = content[j]
    BY <2>1, <2>2, <1>3
  <2>6. dir'[new] = i /\ \A s \in Sources \ {new} : dir'[s] = dir[s]
    BY <2>1, <1>1, <1>4
  <2> QED BY <2>4, <2>5, <2>6
<1>6. Types'
  BY <1>1, <1>3, <1>4, <1>5 DEF Types
<1>7. \A n \in Names : Used(n) => n # new /\ Used(n)'
  <2> SUFFICES ASSUME NEW n \in Names, Used(n) PROVE n # new /\ Used(n)'
    OBVIOUS
  <2>1. n # new /\ n[1] <= rotations /\ n[1] \in 1..MaxRotations
    BY <1>3, <1>4 DEF Used, Names
  <2>2. <<n[1], "log">> \in Names
    BY <2>1
  <2>3. <<n[1], "log">>[1] # new[1]
    BY <2>1, <1>3, <1>4
  <2>4. dir'[<<n[1], "log">>] = dir[<<n[1], "log">>]
    BY <2>2, <2>3, <1>5
  <2> QED BY <2>1, <2>4, <1>1, <1>3 DEF Used
<1>8. dir[new] = None /\ \A j : <<new, j>> \notin Marks
  <2>1. ~Used(new)
    BY <1>3, <1>4 DEF Used
  <2>2. \A j : <<new, j>>[1] = new
    OBVIOUS
  <2> QED BY <2>1, <2>2, <1>4 DEF IngestInv, NamesAreUsed
<1>9. OneName'
  <2>1. \A s, t \in Sources : dir'[s] # None /\ dir'[s] = dir'[t] => s = t
    BY <1>2, <1>5 DEF IngestInv, OneName
  <2>2. dir'[Active] = writer
    BY <1>3, <1>4, <1>5
  <2> QED BY <2>1, <2>2, <1>1 DEF OneName
<1>10. NamesAreUsed' /\ Marks' = Marks
  <2>1. Used(new)'
    BY <1>1, <1>3, <1>4 DEF Used
  <2>2. \A n \in Names : dir'[n] # None => Used(n)'
    BY <2>1, <1>4, <1>5, <1>7 DEF IngestInv, NamesAreUsed
  <2>3. \A m \in Marks : m[1] \in Names
    BY <1>3, MarksAreNamed DEF Types
  <2>4. Marks' = Marks
    BY <1>1 DEF Marks
  <2>5. \A m \in Marks : Used(m[1])'
    BY <2>3, <1>7 DEF IngestInv, NamesAreUsed
  <2>6. name # None => Used(name)'
    BY <1>1, <1>3, <1>7 DEF IngestInv, NamesAreUsed, Types
  <2> QED BY <2>2, <2>4, <2>5, <2>6, <1>1 DEF NamesAreUsed
<1>11. \A k : Settled(k)' <=> Settled(k)
  BY <1>1 DEF Settled
<1>12. \A s \in Sources : dir[s] # None /\ s # Active =>
         /\ dir'[s] = dir[s] /\ Elements(content'[dir[s]]) = LinesOf(dir[s])
  <2> SUFFICES ASSUME NEW s \in Sources, dir[s] # None, s # Active
               PROVE  dir'[s] = dir[s] /\ content'[dir[s]] = content[dir[s]]
    BY DEF LinesOf
  <2>1. s # new /\ dir[s] \in Inodes /\ dir[s] # writer /\ dir[s] # i
    BY <1>2, <1>3, <1>8 DEF Types, IngestInv, OneName
  <2> QED BY <2>1, <1>5
<1>13. Present'
  <2> SUFFICES ASSUME NEW k \in 1..logged, ~Settled(k)
               PROVE  \E s \in Sources : dir'[s] # None /\ k \in Elements(content'[dir'[s]])
    BY <1>1, <1>11 DEF Present, LinesOf
  <2>1. PICK s \in Sources : dir[s] # None /\ k \in LinesOf(dir[s])
    BY DEF IngestInv, Present
  <2>2. CASE s = Active
    BY <2>1, <2>2, <1>2, <1>3, <1>4, <1>5 DEF LinesOf
  <2>3. CASE s # Active
    BY <2>1, <2>3, <1>12
  <2> QED BY <2>2, <2>3
<1>14. MarkedIsSettled'
  <2> SUFFICES ASSUME NEW n \in Names, dir'[n] # None, <<n, dir'[n]>> \in Marks,
                      NEW k \in Elements(content'[dir'[n]])
               PROVE  Settled(k)
    BY <1>10, <1>11 DEF MarkedIsSettled, LinesOf
  <2>1. n # new /\ n # Active /\ dir'[n] = dir[n]
    BY <1>5, <1>8
  <2> QED BY <2>1, <1>12 DEF IngestInv, MarkedIsSettled
<1>15. ReadIsSettled'
  <2>1. name # None => name # new /\ name \in Names /\ name # Active
    BY <1>3, <1>7 DEF IngestInv, NamesAreUsed, Types
  <2>2. name # None => dir'[name] = dir[name]
    BY <2>1, <1>5
  <2>3. fd # None /\ fd # dir[Active] => content'[fd] = content[fd]
    BY <1>2, <1>3, <1>5 DEF Types
  <2>4. dir'[Active] = dir[Active]
    BY <1>4, <1>5
  <2> QED BY <2>2, <2>3, <2>4, <1>1 DEF IngestInv, ReadIsSettled, LinesOf, Settled
<1> QED BY <1>6, <1>9, <1>10, <1>13, <1>14, <1>15 DEF IngestInv

\* The compressed file takes the lines of its original and the place that only
\* it can have: nothing marked has its name.
LEMMA CompressKeeps ==
  ASSUME IngestInv, NEW r \in 1..MaxRotations, Compress(r) PROVE IngestInv'
<1> USE NamesAndInodes
<1>0. PICK log, gz : log = <<r, "log">> /\ gz = <<r, "gz">>
  OBVIOUS
<1>1. PICK i \in Inodes :
        /\ Free(i) /\ dir[log] # None /\ dir[log] # writer
        /\ dir' = [dir EXCEPT ![log] = None, ![gz] = i]
        /\ content' = [content EXCEPT ![i] = content[dir[log]]]
        /\ UNCHANGED <<logged, rotations, writer, pc, name, fd, at, ck, saved, out, lost>>
  BY <1>0 DEF Compress, readVars, outVars
<1>2. i # fd /\ i # writer /\ (\A s \in Sources : dir[s] # i) /\ i # None
  BY <1>1, FreeIsUnused
<1>3. /\ log \in Names /\ gz \in Names /\ log # gz /\ log # Active /\ gz # Active
      /\ log[1] = r /\ log[2] = "log" /\ gz[1] = r /\ gz[2] = "gz"
  BY <1>0
<1>4. Types /\ rotations \in Nat /\ dir[log] \in Inodes
  BY <1>1, <1>3 DEF IngestInv, Types
<1>5. /\ dir'[log] = None /\ dir'[gz] = i
      /\ \A s \in Sources \ {log, gz} : dir'[s] = dir[s]
      /\ content'[i] = content[dir[log]]
      /\ \A j \in Inodes \ {i} : content'[j] = content[j]
      /\ content' \in [Inodes -> Seq(Nat)]
  <2>1. dir \in [Sources -> Inodes \cup {None}] /\ content \in [Inodes -> Seq(Nat)]
    BY <1>4 DEF Types
  <2>2. content[dir[log]] \in Seq(Nat)
    BY <2>1, <1>4
  <2> QED BY <2>1, <2>2, <1>1, <1>3
<1>6. Types'
  BY <1>1, <1>3, <1>4, <1>5 DEF Types
<1>7. Used(log) /\ ~Used(gz) /\ dir[gz] = None /\ (name # None => name # gz)
      /\ \A j : <<gz, j>> \notin Marks
  <2>1. Used(log)
    BY <1>1, <1>3 DEF IngestInv, NamesAreUsed
  <2>2. ~Used(gz)
    BY <1>0, <1>1, <1>3 DEF Used
  <2>3. \A j : <<gz, j>>[1] = gz
    OBVIOUS
  <2> QED BY <2>1, <2>2, <2>3, <1>3 DEF IngestInv, NamesAreUsed
<1>8. \A n \in Names : Used(n) => Used(n)'
  <2> SUFFICES ASSUME NEW n \in Names, Used(n) PROVE Used(n)'
    OBVIOUS
  <2>1. <<n[1], "log">> \in Names /\ <<n[1], "log">>[2] # gz[2]
    BY <1>3 DEF Names
  <2>2. dir[<<n[1], "log">>] = None => dir'[<<n[1], "log">>] = None
    BY <2>1, <1>5
  <2> QED BY <2>2, <1>1 DEF Used
<1>9. OneName'
  <2>1. \A s, t \in Sources : dir'[s] # None /\ dir'[s] = dir'[t] => s = t
    BY <1>2, <1>5 DEF IngestInv, OneName
  <2>2. PICK s \in Sources : dir[s] = writer
    BY DEF IngestInv, OneName
  <2>3. s # log /\ s # gz
    BY <2>2, <1>1, <1>4, <1>7 DEF Types
  <2>4. dir'[s] = writer /\ dir'[Active] = dir[Active]
    BY <2>2, <2>3, <1>3, <1>5
  <2> QED BY <2>1, <2>4, <1>1 DEF IngestInv, OneName
<1>10. NamesAreUsed' /\ Marks' = Marks
  <2>1. Used(gz)'
    BY <1>0, <1>1, <1>3, <1>5, <1>7 DEF Used
  <2>2. \A n \in Names : dir'[n] # None => Used(n)'
    BY <2>1, <1>3, <1>5, <1>8 DEF IngestInv, NamesAreUsed
  <2>3. \A m \in Marks : m[1] \in Names
    BY <1>4, MarksAreNamed DEF Types
  <2>4. Marks' = Marks
    BY <1>1 DEF Marks
  <2>5. \A m \in Marks : Used(m[1])'
    BY <2>3, <1>8 DEF IngestInv, NamesAreUsed
  <2>6. name # None => Used(name)'
    BY <1>1, <1>4, <1>8 DEF IngestInv, NamesAreUsed, Types
  <2> QED BY <2>2, <2>4, <2>5, <2>6, <1>1 DEF NamesAreUsed
<1>11. \A k : Settled(k)' <=> Settled(k)
  BY <1>1 DEF Settled
<1>12. \A s \in Sources : dir[s] # None /\ s # log =>
         dir'[s] = dir[s] /\ content'[dir[s]] = content[dir[s]]
  BY <1>2, <1>4, <1>5, <1>7 DEF Types
<1>13. Present'
  <2> SUFFICES ASSUME NEW k \in 1..logged, ~Settled(k)
               PROVE  \E s \in Sources : dir'[s] # None /\ k \in Elements(content'[dir'[s]])
    BY <1>1, <1>11 DEF Present, LinesOf
  <2>1. PICK s \in Sources : dir[s] # None /\ k \in Elements(content[dir[s]])
    BY DEF IngestInv, Present, LinesOf
  <2>2. CASE s = log
    BY <2>1, <2>2, <1>2, <1>3, <1>5
  <2>3. CASE s # log
    BY <2>1, <2>3, <1>12
  <2> QED BY <2>2, <2>3
<1>14. MarkedIsSettled'
  <2> SUFFICES ASSUME NEW n \in Names, dir'[n] # None, <<n, dir'[n]>> \in Marks,
                      NEW k \in Elements(content'[dir'[n]])
               PROVE  Settled(k)
    BY <1>10, <1>11 DEF MarkedIsSettled, LinesOf
  <2>1. n # gz /\ n # log
    BY <1>5, <1>7
  <2>2. dir'[n] = dir[n] /\ content'[dir[n]] = content[dir[n]]
    BY <2>1, <1>5, <1>12
  <2> QED BY <2>2 DEF IngestInv, MarkedIsSettled, LinesOf
<1>15. ReadIsSettled'
  <2>1. fd # None => content'[fd] = content[fd] /\ dir'[Active] = dir[Active]
    BY <1>2, <1>3, <1>4, <1>5 DEF Types
  <2>2. name # None /\ fd # None /\ dir'[name] = fd => dir[name] = fd
    BY <1>2, <1>4, <1>5, <1>7 DEF Types
  <2> QED BY <2>1, <2>2, <1>1 DEF IngestInv, ReadIsSettled, LinesOf, Settled
<1> QED BY <1>6, <1>9, <1>10, <1>13, <1>14, <1>15 DEF IngestInv

\* The lines that go with a file are written, or lost from now on.
LEMMA DeleteKeeps ==
  ASSUME IngestInv, NEW n \in Names, Delete(n) PROVE IngestInv'
<1> USE NamesAndInodes
<1>1. /\ Types /\ dir[n] # None /\ dir[n] # writer /\ dir[n] \in Inodes
      /\ dir' = [dir EXCEPT ![n] = None]
      /\ lost' = lost \cup (LinesOf(dir[n]) \ out)
      /\ content' = IF fd = dir[n] THEN content ELSE [content EXCEPT ![dir[n]] = <<>>]
      /\ UNCHANGED <<logged, rotations, writer, pc, name, fd, at, ck, saved, out>>
  BY DEF IngestInv, Types, Delete, readVars
<1>2. /\ dir'[n] = None /\ \A s \in Sources \ {n} : dir'[s] = dir[s]
      /\ n # Active /\ n \in Sources
      /\ \A j \in Inodes \ {dir[n]} : content'[j] = content[j]
      /\ fd # None => content'[fd] = content[fd]
  BY <1>1 DEF Types
<1>3. content' \in [Inodes -> Seq(Nat)]
  <2>1. content \in [Inodes -> Seq(Nat)] /\ <<>> \in Seq(Nat)
    BY <1>1 DEF Types
  <2> QED BY <2>1, <1>1
<1>4. Types'
  BY <1>1, <1>3 DEF Types
<1>5. \A k : Settled(k) \/ k \in LinesOf(dir[n]) => Settled(k)'
  BY <1>1 DEF Settled
<1>6. \A m \in Names : Used(m) => Used(m)'
  <2> SUFFICES ASSUME NEW m \in Names, Used(m) PROVE Used(m)'
    OBVIOUS
  <2>1. <<m[1], "log">> \in Names
    BY DEF Names
  <2>2. dir[<<m[1], "log">>] = None => dir'[<<m[1], "log">>] = None
    BY <2>1, <1>2
  <2> QED BY <2>2, <1>1 DEF Used
<1>7. OneName'
  <2>1. \A s, t \in Sources : dir'[s] # None /\ dir'[s] = dir'[t] => s = t
    BY <1>2 DEF IngestInv, OneName
  <2>2. PICK s \in Sources : dir[s] = writer
    BY DEF IngestInv, OneName
  <2>3. dir'[s] = writer /\ dir'[Active] = dir[Active]
    BY <2>2, <1>1, <1>2
  <2> QED BY <2>1, <2>3, <1>1 DEF IngestInv, OneName
<1>8. NamesAreUsed' /\ Marks' = Marks
  <2>1. \A m \in Names : dir'[m] # None => Used(m)'
    BY <1>2, <1>6 DEF IngestInv, NamesAreUsed
  <2>2. \A m \in Marks : m[1] \in Names
    BY <1>1, MarksAreNamed DEF Types
  <2>3. Marks' = Marks
    BY <1>1 DEF Marks
  <2>4. \A m \in Marks : Used(m[1])'
    BY <2>2, <1>6 DEF IngestInv, NamesAreUsed
  <2>5. name # None => Used(name)'
    BY <1>1, <1>6 DEF IngestInv, NamesAreUsed, Types
  <2> QED BY <2>1, <2>3, <2>4, <2>5, <1>1 DEF NamesAreUsed
<1>9. \A s \in Sources : dir[s] # None /\ s # n =>
        dir'[s] = dir[s] /\ content'[dir[s]] = content[dir[s]]
  <2> SUFFICES ASSUME NEW s \in Sources, dir[s] # None, s # n
               PROVE  dir'[s] = dir[s] /\ content'[dir[s]] = content[dir[s]]
    OBVIOUS
  <2>1. dir[s] \in Inodes /\ dir[s] # dir[n]
    BY <1>1, <1>2 DEF Types, IngestInv, OneName
  <2> QED BY <2>1, <1>2
<1>10. Present'
  <2> SUFFICES ASSUME NEW k \in 1..logged, ~Settled(k)'
               PROVE  \E s \in Sources : dir'[s] # None /\ k \in Elements(content'[dir'[s]])
    BY <1>1 DEF Present, LinesOf
  <2>1. PICK s \in Sources : dir[s] # None /\ k \in LinesOf(dir[s])
    BY <1>5 DEF IngestInv, Present
  <2>2. s # n
    BY <2>1, <1>5
  <2> QED BY <2>1, <2>2, <1>9 DEF LinesOf
<1>11. MarkedIsSettled'
  <2> SUFFICES ASSUME NEW m \in Names, dir'[m] # None, <<m, dir'[m]>> \in Marks,
                      NEW k \in Elements(content'[dir'[m]])
               PROVE  Settled(k)'
    BY <1>8 DEF MarkedIsSettled, LinesOf
  <2>1. m # n /\ dir'[m] = dir[m]
    BY <1>2
  <2>2. content'[dir[m]] = content[dir[m]]
    BY <2>1, <1>9
  <2> QED BY <2>1, <2>2, <1>5 DEF IngestInv, MarkedIsSettled, LinesOf
<1>12. ReadIsSettled'
  <2> SUFFICES ASSUME pc \in {"read", "mark"}
               PROVE  /\ name # None /\ fd # None /\ fd # dir[Active]
                      /\ pc = "read" => /\ at \in Nat /\ at <= Len(content[fd])
                                        /\ \A k \in 1..at : content[fd][k] \in out' \cup lost'
                      /\ pc = "mark" => (dir'[name] = fd =>
                                           \A k \in Elements(content[fd]) : k \in out' \cup lost')
    BY <1>1, <1>2 DEF ReadIsSettled, LinesOf, Settled, IngestInv
  <2>1. name # None /\ fd # None /\ fd # dir[Active] /\ name \in Names
    BY <1>1 DEF IngestInv, ReadIsSettled, Types
  <2>2. dir'[name] = fd => dir[name] = fd
    BY <2>1, <1>2
  <2>3. \A k : Settled(k) => k \in out' \cup lost'
    BY <1>5 DEF Settled
  <2> QED BY <2>1, <2>2, <2>3 DEF IngestInv, ReadIsSettled, LinesOf
<1> QED BY <1>4, <1>7, <1>8, <1>10, <1>11, <1>12 DEF IngestInv

-----------------------------------------------------------------------------
(* The loop. *)

\* Moving the offset and changing the inode mark no file.
LEMMA MovedCheckpoint ==
  ASSUME IsCheckpoint(ck),
         \/ ck' = ck
         \/ ck' = FromStart(dir[Active])
         \/ \E o : ck' = [ck EXCEPT !.offset = o]
  PROVE  IsCheckpoint(ck') /\ ck'.completed = ck.completed
<1>1. CASE ck' = ck
  BY <1>1
<1>2. CASE ck' = FromStart(dir[Active])
  BY <1>2 DEF FromStart, IsCheckpoint
<1>3. CASE \E o : ck' = [ck EXCEPT !.offset = o]
  <2>1. PICK o : ck' = [ck EXCEPT !.offset = o]
    BY <1>3
  <2>2. PICK a, b, d : ck = [inode |-> a, offset |-> b, completed |-> d] /\ d \in Seq(Names \X Inodes)
    BY DEF IsCheckpoint
  <2>3. ck' = [inode |-> a, offset |-> o, completed |-> d]
    BY <2>1, <2>2
  <2> QED BY <2>2, <2>3 DEF IsCheckpoint
<1> QED BY <1>1, <1>2, <1>3

\* A fresh checkpoint has no mark.
LEMMA FreshCheckpoint == IsCheckpoint(Fresh) /\ Elements(Fresh.completed) = {}
<1>1. Fresh.completed = <<>> /\ Len(<<>>) = 0 /\ <<>> \in Seq(Names \X Inodes)
  BY DEF Fresh
<1>2. 1..0 = {}
  OBVIOUS
<1> QED BY <1>1, <1>2 DEF IsCheckpoint, Fresh, Elements

\* A step of the loop that marks nothing and has no rotated file open.
LEMMA QuietKeeps ==
  ASSUME IngestInv, UNCHANGED fileVars,
         IsCheckpoint(ck'), IsCheckpoint(saved'),
         Elements(ck'.completed) \cup Elements(saved'.completed) \subseteq Marks,
         name' \in {name, None}, fd' \in Inodes \cup {None},
         pc' \notin {"open", "read", "mark"},
         \A l : Settled(l) => Settled(l)'
  PROVE  IngestInv'
<1>1. Types'
  BY DEF IngestInv, Types, fileVars
<1>2. ReadIsSettled'
  BY DEF ReadIsSettled
<1> QED BY <1>1, <1>2, FilesUntouched DEF fileVars

\* Listing, sizing, following and saving: none marks a file or drops a line.
LEMMA SurveyKeeps ==
  IngestInv /\ (ListRotated \/ TailStat \/ TailSize \/ TailIdle \/ TailSwitched \/ Flush)
    => IngestInv'
<1> SUFFICES ASSUME IngestInv, ListRotated \/ TailStat \/ TailSize \/ TailIdle \/ TailSwitched \/ Flush
             PROVE  IngestInv'
  OBVIOUS
<1> USE NamesAndInodes
<1>1. IsCheckpoint(ck) /\ IsCheckpoint(saved) /\ fd \in Inodes \cup {None}
  BY DEF IngestInv, Types
<1>2. /\ UNCHANGED fileVars /\ name' = name /\ fd' \in {fd, None} /\ UNCHANGED <<out, lost>>
      /\ pc' \notin {"open", "read", "mark"}
  BY DEF ListRotated, TailStat, TailSize, TailIdle, TailSwitched, Flush, Go, Close, readVars, outVars
<1>3. IsCheckpoint(ck') /\ ck'.completed = ck.completed
  <2>1. \/ ck' = ck
        \/ ck' = [ck EXCEPT !.offset = 0]
        \/ ck' = FromStart(dir[Active])
    BY DEF ListRotated, TailStat, TailSize, TailIdle, TailSwitched, Flush
  <2> QED BY <2>1, <1>1, MovedCheckpoint
<1>4. saved' \in {ck, saved}
  BY DEF ListRotated, TailStat, TailSize, TailIdle, TailSwitched, Flush
<1>5. Elements(ck'.completed) \cup Elements(saved'.completed) \subseteq Marks
  BY <1>3, <1>4 DEF Marks
<1> QED BY <1>1, <1>2, <1>3, <1>4, <1>5, QuietKeeps DEF Settled

\* Opening and following the active file.
LEMMA FollowKeeps == IngestInv /\ (TailOpen \/ TailChunk \/ TailLine) => IngestInv'
<1> SUFFICES ASSUME IngestInv, TailOpen \/ TailChunk \/ TailLine PROVE IngestInv'
  OBVIOUS
<1> USE NamesAndInodes
<1>1. /\ IsCheckpoint(ck) /\ IsCheckpoint(saved) /\ fd \in Inodes \cup {None}
      /\ dir[Active] \in Inodes \cup {None}
  BY DEF IngestInv, Types
<1>2. /\ UNCHANGED fileVars /\ name' = name /\ fd' \in {fd, None, dir[Active]}
      /\ pc' \notin {"open", "read", "mark"} /\ saved' = saved
  BY DEF TailOpen, TailChunk, TailLine, Go, Close
<1>3. IsCheckpoint(ck') /\ ck'.completed = ck.completed
  <2>1. ck' = ck \/ ck' = [ck EXCEPT !.offset = at - Len(buf) + 1]
    BY DEF TailOpen, TailChunk, TailLine
  <2> QED BY <2>1, <1>1, MovedCheckpoint
<1>4. \A l : Settled(l) => Settled(l)'
  <2>1. CASE TailOpen \/ TailChunk
    BY <2>1 DEF TailOpen, TailChunk, outVars, Settled
  <2>2. CASE TailLine
    BY <2>2, WriteSettles DEF TailLine
  <2> QED BY <2>1, <2>2
<1>5. Elements(ck'.completed) \cup Elements(saved'.completed) \subseteq Marks
  BY <1>2, <1>3 DEF Marks
<1> QED BY <1>1, <1>2, <1>3, <1>4, <1>5, QuietKeeps

\* The end of the process, by a kill, a stop or an error, and its restart: the
\* marks in memory are those on disk, or none.
LEMMA LivesKeep == IngestInv /\ (VanishedBeforeOpen \/ Stop \/ Kill \/ Restart) => IngestInv'
<1> SUFFICES ASSUME IngestInv, VanishedBeforeOpen \/ Stop \/ Kill \/ Restart PROVE IngestInv'
  OBVIOUS
<1>1. IsCheckpoint(ck) /\ IsCheckpoint(saved) /\ fd \in Inodes \cup {None}
  BY DEF IngestInv, Types
<1>2. /\ UNCHANGED fileVars /\ name' \in {name, None} /\ fd' \in {fd, None}
      /\ UNCHANGED <<out, lost>> /\ pc' \in {"down", "top"} /\ saved' \in {ck, saved}
      /\ ck' \in {Fresh, saved}
  BY DEF VanishedBeforeOpen, Stop, Kill, Restart, Die, Go, Close, readVars, outVars
<1>3. IsCheckpoint(ck') /\ IsCheckpoint(saved')
  BY <1>1, <1>2, FreshCheckpoint
<1>4. Elements(ck'.completed) \cup Elements(saved'.completed) \subseteq Marks
  BY <1>2, FreshCheckpoint DEF Marks
<1>5. pc' \notin {"open", "read", "mark"} /\ fd' \in Inodes \cup {None}
  BY <1>1, <1>2
<1> QED BY <1>2, <1>3, <1>4, <1>5, QuietKeeps DEF Settled

\* A rotated file is visited by a name it has.
LEMMA VisitKeeps ==
  ASSUME IngestInv, NEW n \in Names, VisitRotated(n) PROVE IngestInv'
<1> USE NamesAndInodes
<1>1. /\ UNCHANGED <<fileVars, fd, ck, saved, out, lost>> /\ pc = "scan"
      /\ \/ pc' = pc /\ name' = name
         \/ pc' = "open" /\ name' = n /\ dir[n] # None
  BY DEF VisitRotated, outVars, Go, IsCompleted
<1>2. Types' /\ ReadIsSettled'
  <2>1. Types'
    <3>1. name' \in Names \cup {None} /\ (pc' = "open" => name' # None)
      BY <1>1 DEF IngestInv, Types
    <3> QED BY <3>1, <1>1 DEF IngestInv, Types, fileVars
  <2>2. pc' \notin {"read", "mark"}
    BY <1>1
  <2> QED BY <2>1, <2>2 DEF ReadIsSettled
<1>3. name' \in {name, None} \/ Used(name')
  BY <1>1 DEF IngestInv, NamesAreUsed
<1> QED BY <1>1, <1>2, <1>3, FilesUntouched DEF Marks, Settled, fileVars

\* The open file is the one the name is for, and none of it has been read.
LEMMA OpenKeeps == IngestInv /\ OpenRotated => IngestInv'
<1> SUFFICES ASSUME IngestInv, OpenRotated PROVE IngestInv'
  OBVIOUS
<1> USE NamesAndInodes
<1>1. /\ UNCHANGED <<fileVars, name, ck, saved, out, lost>>
      /\ pc = "open" /\ pc' = "read" /\ fd' = dir[name] /\ at' = 0 /\ dir[name] # None
  BY DEF OpenRotated, outVars, Go
<1>2. /\ Types /\ name \in Names /\ name # None /\ dir[name] \in Inodes
      /\ dir[name] # dir[Active] /\ content[dir[name]] \in Seq(Nat)
  BY <1>1 DEF IngestInv, Types, OneName
<1>3. Len(content[dir[name]]) \in Nat /\ 1..0 = {}
  BY <1>2
<1>4. Types'
  BY <1>1, <1>2 DEF Types, fileVars
<1>5. ReadIsSettled'
  BY <1>1, <1>2, <1>3 DEF ReadIsSettled, fileVars
<1> QED BY <1>1, <1>4, <1>5, FilesUntouched DEF Marks, Settled, fileVars

\* A line that is read is settled by its write.
LEMMA ReadKeeps == IngestInv /\ ReadRotatedLine => IngestInv'
<1> SUFFICES ASSUME IngestInv, ReadRotatedLine PROVE IngestInv'
  OBVIOUS
<1> USE NamesAndInodes
<1>1. PICK l : l = content[fd][at + 1]
  OBVIOUS
<1>2. /\ UNCHANGED <<fileVars, name, fd, pc, ck, saved>> /\ pc = "read"
      /\ at' = at + 1 /\ at < Len(content[fd]) /\ Write(l, name)
  BY <1>1 DEF ReadRotatedLine
<1>3. (\A k : Settled(k) => Settled(k)') /\ Settled(l)'
  BY <1>2, WriteSettles
<1>4. /\ Types /\ name # None /\ fd # None /\ fd # dir[Active] /\ fd \in Inodes
      /\ at \in Nat /\ Len(content[fd]) \in Nat
      /\ \A k \in 1..at : Settled(content[fd][k])
  BY <1>2 DEF IngestInv, ReadIsSettled, Types
<1>5. Types'
  BY <1>2, <1>4 DEF Types, fileVars
<1>6. ReadIsSettled'
  <2>1. \A k \in 1..(at + 1) : content[fd][k] \in out' \cup lost'
    <3>1. \A k \in 1..(at + 1) : k \in 1..at \/ k = at + 1
      BY <1>4
    <3> QED BY <3>1, <1>1, <1>3, <1>4 DEF Settled
  <2>2. at + 1 \in Nat /\ at + 1 <= Len(content[fd])
    BY <1>2, <1>4
  <2> QED BY <2>1, <2>2, <1>2, <1>4 DEF ReadIsSettled, Settled, fileVars
<1> QED BY <1>2, <1>3, <1>5, <1>6, FilesUntouched DEF Marks, fileVars

\* At the end of the file every line of it has been read.
LEMMA EndKeeps == IngestInv /\ EndOfRotated => IngestInv'
<1> SUFFICES ASSUME IngestInv, EndOfRotated PROVE IngestInv'
  OBVIOUS
<1>1. /\ UNCHANGED <<fileVars, name, fd, at, ck, saved, out, lost>>
      /\ pc = "read" /\ pc' = "mark" /\ at >= Len(content[fd])
  BY DEF EndOfRotated, readVars, outVars, Go
<1>2. /\ Types /\ name # None /\ fd # None /\ fd # dir[Active] /\ fd \in Inodes
      /\ at \in Nat /\ at <= Len(content[fd]) /\ Len(content[fd]) \in Nat
      /\ \A k \in 1..at : Settled(content[fd][k])
  BY <1>1 DEF IngestInv, ReadIsSettled, Types
<1>3. \A l \in LinesOf(fd) : Settled(l)
  BY <1>1, <1>2 DEF LinesOf, Elements
<1>4. Types'
  BY <1>1, <1>2 DEF Types, fileVars
<1>5. ReadIsSettled'
  BY <1>1, <1>2, <1>3 DEF ReadIsSettled, LinesOf, Settled, fileVars
<1> QED BY <1>1, <1>4, <1>5, FilesUntouched DEF Marks, Settled, fileVars

\* The only new mark is that of the file just read, whose lines are settled.
LEMMA MarkKeeps == IngestInv /\ MarkCompleted => IngestInv'
<1> SUFFICES ASSUME IngestInv, MarkCompleted PROVE IngestInv'
  OBVIOUS
<1> USE NamesAndInodes
<1>1. PICK left : /\ left = LastOf(Append(ck.completed, <<name, fd>>), CompletedLimit)
                  /\ ck' = [ck EXCEPT !.completed = left]
  BY DEF MarkCompleted
<1>2. /\ UNCHANGED <<fileVars, saved, out, lost>>
      /\ pc = "mark" /\ pc' = "scan" /\ fd' = None /\ name' = None
  BY DEF MarkCompleted, outVars, Go, Close
<1>3. /\ Types /\ OneName /\ NamesAreUsed /\ Present /\ MarkedIsSettled
      /\ name # None /\ fd # None /\ name \in Names /\ fd \in Inodes
      /\ (dir[name] = fd => \A l \in LinesOf(fd) : Settled(l))
  BY <1>2 DEF IngestInv, ReadIsSettled, Types
<1>4. /\ left \in Seq(Names \X Inodes)
      /\ Elements(left) \subseteq Elements(ck.completed) \cup {<<name, fd>>}
  <2>1. ck.completed \in Seq(Names \X Inodes) /\ <<name, fd>> \in Names \X Inodes
    BY <1>3 DEF Types, IsCheckpoint
  <2>2. CompletedLimit \in Nat \ {0}
    BY IngestAssumption
  <2>3. /\ Append(ck.completed, <<name, fd>>) \in Seq(Names \X Inodes)
        /\ Elements(Append(ck.completed, <<name, fd>>)) = Elements(ck.completed) \cup {<<name, fd>>}
    BY <2>1, ElementsOfAppend
  <2> QED BY <2>2, <2>3, <1>1, ElementsOfLast
<1>5. IsCheckpoint(ck') /\ ck'.completed = left
  <2>1. PICK a, b, d : ck = [inode |-> a, offset |-> b, completed |-> d]
    BY <1>3 DEF Types, IsCheckpoint
  <2>2. ck' = [inode |-> a, offset |-> b, completed |-> left]
    BY <2>1, <1>1
  <2> QED BY <2>2, <1>4 DEF IsCheckpoint
<1>6. Marks' \subseteq Marks \cup {<<name, fd>>}
  BY <1>2, <1>4, <1>5 DEF Marks
<1>7. Types' /\ ReadIsSettled'
  BY <1>2, <1>3, <1>5 DEF Types, ReadIsSettled, fileVars
<1>8. OneName' /\ Present'
  BY <1>2, <1>3 DEF OneName, Present, Settled, LinesOf, fileVars
<1>9. NamesAreUsed'
  <2>1. \A n : Used(n)' <=> Used(n)
    BY <1>2 DEF Used, fileVars
  <2>2. <<name, fd>>[1] = name
    OBVIOUS
  <2>3. \A m \in Marks' : Used(m[1])
    BY <2>2, <1>3, <1>6 DEF NamesAreUsed
  <2>4. \A n \in Names : dir'[n] # None => Used(n)'
    BY <2>1, <1>2, <1>3 DEF NamesAreUsed, fileVars
  <2> QED BY <2>1, <2>3, <2>4, <1>2 DEF NamesAreUsed
<1>10. MarkedIsSettled'
  <2> SUFFICES ASSUME NEW n \in Names, dir[n] # None, <<n, dir[n]>> \in Marks'
               PROVE  \A l \in LinesOf(dir[n]) : Settled(l)
    BY <1>2 DEF MarkedIsSettled, LinesOf, Settled, fileVars
  <2>1. <<n, dir[n]>> \in Marks \/ (n = name /\ dir[n] = fd)
    BY <1>6
  <2> QED BY <2>1, <1>3 DEF MarkedIsSettled
<1> QED BY <1>7, <1>8, <1>9, <1>10 DEF IngestInv

\* Only the ages of the files change.
LEMMA AgeKeeps == ASSUME IngestInv, NEW n \in Names, Age(n) PROVE IngestInv'
BY DEF Age, IngestInv, Types, OneName, NamesAreUsed, Present, MarkedIsSettled, ReadIsSettled,
       Used, Marks, LinesOf, Settled, readVars, outVars

-----------------------------------------------------------------------------
\* The first state: one empty active file, nothing read.
LEMMA IngestInvInit == Init => IngestInv
<1> SUFFICES ASSUME Init PROVE IngestInv
  OBVIOUS
<1> USE NamesAndInodes
<1>1. /\ dir[Active] = 1 /\ writer = 1 /\ \A s \in Sources \ {Active} : dir[s] = None
      /\ \A n \in Names : n \in Sources \ {Active}
  BY DEF Init
<1>2. Types
  <2>1. <<>> \in Seq(Nat)
    OBVIOUS
  <2>2. dir \in [Sources -> Inodes \cup {None}] /\ content \in [Inodes -> Seq(Nat)]
    BY <2>1 DEF Init
  <2> QED BY <2>2, <1>1, FreshCheckpoint DEF Init, Types
<1>3. Marks = {}
  BY FreshCheckpoint DEF Init, Marks
<1> QED BY <1>1, <1>2, <1>3
        DEF Init, IngestInv, OneName, NamesAreUsed, Present, MarkedIsSettled, ReadIsSettled

\* Every step keeps the invariant.
LEMMA IngestInvNext == IngestInv /\ [Next]_vars => IngestInv'
<1> SUFFICES ASSUME IngestInv, [Next]_vars PROVE IngestInv'
  OBVIOUS
<1>1. CASE UNCHANGED vars
  BY <1>1 DEF vars, fileVars, readVars, outVars, IngestInv, Types, OneName, NamesAreUsed, Present,
              MarkedIsSettled, ReadIsSettled, Used, Marks, LinesOf, Settled
<1>2. CASE Loop
  BY <1>2, SurveyKeeps, FollowKeeps, LivesKeep, VisitKeeps, OpenKeeps, ReadKeeps, EndKeeps, MarkKeeps
     DEF Loop
<1>3. CASE Stop \/ Kill
  BY <1>3, LivesKeep
<1>4. CASE Firewall
  BY <1>4, LogKeeps, RotateKeeps, ReopenKeeps, CopyTruncateKeeps DEF Firewall
<1>5. CASE Housekeeping
  BY <1>5, CompressKeeps, DeleteKeeps DEF Housekeeping
<1>6. CASE \E n \in Names : Age(n)
  BY <1>6, AgeKeeps
<1> QED BY <1>1, <1>2, <1>3, <1>4, <1>5, <1>6 DEF Next

\* A line whose file has no mark that counts is still to be read.
LEMMA IngestInvImplies == IngestInv => NothingForgotten
<1> SUFFICES ASSUME IngestInv, NEW l \in 1..logged, ~Settled(l)
             PROVE  \/ l \in LinesOf(writer)
                    \/ \E n \in Names : /\ dir[n] # None /\ l \in LinesOf(dir[n])
                                        /\ <<n, dir[n]>> \notin Completed
  BY DEF NothingForgotten
<1>1. PICK s \in Sources : dir[s] # None /\ l \in LinesOf(dir[s])
  BY DEF IngestInv, Present
<1>2. CASE s = Active
  BY <1>1, <1>2 DEF IngestInv, OneName
<1>3. CASE s \in Names
  <2>1. <<s, dir[s]>> \notin Marks
    BY <1>1, <1>3 DEF IngestInv, MarkedIsSettled
  <2>2. Completed \subseteq Marks
    BY DEF Completed, Marks
  <2> QED BY <2>1, <2>2, <1>1, <1>3
<1> QED BY <1>2, <1>3 DEF Sources

\* Whatever logrotate does between two calls of the loop, however often the
\* process dies and however short the list of completed files, the ingest
\* (fortigate-ingest main.py and checkpoint.py) forgets no line: one that is
\* neither written nor refused nor too late is in a file it will still read.
THEOREM NothingIsForgotten == Spec => []NothingForgotten
BY IngestInvInit, IngestInvNext, IngestInvImplies, PTL DEF Spec

-----------------------------------------------------------------------------
(***************************************************************************)
(* One life writes no line twice under one name.  Lines are logged in      *)
(* order, so a file is a rising sequence of them and a place in it tells   *)
(* what has been read.  A rotated name is read once because its mark holds *)
(* the inode it will always have.  The active name changes hands: what was *)
(* written from it either left it with its file, or lies behind the offset *)
(* and the offset within the file, so neither a new inode nor a truncation *)
(* takes the tail back.                                                    *)
(***************************************************************************)
Orderly(s, top) ==
  /\ s \in Seq(Nat)
  /\ \A j, k \in 1..Len(s) : j < k => s[j] < s[k]
  /\ \A k \in 1..Len(s) : s[k] <= top

LinesInOrder ==
  /\ \A i \in Inodes : Orderly(content[i], logged)
  /\ Orderly(buf, logged)
  /\ \A x \in thisLife : x[1] <= logged

OnceTypes ==
  /\ at \in Nat /\ ck.offset \in Nat /\ saved.offset \in Nat
  /\ thisLife \subseteq Nat \X Sources

\* No other inode holds a line of the active file.
ActiveIsNew ==
  dir[Active] # None =>
    \A i \in Inodes \ {dir[Active]} : LinesOf(i) \cap LinesOf(dir[Active]) = {}

\* A rotated name has one inode for as long as it is there.
NamesHold ==
  /\ \A m \in Marks : dir[m[1]] \in {None, m[2]}
  /\ pc \in {"read", "mark"} => dir[name] \in {None, fd}

\* What was written from a rotated name: the name is marked, its mark was
\* evicted, or it is the open file and the line was read from it.
ReadBefore(l) == pc = "read" => \E k \in 1..at : k <= Len(content[fd]) /\ content[fd][k] = l

RotatedIsMarked ==
  pc # "down" => \A x \in thisLife :
    \/ x[2] \in evicted \cup {Active}
    \/ \E m \in Elements(ck.completed) : m[1] = x[2]
    \/ pc \in {"read", "mark"} /\ x[2] = name /\ ReadBefore(x[1])

NotYetMarked ==
  pc \in {"open", "read", "mark"} => \A m \in Elements(ck.completed) : m[1] # name

\* What was written from the active name and is in the active file is behind
\* the offset, and the offset is within the file.
Behind(l) ==
  /\ ck.inode = dir[Active]
  /\ ck.offset <= Len(content[dir[Active]])
  /\ \E k \in 1..ck.offset : content[dir[Active]][k] = l

ActiveIsBehind ==
  pc # "down" /\ dir[Active] # None =>
    \A l \in LinesOf(dir[Active]) : <<l, Active>> \in thisLife => Behind(l)

\* The tail of an open file: what it holds and what it has still to read has
\* not been written and is in order.
TailIsAhead ==
  /\ pc # "follow" => buf = <<>>
  /\ pc = "follow" =>
       /\ fd # None /\ Len(buf) <= at /\ ck.offset <= at - Len(buf)
       /\ \A j \in 1..Len(buf) : <<buf[j], Active>> \notin thisLife
       /\ \A k \in 1..Len(content[fd]) : k > at =>
            /\ <<content[fd][k], Active>> \notin thisLife
            /\ \A j \in 1..Len(buf) : buf[j] < content[fd][k]

\* The file that has the active name while another is followed, or since a
\* truncation, is new; or it is the one followed and the chunk is its part.
NewFile ==
  \A l \in LinesOf(dir[Active]) : <<l, Active>> \notin thisLife /\ l \notin Elements(buf)

Intact ==
  /\ fd = dir[Active] /\ at <= Len(content[fd])
  /\ \A j \in 1..Len(buf) : buf[j] = content[fd][at - Len(buf) + j]

FollowsActive == pc = "follow" /\ dir[Active] # None => NewFile \/ Intact

\* No line was written twice under one name.
OncePerName == twice = {}

OnceInv ==
  /\ LinesInOrder /\ OnceTypes /\ ActiveIsNew /\ NamesHold
  /\ RotatedIsMarked /\ NotYetMarked
  /\ ActiveIsBehind /\ TailIsAhead /\ FollowsActive
  /\ OncePerName

\* A file that has grown by lines later than the last one logged.
Grows(s, t, last) ==
  /\ Len(t) >= Len(s)
  /\ \A k \in 1..Len(s) : t[k] = s[k]
  /\ \A k \in 1..Len(t) : k > Len(s) => t[k] > last

\* What the firewall and logrotate may do, as far as one life is concerned.
FilesMoved ==
  /\ UNCHANGED <<pc, name, fd, at, buf, ck, saved, thisLife, twice, evicted>>
  /\ logged' \in Nat /\ logged' >= logged
  /\ \A n \in Names : Used(n) => dir'[n] \in {None, dir[n]}
  /\ \A i \in Inodes : Orderly(content'[i], logged')
  /\ fd # None => \/ Grows(content[fd], content'[fd], logged)
                  \/ pc \notin {"read", "mark"} /\ content'[fd] = <<>>
  /\ dir'[Active] # None =>
       \/ content'[dir'[Active]] = <<>>
       \/ dir'[Active] = dir[Active] /\ Grows(content[dir[Active]], content'[dir[Active]], logged)
  /\ ActiveIsNew'

\* The empty file, a file with one more line, and the same file later.
LEMMA OrderlyFiles ==
  ASSUME NEW top \in Nat
  PROVE  /\ Orderly(<<>>, top) /\ Elements(<<>>) = {} /\ Len(<<>>) = 0
         /\ \A s : Orderly(s, top) =>
              /\ Orderly(s, top + 1) /\ Orderly(Append(s, top + 1), top + 1)
              /\ Grows(s, s, top) /\ Grows(s, Append(s, top + 1), top)
<1>1. Len(<<>>) = 0 /\ 1..0 = {} /\ <<>> \in Seq(Nat)
  OBVIOUS
<1>2. Orderly(<<>>, top) /\ Elements(<<>>) = {}
  BY <1>1 DEF Orderly, Elements
<1>3. ASSUME NEW s, Orderly(s, top)
      PROVE  /\ Orderly(s, top + 1) /\ Orderly(Append(s, top + 1), top + 1)
             /\ Grows(s, s, top) /\ Grows(s, Append(s, top + 1), top)
  <2>1. PICK t : t = Append(s, top + 1)
    OBVIOUS
  <2>2. /\ s \in Seq(Nat) /\ Len(s) \in Nat /\ t \in Seq(Nat)
        /\ Len(t) = Len(s) + 1 /\ t[Len(s) + 1] = top + 1
        /\ \A k \in 1..Len(s) : t[k] = s[k]
    BY <1>3, <2>1 DEF Orderly
  <2>3. \A k \in 1..Len(s) : s[k] \in Nat /\ s[k] <= top
    BY <1>3, <2>2 DEF Orderly
  <2>4. Orderly(s, top + 1)
    BY <1>3, <2>2, <2>3 DEF Orderly
  <2>5. \A k \in 1..Len(t) : k \in 1..Len(s) \/ k = Len(s) + 1
    BY <2>2
  <2>6. Orderly(t, top + 1)
    <3>1. \A k \in 1..Len(t) : t[k] <= top + 1
      BY <2>2, <2>3, <2>5
    <3>2. ASSUME NEW j \in 1..Len(t), NEW k \in 1..Len(t), j < k PROVE t[j] < t[k]
      <4>1. j \in 1..Len(s)
        BY <3>2, <2>2
      <4>2. CASE k \in 1..Len(s)
        BY <4>1, <4>2, <3>2, <2>2, <1>3 DEF Orderly
      <4>3. CASE k = Len(s) + 1
        BY <4>1, <4>3, <2>2, <2>3
      <4> QED BY <4>2, <4>3, <2>5
    <3> QED BY <3>1, <3>2, <2>2 DEF Orderly
  <2>7. Grows(s, s, top) /\ Grows(s, t, top)
    <3>1. Grows(s, s, top)
      BY <2>2 DEF Grows
    <3>2. \A k \in 1..Len(t) : k > Len(s) => t[k] > top
      BY <2>2, <2>5
    <3> QED BY <3>1, <3>2, <2>2 DEF Grows
  <2> QED BY <2>1, <2>4, <2>6, <2>7
<1> QED BY <1>1, <1>2, <1>3

\* What may be assumed of the numbers while the invariant holds.
LEMMA OnceFacts ==
  ASSUME IngestInv, OnceInv
  PROVE  /\ at \in Nat /\ Len(buf) \in Nat /\ logged \in Nat /\ ck.offset \in Nat
         /\ buf \in Seq(Nat) /\ \A j \in 1..Len(buf) : buf[j] \in Nat /\ buf[j] <= logged
         /\ \A i \in Inodes :
              /\ content[i] \in Seq(Nat) /\ Len(content[i]) \in Nat
              /\ \A k \in 1..Len(content[i]) : content[i][k] \in Nat /\ content[i][k] <= logged
         /\ fd \in Inodes \cup {None} /\ dir[Active] \in Inodes \cup {None}
         /\ name \in Names \cup {None}
         /\ \A x \in thisLife : /\ x[1] \in Nat /\ x[1] <= logged /\ x[2] \in Sources
                                /\ x = <<x[1], x[2]>>
<1>1. Types /\ OnceTypes /\ LinesInOrder
  BY DEF IngestInv, OnceInv
<1>2. /\ at \in Nat /\ logged \in Nat /\ ck.offset \in Nat
      /\ fd \in Inodes \cup {None} /\ dir[Active] \in Inodes \cup {None}
      /\ name \in Names \cup {None}
  BY <1>1, NamesAndInodes DEF Types, OnceTypes
<1>3. buf \in Seq(Nat) /\ Len(buf) \in Nat /\ \A j \in 1..Len(buf) : buf[j] \in Nat /\ buf[j] <= logged
  BY <1>1 DEF LinesInOrder, Orderly
<1>4. ASSUME NEW i \in Inodes
      PROVE  /\ content[i] \in Seq(Nat) /\ Len(content[i]) \in Nat
             /\ \A k \in 1..Len(content[i]) : content[i][k] \in Nat /\ content[i][k] <= logged
  BY <1>1 DEF LinesInOrder, Orderly
<1>5. \A x \in thisLife : /\ x[1] \in Nat /\ x[1] <= logged /\ x[2] \in Sources
                          /\ x = <<x[1], x[2]>>
  BY <1>1 DEF LinesInOrder, OnceTypes
<1> QED BY <1>2, <1>3, <1>4, <1>5

\* However the files are moved, what the loop has written stays written once:
\* the followed file only grows or is emptied, and so does the active one, or
\* another takes its name.
LEMMA FilesMoveOnce ==
  ASSUME IngestInv, OnceInv, FilesMoved PROVE OnceInv'
<1> USE NamesAndInodes
<1>1. UNCHANGED <<pc, name, fd, at, buf, ck, saved, thisLife, twice, evicted>>
  BY DEF FilesMoved
<1>2. LinesInOrder'
  <2>1. Orderly(buf, logged')
    <3>1. Orderly(buf, logged) /\ logged' \in Nat /\ logged' >= logged
      BY DEF OnceInv, LinesInOrder, FilesMoved
    <3> QED BY <3>1, OnceFacts DEF Orderly
  <2>2. \A x \in thisLife : x[1] <= logged'
    BY OnceFacts DEF FilesMoved
  <2> QED BY <2>1, <2>2, <1>1 DEF LinesInOrder, FilesMoved
<1>3. OnceTypes' /\ ActiveIsNew' /\ NotYetMarked' /\ OncePerName'
  BY <1>1 DEF OnceInv, OnceTypes, NotYetMarked, OncePerName, FilesMoved
<1>4. NamesHold'
  <2>1. \A m \in Marks : m[1] \in Names /\ Used(m[1])
    BY MarksAreNamed DEF IngestInv, NamesAreUsed, Types
  <2>2. \A m \in Marks : dir'[m[1]] \in {None, m[2]}
    BY <2>1 DEF OnceInv, NamesHold, FilesMoved
  <2>3. pc \in {"read", "mark"} => dir'[name] \in {None, fd}
    BY DEF IngestInv, NamesAreUsed, ReadIsSettled, Types, OnceInv, NamesHold, FilesMoved
  <2> QED BY <2>2, <2>3, <1>1 DEF NamesHold, Marks
<1>5. RotatedIsMarked'
  <2>1. pc = "read" => fd \in Inodes /\ Grows(content[fd], content'[fd], logged)
    BY OnceFacts DEF IngestInv, ReadIsSettled, FilesMoved
  <2>2. \A l : ReadBefore(l) => ReadBefore(l)'
    <3> SUFFICES ASSUME NEW l, pc = "read", NEW k \in 1..at, k <= Len(content[fd]), content[fd][k] = l
                 PROVE  k <= Len(content'[fd]) /\ content'[fd][k] = l
      BY <1>1 DEF ReadBefore
    <3>1. k \in 1..Len(content[fd])
      BY <2>1, OnceFacts
    <3>2. Len(content'[fd]) \in Nat
      BY <2>1 DEF FilesMoved, Orderly
    <3> QED BY <2>1, <3>1, <3>2, OnceFacts DEF Grows
  <2> QED BY <2>2, <1>1 DEF OnceInv, RotatedIsMarked
<1>6. ASSUME dir'[Active] # None, NEW l \in Elements(content'[dir'[Active]]),
             <<l, Active>> \in thisLife \/ l \in Elements(buf)
      PROVE  /\ dir'[Active] = dir[Active] /\ l \in LinesOf(dir[Active])
             /\ Grows(content[dir[Active]], content'[dir[Active]], logged)
  <2>1. PICK a : a = dir'[Active]
    OBVIOUS
  <2>2. l \in Elements(content'[a])
    BY <1>6, <2>1 DEF LinesOf
  <2>3. content'[a] # <<>>
    BY <2>2, OrderlyFiles, OnceFacts
  <2>4. a = dir[Active] /\ Grows(content[a], content'[a], logged)
    BY <1>6, <2>1, <2>3 DEF FilesMoved
  <2>5. PICK k \in 1..Len(content'[a]) : content'[a][k] = l
    BY <2>2 DEF Elements
  <2>6. l <= logged
    <3>1. CASE <<l, Active>> \in thisLife
      BY <3>1 DEF OnceInv, LinesInOrder
    <3>2. CASE l \in Elements(buf)
      BY <3>2, OnceFacts DEF Elements
    <3> QED BY <3>1, <3>2, <1>6
  <2>7. a \in Inodes /\ Len(content[a]) \in Nat /\ Len(content'[a]) \in Nat /\ l \in Nat
    <3>1. a \in Inodes
      BY <1>6, <2>1, <2>4, OnceFacts
    <3>2. Orderly(content'[a], logged') /\ Len(content[a]) \in Nat
      BY <3>1, OnceFacts DEF FilesMoved
    <3>3. content'[a] \in Seq(Nat)
      BY <3>2 DEF Orderly
    <3>4. l \in Nat
      BY <3>3, <2>5
    <3> QED BY <3>1, <3>2, <3>3, <3>4
  <2>8. k \in 1..Len(content[a])
    <3>1. ~(l > logged)
      BY <2>6, <2>7, OnceFacts
    <3>2. ~(k > Len(content[a]))
      BY <3>1, <2>4, <2>5 DEF Grows
    <3> QED BY <3>2, <2>7
  <2>9. l \in LinesOf(a)
    BY <2>4, <2>5, <2>8 DEF Grows, LinesOf, Elements
  <2> QED BY <2>1, <2>4, <2>9
<1>7. ActiveIsBehind'
  <2> SUFFICES ASSUME pc # "down", dir'[Active] # None,
                      NEW l \in Elements(content'[dir'[Active]]), <<l, Active>> \in thisLife
               PROVE  Behind(l)'
    BY <1>1 DEF ActiveIsBehind, LinesOf
  <2>1. PICK a : a = dir'[Active]
    OBVIOUS
  <2>2. a = dir[Active] /\ l \in LinesOf(a) /\ Grows(content[a], content'[a], logged)
    BY <1>6, <2>1
  <2>3. Behind(l)
    BY <2>1, <2>2 DEF OnceInv, ActiveIsBehind
  <2>4. a \in Inodes /\ Len(content[a]) \in Nat /\ Len(content'[a]) \in Nat /\ ck.offset \in Nat
    BY <2>1, <2>2, OnceFacts DEF FilesMoved, Orderly
  <2>5. ck.offset <= Len(content'[a])
    BY <2>2, <2>3, <2>4 DEF Behind, Grows
  <2>6. \E k \in 1..ck.offset : content'[a][k] = l
    BY <2>2, <2>3, <2>4 DEF Behind, Grows
  <2> QED BY <1>1, <2>1, <2>2, <2>3, <2>5, <2>6 DEF Behind
<1>8. TailIsAhead'
  <2> SUFFICES ASSUME pc = "follow", NEW k \in 1..Len(content'[fd]), k > at
               PROVE  /\ <<content'[fd][k], Active>> \notin thisLife
                      /\ \A j \in 1..Len(buf) : buf[j] < content'[fd][k]
    BY <1>1 DEF OnceInv, TailIsAhead
  <2>1. fd \in Inodes
    BY OnceFacts DEF OnceInv, TailIsAhead
  <2>2. /\ Len(content[fd]) \in Nat /\ Len(content'[fd]) \in Nat
        /\ content'[fd][k] \in Nat
    <3>1. Orderly(content'[fd], logged') /\ Len(content[fd]) \in Nat
      BY <2>1, OnceFacts DEF FilesMoved
    <3>2. content'[fd] \in Seq(Nat)
      BY <3>1 DEF Orderly
    <3> QED BY <3>1, <3>2
  <2>3. Grows(content[fd], content'[fd], logged)
    BY <2>1, <2>2, OrderlyFiles, OnceFacts DEF FilesMoved
  <2>4. CASE k <= Len(content[fd])
    <3>1. k \in 1..Len(content[fd]) /\ content'[fd][k] = content[fd][k]
      BY <2>2, <2>3, <2>4 DEF Grows
    <3> QED BY <3>1 DEF OnceInv, TailIsAhead
  <2>5. CASE ~(k <= Len(content[fd]))
    <3>1. content'[fd][k] > logged
      BY <2>2, <2>3, <2>5 DEF Grows
    <3>2. \A j \in 1..Len(buf) : buf[j] < content'[fd][k]
      BY <3>1, <2>2, OnceFacts
    <3>3. \A x \in thisLife : x[1] # content'[fd][k]
      BY <3>1, <2>2, OnceFacts
    <3> QED BY <3>2, <3>3
  <2> QED BY <2>4, <2>5
<1>9. FollowsActive'
  <2> SUFFICES ASSUME pc = "follow", dir'[Active] # None, ~NewFile'
               PROVE  Intact'
    BY <1>1 DEF FollowsActive
  <2>1. PICK l \in Elements(content'[dir'[Active]]) : <<l, Active>> \in thisLife \/ l \in Elements(buf)
    BY <1>1 DEF NewFile, LinesOf
  <2>2. PICK a : a = dir'[Active]
    OBVIOUS
  <2>3. a = dir[Active] /\ l \in LinesOf(a) /\ Grows(content[a], content'[a], logged)
    BY <1>6, <2>1, <2>2
  <2>4. Intact
    BY <2>1, <2>2, <2>3 DEF OnceInv, FollowsActive, NewFile
  <2>5. fd = a /\ a \in Inodes /\ Len(content[a]) \in Nat /\ Len(content'[a]) \in Nat
    BY <2>2, <2>3, <2>4, OnceFacts DEF Intact, FilesMoved, Orderly
  <2>6. at <= Len(content'[fd])
    BY <2>3, <2>4, <2>5, OnceFacts DEF Intact, Grows
  <2>7. ASSUME NEW j \in 1..Len(buf) PROVE buf[j] = content'[fd][at - Len(buf) + j]
    <3>1. Len(buf) <= at /\ at <= Len(content[fd])
      BY <2>4 DEF Intact, OnceInv, TailIsAhead
    <3>2. at - Len(buf) + j \in 1..Len(content[fd])
      <4>1. at \in Nat /\ Len(buf) \in Nat /\ Len(content[fd]) \in Nat
        BY <2>5, OnceFacts
      <4> QED BY <3>1, <4>1
    <3> QED BY <3>2, <2>3, <2>4, <2>5 DEF Intact, Grows
  <2> QED BY <1>1, <2>2, <2>5, <2>6, <2>7 DEF Intact
<1> QED BY <1>2, <1>3, <1>4, <1>5, <1>7, <1>8, <1>9 DEF OnceInv

\* A line is logged.
LEMMA LogMoves == IngestInv /\ OnceInv /\ Log => FilesMoved
<1> SUFFICES ASSUME IngestInv, OnceInv, Log PROVE FilesMoved
  OBVIOUS
<1> USE NamesAndInodes
<1>1. /\ UNCHANGED <<pc, name, fd, at, buf, ck, saved, thisLife, twice, evicted, dir, writer>>
      /\ logged' = logged + 1 /\ content' = [content EXCEPT ![writer] = Append(@, logged + 1)]
      /\ logged \in Nat /\ writer \in Inodes /\ content \in [Inodes -> Seq(Nat)]
      /\ fd \in Inodes \cup {None} /\ dir[Active] \in Inodes \cup {None}
  BY DEF Log, readVars, IngestInv, Types
<1>2. ASSUME NEW i \in Inodes
      PROVE  Orderly(content'[i], logged + 1) /\ Grows(content[i], content'[i], logged)
  <2>1. content'[i] = content[i] \/ content'[i] = Append(content[i], logged + 1)
    BY <1>1
  <2>2. Orderly(content[i], logged)
    BY DEF OnceInv, LinesInOrder
  <2> QED BY <2>1, <2>2, <1>1, OrderlyFiles
<1>3. ActiveIsNew'
  <2> SUFFICES ASSUME dir[Active] # None, NEW i \in Inodes \ {dir[Active]},
                      NEW l \in Elements(content'[i]), l \in Elements(content'[dir[Active]])
               PROVE  FALSE
    BY <1>1 DEF ActiveIsNew, LinesOf
  <2>1. dir[Active] = writer /\ dir[Active] \in Inodes
    BY <1>1 DEF IngestInv, OneName
  <2>2. content'[i] = content[i] /\ l \in LinesOf(i) /\ Orderly(content[i], logged)
    BY <2>1, <1>1 DEF LinesOf, OnceInv, LinesInOrder
  <2>3. l \in Nat /\ l <= logged
    <3>1. PICK k \in 1..Len(content[i]) : l = content[i][k]
      BY <2>2 DEF LinesOf, Elements
    <3> QED BY <3>1, OnceFacts
  <2>4. Elements(content'[writer]) = LinesOf(writer) \cup {logged + 1}
    <3>1. content[writer] \in Seq(Nat) /\ logged + 1 \in Nat
      BY <1>1
    <3>2. content'[writer] = Append(content[writer], logged + 1)
      BY <1>1
    <3> QED BY <3>1, <3>2, ElementsOfAppend DEF LinesOf
  <2>5. l \in LinesOf(writer)
    BY <2>1, <2>3, <2>4, <1>1
  <2> QED BY <2>1, <2>2, <2>5 DEF OnceInv, ActiveIsNew
<1> QED BY <1>1, <1>2, <1>3 DEF FilesMoved

\* The active file takes a name that was not used, and its own is free.
LEMMA RotateMoves == IngestInv /\ OnceInv /\ Rotate => FilesMoved
<1> SUFFICES ASSUME IngestInv, OnceInv, Rotate PROVE FilesMoved
  OBVIOUS
<1> USE NamesAndInodes
<1>0. PICK new : new = <<rotations + 1, "log">>
  OBVIOUS
<1>1. /\ UNCHANGED <<pc, name, fd, at, buf, ck, saved, thisLife, twice, evicted, content, logged>>
      /\ logged \in Nat /\ rotations \in Nat /\ rotations + 1 \in 1..MaxRotations
      /\ dir' = [dir EXCEPT ![Active] = None, ![new] = dir[Active]]
      /\ dir \in [Sources -> Inodes \cup {None}]
  BY <1>0 DEF Rotate, readVars, outVars, IngestInv, Types
<1>2. new \in Names /\ new # Active /\ ~Used(new)
  <2>1. new \in Names /\ new # Active /\ new[1] = rotations + 1
    BY <1>0, <1>1
  <2> QED BY <2>1, <1>1 DEF Used
<1>3. dir'[Active] = None /\ \A n \in Names \ {new} : dir'[n] = dir[n]
  BY <1>1, <1>2
<1>4. \A i \in Inodes : Orderly(content[i], logged) /\ Grows(content[i], content[i], logged)
  BY <1>1, OrderlyFiles DEF OnceInv, LinesInOrder
<1>5. fd \in Inodes \cup {None} /\ logged >= logged
  BY <1>1 DEF IngestInv, Types
<1> QED BY <1>1, <1>2, <1>3, <1>4, <1>5 DEF FilesMoved, ActiveIsNew

\* A new file takes the active name.
LEMMA ReopenMoves == IngestInv /\ OnceInv /\ Reopen => FilesMoved
<1> SUFFICES ASSUME IngestInv, OnceInv, Reopen PROVE FilesMoved
  OBVIOUS
<1> USE NamesAndInodes
<1>1. PICK i \in Inodes :
        /\ Free(i) /\ dir' = [dir EXCEPT ![Active] = i] /\ content' = [content EXCEPT ![i] = <<>>]
        /\ UNCHANGED <<pc, name, fd, at, buf, ck, saved, thisLife, twice, evicted, logged>>
  BY DEF Reopen, readVars, outVars
<1>2. /\ logged \in Nat /\ fd \in Inodes \cup {None} /\ i # fd /\ i # None
      /\ dir \in [Sources -> Inodes \cup {None}] /\ content \in [Inodes -> Seq(Nat)]
  BY <1>1, FreeIsUnused DEF IngestInv, Types
<1>3. /\ dir'[Active] = i /\ content'[i] = <<>>
      /\ \A n \in Names : dir'[n] = dir[n]
      /\ \A j \in Inodes \ {i} : content'[j] = content[j]
  BY <1>1, <1>2
<1>4. \A j \in Inodes : Orderly(content'[j], logged)
  BY <1>2, <1>3, OrderlyFiles DEF OnceInv, LinesInOrder
<1>5. fd # None => Grows(content[fd], content'[fd], logged)
  BY <1>2, <1>3, OrderlyFiles DEF OnceInv, LinesInOrder
<1>6. ActiveIsNew'
  BY <1>3, OrderlyFiles, <1>2 DEF ActiveIsNew, LinesOf
<1> QED BY <1>1, <1>2, <1>3, <1>4, <1>5, <1>6 DEF FilesMoved

\* The active file is copied to a name that was not used, and emptied.
LEMMA CopyTruncateMoves == IngestInv /\ OnceInv /\ CopyTruncate => FilesMoved
<1> SUFFICES ASSUME IngestInv, OnceInv, CopyTruncate PROVE FilesMoved
  OBVIOUS
<1> USE NamesAndInodes
<1>0. PICK new, a : new = <<rotations + 1, "log">> /\ a = dir[Active]
  OBVIOUS
<1>1. PICK i \in Inodes :
        /\ Free(i) /\ dir' = [dir EXCEPT ![new] = i] /\ a # None /\ rotations < MaxRotations
        /\ content' = [content EXCEPT ![i] = content[a], ![a] = <<>>]
        /\ UNCHANGED <<pc, name, fd, at, buf, ck, saved, thisLife, twice, evicted, logged>>
  BY <1>0 DEF CopyTruncate, readVars, outVars
<1>2. /\ logged \in Nat /\ fd \in Inodes \cup {None} /\ i # fd /\ i # None /\ a # i
      /\ dir \in [Sources -> Inodes \cup {None}] /\ content \in [Inodes -> Seq(Nat)]
      /\ a \in Inodes /\ rotations \in Nat
  BY <1>0, <1>1, FreeIsUnused DEF IngestInv, Types
<1>3. new \in Names /\ new # Active /\ ~Used(new)
  <2>1. rotations + 1 \in 1..MaxRotations
    BY <1>1, <1>2
  <2>2. new \in Names /\ new # Active /\ new[1] = rotations + 1
    BY <1>0, <2>1
  <2> QED BY <2>2, <1>2 DEF Used
<1>4. /\ dir'[Active] = a /\ content'[a] = <<>> /\ content'[i] = content[a]
      /\ \A n \in Names \ {new} : dir'[n] = dir[n]
      /\ \A j \in Inodes \ {i, a} : content'[j] = content[j]
  BY <1>0, <1>1, <1>2, <1>3
<1>5. \A j \in Inodes : Orderly(content'[j], logged)
  BY <1>2, <1>4, OrderlyFiles DEF OnceInv, LinesInOrder
<1>6. fd # None => \/ Grows(content[fd], content'[fd], logged)
                   \/ pc \notin {"read", "mark"} /\ content'[fd] = <<>>
  <2>1. CASE fd = a
    BY <2>1, <1>0, <1>4 DEF IngestInv, ReadIsSettled
  <2>2. CASE fd # a /\ fd # None
    BY <2>2, <1>2, <1>4, OrderlyFiles DEF OnceInv, LinesInOrder
  <2> QED BY <2>1, <2>2
<1>7. ActiveIsNew'
  BY <1>2, <1>4, OrderlyFiles DEF ActiveIsNew, LinesOf
<1> QED BY <1>1, <1>2, <1>3, <1>4, <1>5, <1>6, <1>7 DEF FilesMoved

\* The original goes and a name that was not used has its lines.
LEMMA CompressMoves ==
  ASSUME IngestInv, OnceInv, NEW r \in 1..MaxRotations, Compress(r) PROVE FilesMoved
<1> USE NamesAndInodes
<1>0. PICK log, gz : log = <<r, "log">> /\ gz = <<r, "gz">>
  OBVIOUS
<1>1. PICK i \in Inodes :
        /\ Free(i) /\ dir[log] # None
        /\ dir' = [dir EXCEPT ![log] = None, ![gz] = i]
        /\ content' = [content EXCEPT ![i] = content[dir[log]]]
        /\ UNCHANGED <<pc, name, fd, at, buf, ck, saved, thisLife, twice, evicted, logged>>
  BY <1>0 DEF Compress, readVars, outVars
<1>2. /\ logged \in Nat /\ fd \in Inodes \cup {None} /\ i # fd /\ i # None
      /\ dir \in [Sources -> Inodes \cup {None}] /\ content \in [Inodes -> Seq(Nat)]
      /\ log \in Names /\ gz \in Names /\ log # gz /\ log # Active /\ gz # Active
      /\ \A s \in Sources : dir[s] # i
  BY <1>0, <1>1, FreeIsUnused DEF IngestInv, Types
<1>3. dir[log] \in Inodes /\ dir[log] # dir[Active] /\ dir[log] # i
  BY <1>1, <1>2 DEF IngestInv, OneName
<1>4. ~Used(gz)
  BY <1>0, <1>1 DEF Used
<1>5. /\ dir'[Active] = dir[Active] /\ content'[i] = content[dir[log]]
      /\ \A n \in Names \ {gz} : dir'[n] \in {None, dir[n]}
      /\ \A j \in Inodes \ {i} : content'[j] = content[j]
  BY <1>1, <1>2
<1>6. \A j \in Inodes : Orderly(content'[j], logged)
  BY <1>3, <1>5 DEF OnceInv, LinesInOrder
<1>7. \A j \in Inodes \ {i} : Grows(content[j], content'[j], logged)
  BY <1>2, <1>5, OrderlyFiles DEF OnceInv, LinesInOrder
<1>8. dir[Active] # i /\ dir[Active] \in Inodes \cup {None}
  BY <1>2
<1>9. ActiveIsNew'
  <2> SUFFICES ASSUME dir[Active] # None, NEW j \in Inodes \ {dir[Active]}
               PROVE  Elements(content'[j]) \cap Elements(content'[dir[Active]]) = {}
    BY <1>5 DEF ActiveIsNew, LinesOf
  <2>1. Elements(content'[dir[Active]]) = LinesOf(dir[Active])
    BY <1>5, <1>8 DEF LinesOf
  <2>2. PICK b \in Inodes \ {dir[Active]} : Elements(content'[j]) = LinesOf(b)
    BY <1>3, <1>5 DEF LinesOf
  <2> QED BY <2>1, <2>2 DEF OnceInv, ActiveIsNew
<1> QED BY <1>1, <1>2, <1>4, <1>5, <1>6, <1>7, <1>8, <1>9 DEF FilesMoved

\* A rotated file goes; the lines of the open one stay readable.
LEMMA DeleteMoves ==
  ASSUME IngestInv, OnceInv, NEW n \in Names, Delete(n) PROVE FilesMoved
<1> USE NamesAndInodes
<1>1. /\ dir[n] # None /\ dir' = [dir EXCEPT ![n] = None]
      /\ content' = IF fd = dir[n] THEN content ELSE [content EXCEPT ![dir[n]] = <<>>]
      /\ UNCHANGED <<pc, name, fd, at, buf, ck, saved, thisLife, twice, evicted, logged>>
  BY DEF Delete, readVars
<1>2. /\ logged \in Nat /\ fd \in Inodes \cup {None}
      /\ dir \in [Sources -> Inodes \cup {None}] /\ content \in [Inodes -> Seq(Nat)]
  BY DEF IngestInv, Types
<1>3. dir[n] \in Inodes /\ dir[n] # dir[Active] /\ n # Active
  BY <1>1, <1>2 DEF IngestInv, OneName
<1>4. /\ dir'[Active] = dir[Active] /\ \A m \in Names : dir'[m] \in {None, dir[m]}
      /\ \A j \in Inodes : content'[j] \in {content[j], <<>>}
      /\ \A j \in Inodes \ {dir[n]} : content'[j] = content[j]
      /\ fd # None => content'[fd] = content[fd]
  BY <1>1, <1>2, <1>3
<1>5. \A j \in Inodes : Orderly(content'[j], logged)
  BY <1>2, <1>4, OrderlyFiles DEF OnceInv, LinesInOrder
<1>6. \A j \in Inodes : Grows(content[j], content[j], logged)
  BY <1>2, OrderlyFiles DEF OnceInv, LinesInOrder
<1>7. dir[Active] \in Inodes \cup {None}
  BY <1>2
<1>8. ActiveIsNew'
  <2> SUFFICES ASSUME dir[Active] # None, NEW j \in Inodes \ {dir[Active]}
               PROVE  Elements(content'[j]) \cap Elements(content'[dir[Active]]) = {}
    BY <1>4 DEF ActiveIsNew, LinesOf
  <2>1. Elements(content'[dir[Active]]) = LinesOf(dir[Active])
    BY <1>3, <1>4, <1>7 DEF LinesOf
  <2>2. Elements(content'[j]) \subseteq LinesOf(j)
    BY <1>2, <1>4, OrderlyFiles DEF LinesOf
  <2> QED BY <2>1, <2>2 DEF OnceInv, ActiveIsNew
<1> QED BY <1>1, <1>2, <1>3, <1>4, <1>5, <1>6, <1>7, <1>8 DEF FilesMoved

\* A file grows old enough to be read.
LEMMA AgeMoves ==
  ASSUME IngestInv, OnceInv, NEW n \in Names, Age(n) PROVE FilesMoved
<1>1. /\ UNCHANGED <<pc, name, fd, at, buf, ck, saved, thisLife, twice, evicted, logged, dir, content>>
      /\ logged \in Nat /\ logged >= logged
      /\ fd \in Inodes \cup {None} /\ dir[Active] \in Inodes \cup {None}
  BY NamesAndInodes DEF Age, readVars, outVars, IngestInv, Types
<1>2. \A j \in Inodes : Orderly(content[j], logged) /\ Grows(content[j], content[j], logged)
  BY <1>1, OrderlyFiles DEF OnceInv, LinesInOrder
<1>3. ActiveIsNew'
  BY <1>1 DEF OnceInv, ActiveIsNew, LinesOf
<1> QED BY <1>1, <1>2, <1>3 DEF FilesMoved

-----------------------------------------------------------------------------
(* The loop. *)

\* A line that was not written from a source in this life, or whose mark was
\* evicted, is not written twice.
LEMMA WriteOnce ==
  ASSUME NEW l, NEW src, Write(l, src), <<l, src>> \notin thisLife \/ src \in evicted
  PROVE  twice' = twice /\ thisLife' \subseteq thisLife \cup {<<l, src>>}
BY DEF Write

\* Moving the offset leaves the rest of the checkpoint alone.
LEMMA OffsetMoved ==
  ASSUME IsCheckpoint(ck), NEW o, ck' = [ck EXCEPT !.offset = o]
  PROVE  ck'.offset = o /\ ck'.inode = ck.inode /\ ck'.completed = ck.completed
<1>1. PICK a, b, d : ck = [inode |-> a, offset |-> b, completed |-> d]
  BY DEF IsCheckpoint
<1>2. ck' = [inode |-> a, offset |-> o, completed |-> d]
  BY <1>1
<1> QED BY <1>1, <1>2

\* A step that leaves the files and what was written alone.
LEMMA NothingWritten ==
  ASSUME IngestInv, OnceInv,
         UNCHANGED <<dir, content, logged, thisLife, twice>>
  PROVE  /\ ActiveIsNew' /\ OncePerName'
         /\ (buf' = buf \/ buf' = <<>> => LinesInOrder')
<1>1. ActiveIsNew' /\ OncePerName'
  BY DEF OnceInv, ActiveIsNew, OncePerName, LinesOf
<1>2. Orderly(<<>>, logged)
  BY OnceFacts, OrderlyFiles
<1> QED BY <1>1, <1>2 DEF OnceInv, LinesInOrder

\* A step with no rotated file open that marks none and evicts none keeps what
\* is known of the rotated files, whatever it writes from the active one.
LEMMA RotatedSame ==
  ASSUME IngestInv, OnceInv, UNCHANGED <<dir, evicted>>,
         pc \notin {"read", "mark"}, pc' \notin {"open", "read", "mark"},
         ck'.completed = ck.completed, saved' \in {ck, saved}, pc # "down",
         \A x \in thisLife' : x \in thisLife \/ x[2] = Active
  PROVE  NamesHold' /\ RotatedIsMarked' /\ NotYetMarked'
<1>1. Marks' \subseteq Marks
  BY DEF Marks
<1>2. NamesHold' /\ NotYetMarked'
  BY <1>1 DEF OnceInv, NamesHold, NotYetMarked
<1>3. RotatedIsMarked'
  BY DEF OnceInv, RotatedIsMarked
<1> QED BY <1>2, <1>3

\* A step that leaves the tail and what is written alone.
LEMMA TailSame ==
  ASSUME IngestInv, OnceInv, UNCHANGED <<dir, content, thisLife>>,
         ck'.inode = ck.inode, ck'.offset = ck.offset, pc # "down",
         pc' # "follow", buf' = <<>>
  PROVE  ActiveIsBehind' /\ TailIsAhead' /\ FollowsActive'
<1>1. ActiveIsBehind'
  BY DEF OnceInv, ActiveIsBehind, Behind, LinesOf
<1> QED BY <1>1 DEF TailIsAhead, FollowsActive

\* Listing, saving, visiting, opening a rotated file and reaching its end: only
\* the place in the pass changes.
LEMMA PassOnce ==
  IngestInv /\ OnceInv /\ (ListRotated \/ Flush) => OnceInv'
<1> SUFFICES ASSUME IngestInv, OnceInv, ListRotated \/ Flush PROVE OnceInv'
  OBVIOUS
<1>1. /\ UNCHANGED <<dir, content, logged, thisLife, twice, evicted, at, buf, ck>>
      /\ saved' \in {ck, saved} /\ pc \in {"top", "flush"} /\ pc' \in {"scan", "top"}
  BY DEF ListRotated, Flush, Go, fileVars, readVars, outVars
<1>2. buf = <<>>
  BY <1>1 DEF OnceInv, TailIsAhead
<1>3. OnceTypes'
  BY <1>1 DEF OnceInv, OnceTypes
<1> QED BY <1>1, <1>2, <1>3, NothingWritten, RotatedSame, TailSame DEF OnceInv

\* A name that is visited and not passed over has no mark: one that it had would
\* hold its inode.
LEMMA VisitOnce ==
  ASSUME IngestInv, OnceInv, NEW n \in Names, VisitRotated(n) PROVE OnceInv'
<1>1. /\ UNCHANGED <<dir, content, logged, thisLife, twice, evicted, at, buf, ck, saved>>
      /\ pc = "scan"
      /\ \/ pc' = "scan" /\ name' = name
         \/ pc' = "open" /\ name' = n /\ dir[n] # None /\ <<n, dir[n]>> \notin Elements(ck.completed)
  BY DEF VisitRotated, IsCompleted, Go, fileVars, outVars
<1>2. buf = <<>>
  BY <1>1 DEF OnceInv, TailIsAhead
<1>3. OnceTypes' /\ NamesHold' /\ RotatedIsMarked'
  BY <1>1 DEF OnceInv, OnceTypes, NamesHold, RotatedIsMarked, Marks
<1>4. NotYetMarked'
  <2> SUFFICES ASSUME pc' = "open", NEW m \in Elements(ck.completed), m[1] = n
               PROVE  FALSE
    BY <1>1 DEF NotYetMarked
  <2>1. dir[n] = m[2]
    BY <1>1 DEF OnceInv, NamesHold, Marks
  <2>2. m = <<m[1], m[2]>>
    BY DEF IngestInv, Types, IsCheckpoint, Elements
  <2> QED BY <2>1, <2>2, <1>1
<1> QED BY <1>1, <1>2, <1>3, <1>4, NothingWritten, TailSame DEF OnceInv

\* The open file is the one that has the name.
LEMMA OpenOnce == IngestInv /\ OnceInv /\ OpenRotated => OnceInv'
<1> SUFFICES ASSUME IngestInv, OnceInv, OpenRotated PROVE OnceInv'
  OBVIOUS
<1>1. /\ UNCHANGED <<dir, content, logged, thisLife, twice, evicted, buf, ck, saved, name>>
      /\ pc = "open" /\ pc' = "read" /\ fd' = dir[name] /\ at' = 0
  BY DEF OpenRotated, Go, fileVars, outVars
<1>2. buf = <<>>
  BY <1>1 DEF OnceInv, TailIsAhead
<1>3. OnceTypes' /\ NamesHold' /\ RotatedIsMarked' /\ NotYetMarked'
  BY <1>1 DEF OnceInv, OnceTypes, NamesHold, RotatedIsMarked, NotYetMarked, Marks
<1> QED BY <1>1, <1>2, <1>3, NothingWritten, TailSame DEF OnceInv

\* Every line read has been written.
LEMMA EndOnce == IngestInv /\ OnceInv /\ EndOfRotated => OnceInv'
<1> SUFFICES ASSUME IngestInv, OnceInv, EndOfRotated PROVE OnceInv'
  OBVIOUS
<1>1. /\ UNCHANGED <<dir, content, logged, thisLife, twice, evicted, at, fd, buf, ck, saved, name>>
      /\ pc = "read" /\ pc' = "mark"
  BY DEF EndOfRotated, Go, fileVars, readVars, outVars
<1>2. buf = <<>>
  BY <1>1 DEF OnceInv, TailIsAhead
<1>3. OnceTypes' /\ NamesHold' /\ RotatedIsMarked' /\ NotYetMarked'
  BY <1>1 DEF OnceInv, OnceTypes, NamesHold, RotatedIsMarked, NotYetMarked, Marks, ReadBefore
<1> QED BY <1>1, <1>2, <1>3, NothingWritten, TailSame DEF OnceInv

\* A line read from a rotated file comes after all that was read of it, so it
\* has not been written from that name.
LEMMA ReadOnce == IngestInv /\ OnceInv /\ ReadRotatedLine => OnceInv'
<1> SUFFICES ASSUME IngestInv, OnceInv, ReadRotatedLine PROVE OnceInv'
  OBVIOUS
<1> USE NamesAndInodes
<1>1. PICK l : l = content[fd][at + 1]
  OBVIOUS
<1>2. /\ UNCHANGED <<dir, content, logged, evicted, fd, buf, ck, saved, name, pc>>
      /\ pc = "read" /\ at' = at + 1 /\ at < Len(content[fd]) /\ Write(l, name)
  BY <1>1 DEF ReadRotatedLine, fileVars
<1>3. /\ name \in Names /\ fd \in Inodes /\ at \in Nat /\ Len(content[fd]) \in Nat
      /\ at + 1 \in 1..Len(content[fd]) /\ l \in Nat /\ l <= logged /\ logged \in Nat
  <2>1. name \in Names /\ fd \in Inodes
    BY <1>2, OnceFacts DEF IngestInv, ReadIsSettled
  <2>2. at \in Nat /\ Len(content[fd]) \in Nat /\ logged \in Nat
    BY <2>1, OnceFacts
  <2>3. at + 1 \in 1..Len(content[fd])
    BY <2>2, <1>2
  <2> QED BY <2>1, <2>2, <2>3, <1>1, OnceFacts
<1>4. \A k \in 1..at : k <= Len(content[fd]) => content[fd][k] # l
  <2> SUFFICES ASSUME NEW k \in 1..at PROVE content[fd][k] # l
    OBVIOUS
  <2>1. k \in 1..Len(content[fd]) /\ k < at + 1
    BY <1>3
  <2>2. content[fd][k] < l
    BY <2>1, <1>1, <1>3 DEF OnceInv, LinesInOrder, Orderly
  <2>3. content[fd][k] \in Nat
    BY <2>1, <1>3, OnceFacts
  <2> QED BY <2>2, <2>3, <1>3
<1>5. <<l, name>> \notin thisLife \/ name \in evicted
  <2> SUFFICES ASSUME <<l, name>> \in thisLife, name \notin evicted PROVE FALSE
    OBVIOUS
  <2>1. PICK x \in thisLife : x = <<l, name>>
    OBVIOUS
  <2>2. x[1] = l /\ x[2] = name
    BY <2>1
  <2>3. ~ReadBefore(l)
    BY <1>2, <1>4 DEF ReadBefore
  <2> QED BY <2>2, <2>3, <1>2, <1>3 DEF OnceInv, RotatedIsMarked, NotYetMarked
<1>6. twice' = twice /\ thisLife' \subseteq thisLife \cup {<<l, name>>}
  BY <1>2, <1>5, WriteOnce
<1>7. PICK new : new = <<l, name>>
  OBVIOUS
<1>7a. new[1] = l /\ new[2] = name
  BY <1>7
<1>8. OnceTypes' /\ LinesInOrder' /\ ActiveIsNew' /\ OncePerName'
  <2>1. OnceTypes'
    BY <1>2, <1>3, <1>6 DEF OnceInv, OnceTypes
  <2>2. \A x \in thisLife' : x[1] <= logged
    BY <1>3, <1>6, <1>7, <1>7a DEF OnceInv, LinesInOrder
  <2> QED BY <2>1, <2>2, <1>2, <1>6 DEF OnceInv, LinesInOrder, ActiveIsNew, OncePerName, LinesOf
<1>9. NamesHold' /\ NotYetMarked'
  BY <1>2 DEF OnceInv, NamesHold, NotYetMarked, Marks
<1>10. RotatedIsMarked'
  <2>1. \A k : ReadBefore(k) => ReadBefore(k)'
    <3>1. 1..at \subseteq 1..(at + 1)
      BY <1>3
    <3> QED BY <3>1, <1>2 DEF ReadBefore
  <2>2. ReadBefore(l)'
    BY <1>1, <1>2, <1>3 DEF ReadBefore
  <2> QED BY <2>1, <2>2, <1>2, <1>6, <1>7, <1>7a DEF OnceInv, RotatedIsMarked
<1>11. ActiveIsBehind'
  <2>1. \A k : <<k, Active>> \in thisLife' => <<k, Active>> \in thisLife
    BY <1>3, <1>6
  <2> QED BY <2>1, <1>2 DEF OnceInv, ActiveIsBehind, Behind, LinesOf
<1>12. TailIsAhead' /\ FollowsActive'
  BY <1>2 DEF OnceInv, TailIsAhead, FollowsActive
<1> QED BY <1>8, <1>9, <1>10, <1>11, <1>12 DEF OnceInv

\* The file just read is marked; a mark that is dropped is evicted.
LEMMA MarkOnce == IngestInv /\ OnceInv /\ MarkCompleted => OnceInv'
<1> SUFFICES ASSUME IngestInv, OnceInv, MarkCompleted PROVE OnceInv'
  OBVIOUS
<1> USE NamesAndInodes
<1>1. PICK all, left :
        /\ all = Append(ck.completed, <<name, fd>>) /\ left = LastOf(all, CompletedLimit)
        /\ ck' = [ck EXCEPT !.completed = left]
        /\ evicted' = evicted \cup {f[1] : f \in Elements(all) \ Elements(left)}
  BY DEF MarkCompleted
<1>2. /\ UNCHANGED <<dir, content, logged, thisLife, twice, saved>>
      /\ pc = "mark" /\ pc' = "scan" /\ at' = 0 /\ buf' = <<>>
  BY DEF MarkCompleted, Go, Close, fileVars, outVars
<1>3. /\ name \in Names /\ fd \in Inodes /\ IsCheckpoint(ck)
  BY <1>2, OnceFacts DEF IngestInv, ReadIsSettled, Types
<1>4. ck'.inode = ck.inode /\ ck'.offset = ck.offset /\ ck'.completed = left
  <2>1. PICK a, b, d : ck = [inode |-> a, offset |-> b, completed |-> d]
    BY <1>3 DEF IsCheckpoint
  <2>2. ck' = [inode |-> a, offset |-> b, completed |-> left]
    BY <2>1, <1>1
  <2> QED BY <2>1, <2>2
<1>5. Elements(all) = Elements(ck.completed) \cup {<<name, fd>>} /\ Elements(left) \subseteq Elements(all)
  <2>1. ck.completed \in Seq(Names \X Inodes) /\ <<name, fd>> \in Names \X Inodes
    BY <1>3 DEF IsCheckpoint
  <2>2. CompletedLimit \in Nat \ {0}
    BY IngestAssumption
  <2>3. all \in Seq(Names \X Inodes) /\ Elements(all) = Elements(ck.completed) \cup {<<name, fd>>}
    <3>1. /\ Append(ck.completed, <<name, fd>>) \in Seq(Names \X Inodes)
          /\ Elements(Append(ck.completed, <<name, fd>>)) = Elements(ck.completed) \cup {<<name, fd>>}
      BY <2>1, ElementsOfAppend
    <3> QED BY <3>1, <1>1
  <2>4. left \in Seq(Names \X Inodes) /\ Elements(left) \subseteq Elements(all)
    BY <2>2, <2>3, <1>1, ElementsOfLast
  <2> QED BY <2>3, <2>4
<1>6. PICK new : new = <<name, fd>>
  OBVIOUS
<1>6a. new[1] = name /\ new[2] = fd
  BY <1>6
<1>7. OnceTypes' /\ NotYetMarked'
  BY <1>2, <1>4 DEF OnceInv, OnceTypes, NotYetMarked
<1>8. NamesHold'
  <2>1. Marks' \subseteq Marks \cup {new}
    BY <1>2, <1>4, <1>5, <1>6 DEF Marks
  <2> QED BY <2>1, <1>2, <1>6a DEF OnceInv, NamesHold
<1>9. RotatedIsMarked'
  <2> SUFFICES ASSUME NEW x \in thisLife, x[2] \notin evicted' \cup {Active}
               PROVE  \E m \in Elements(left) : m[1] = x[2]
    BY <1>2, <1>4 DEF RotatedIsMarked
  <2>1. \E m \in Elements(all) : m[1] = x[2]
    BY <1>1, <1>2, <1>5, <1>6, <1>6a DEF OnceInv, RotatedIsMarked
  <2> QED BY <2>1, <1>1
<1> QED BY <1>2, <1>4, <1>7, <1>8, <1>9, NothingWritten, TailSame DEF OnceInv

\* A tail that is not on the active file's inode, or is past its end, has written
\* nothing of that file; it starts again, and stops following.
LEMMA TurnOnce ==
  IngestInv /\ OnceInv /\ (TailStat \/ TailSize \/ TailSwitched \/ TailIdle) => OnceInv'
<1> SUFFICES ASSUME IngestInv, OnceInv, TailStat \/ TailSize \/ TailSwitched \/ TailIdle
             PROVE  OnceInv'
  OBVIOUS
<1>1. /\ UNCHANGED <<dir, content, logged, thisLife, twice, evicted, saved>>
      /\ pc \in {"scan", "size", "follow"} /\ pc' \in {"size", "topen", "flush"}
      /\ buf' \in {buf, <<>>} /\ (pc = "follow" => buf' = <<>>) /\ at' \in {at, 0}
  BY DEF TailStat, TailSize, TailSwitched, TailIdle, Go, Close, fileVars, readVars, outVars
<1>2. buf' = <<>>
  BY <1>1 DEF OnceInv, TailIsAhead
<1>3. IsCheckpoint(ck) /\ dir[Active] \in Inodes \cup {None}
  BY OnceFacts DEF IngestInv, Types
<1>4. /\ ck'.completed = ck.completed
      /\ \/ ck' = ck
         \/ ck'.offset = 0 /\ dir[Active] # None
            /\ (ck.inode # dir[Active] \/ Len(content[dir[Active]]) < ck.offset)
  <2>1. \/ ck' = ck
        \/ ck' = FromStart(dir[Active]) /\ dir[Active] # None /\ ck.inode # dir[Active]
        \/ ck' = [ck EXCEPT !.offset = 0] /\ dir[Active] # None /\ Len(content[dir[Active]]) < ck.offset
    BY DEF TailStat, TailSize, TailSwitched, TailIdle
  <2>2. CASE ck' = FromStart(dir[Active]) /\ dir[Active] # None /\ ck.inode # dir[Active]
    BY <2>2 DEF FromStart
  <2>3. CASE ck' = [ck EXCEPT !.offset = 0] /\ dir[Active] # None /\ Len(content[dir[Active]]) < ck.offset
    BY <2>3, <1>3, OffsetMoved
  <2> QED BY <2>1, <2>2, <2>3
<1>5. OnceTypes'
  BY <1>1, <1>4 DEF OnceInv, OnceTypes
<1>6. ActiveIsBehind'
  <2>1. CASE ck' = ck
    BY <2>1, <1>1 DEF OnceInv, ActiveIsBehind, Behind, LinesOf
  <2>2. CASE dir[Active] # None /\ (ck.inode # dir[Active] \/ Len(content[dir[Active]]) < ck.offset)
    <3>1. Len(content[dir[Active]]) \in Nat /\ ck.offset \in Nat
      BY <2>2, <1>3, OnceFacts
    <3>2. \A l : ~Behind(l)
      BY <2>2, <3>1 DEF Behind
    <3>3. \A l \in LinesOf(dir[Active]) : <<l, Active>> \notin thisLife
      BY <2>2, <3>2, <1>1 DEF OnceInv, ActiveIsBehind
    <3> QED BY <3>3, <1>1 DEF ActiveIsBehind, LinesOf
  <2> QED BY <2>1, <2>2, <1>4
<1>7. TailIsAhead' /\ FollowsActive'
  BY <1>1, <1>2 DEF TailIsAhead, FollowsActive
<1> QED BY <1>1, <1>2, <1>4, <1>5, <1>6, <1>7, NothingWritten, RotatedSame DEF OnceInv

\* The tail opens the active file at the offset: what was written of it is
\* behind.
LEMMA TailOpenOnce == IngestInv /\ OnceInv /\ TailOpen => OnceInv'
<1> SUFFICES ASSUME IngestInv, OnceInv, TailOpen PROVE OnceInv'
  OBVIOUS
<1> USE NamesAndInodes
<1>1. /\ UNCHANGED <<dir, content, logged, thisLife, twice, evicted, saved, buf, ck>>
      /\ pc = "topen" /\ dir[Active] # None
      /\ pc' = "follow" /\ fd' = dir[Active] /\ at' = ck.offset
  BY DEF TailOpen, Go, fileVars, outVars
<1>2. buf = <<>> /\ Len(buf) = 0 /\ 1..0 = {} /\ Elements(buf) = {}
  BY <1>1, OrderlyFiles DEF OnceInv, TailIsAhead
<1>3. PICK a : a = dir[Active] /\ a \in Inodes
  BY <1>1, OnceFacts
<1>4. Len(content[a]) \in Nat /\ ck.offset \in Nat
  BY <1>3, OnceFacts
<1>5. \A l \in LinesOf(a) : <<l, Active>> \in thisLife => Behind(l)
  BY <1>1, <1>3 DEF OnceInv, ActiveIsBehind
<1>6. OnceTypes' /\ ActiveIsBehind'
  BY <1>1 DEF OnceInv, OnceTypes, ActiveIsBehind, Behind, LinesOf
<1>7. TailIsAhead'
  <2> SUFFICES ASSUME NEW k \in 1..Len(content[a]), k > ck.offset, <<content[a][k], Active>> \in thisLife
               PROVE  FALSE
    BY <1>1, <1>2, <1>3, <1>4 DEF TailIsAhead
  <2>1. Behind(content[a][k])
    BY <1>5 DEF LinesOf, Elements
  <2>2. PICK j \in 1..ck.offset : content[a][j] = content[a][k]
    BY <2>1, <1>3 DEF Behind
  <2>3. j \in 1..Len(content[a]) /\ j < k
    BY <1>4
  <2>4. content[a][j] < content[a][k]
    BY <2>3, <1>3 DEF OnceInv, LinesInOrder, Orderly
  <2>5. content[a][k] \in Nat
    BY <1>3, OnceFacts
  <2> QED BY <2>2, <2>4, <2>5
<1>8. FollowsActive'
  <2> SUFFICES ASSUME NEW l \in LinesOf(a), <<l, Active>> \in thisLife
               PROVE  ck.offset <= Len(content[a])
    BY <1>1, <1>2, <1>3 DEF FollowsActive, NewFile, Intact, LinesOf
  <2> QED BY <1>3, <1>5 DEF Behind
<1> QED BY <1>1, <1>6, <1>7, <1>8, NothingWritten, RotatedSame DEF OnceInv

\* What is read after a place in a file, in its order.
LEMMA RestOfFile ==
  ASSUME NEW s, NEW top, Orderly(s, top), NEW p \in Nat, p < Len(s)
  PROVE  LET t == SubSeq(s, p + 1, Len(s)) IN
         /\ Orderly(t, top) /\ Len(t) = Len(s) - p
         /\ \A j \in 1..Len(t) : t[j] = s[p + j] /\ p + j \in 1..Len(s)
<1>1. PICK t : t = SubSeq(s, p + 1, Len(s))
  OBVIOUS
<1>2. s \in Seq(Nat) /\ Len(s) \in Nat /\ p + 1 \in 1..Len(s)
  BY DEF Orderly
<1>3. t \in Seq(Nat) /\ Len(t) = Len(s) - p
  BY <1>1, <1>2
<1>4. \A j \in 1..Len(t) : t[j] = s[p + j] /\ p + j \in 1..Len(s)
  BY <1>1, <1>2, <1>3
<1>5. \A j, k \in 1..Len(t) : j < k => p + j < p + k
  BY <1>2, <1>3
<1>6. Orderly(t, top)
  BY <1>3, <1>4, <1>5 DEF Orderly
<1> QED BY <1>1, <1>3, <1>4, <1>6

\* The chunk is the rest of the followed file; if that is not the active one,
\* the active one holds none of it.
LEMMA ChunkOnce == IngestInv /\ OnceInv /\ TailChunk => OnceInv'
<1> SUFFICES ASSUME IngestInv, OnceInv, TailChunk PROVE OnceInv'
  OBVIOUS
<1> USE NamesAndInodes
<1>1. PICK t : t = SubSeq(content[fd], at + 1, Len(content[fd]))
  OBVIOUS
<1>2. /\ UNCHANGED <<dir, content, logged, thisLife, twice, evicted, saved, fd, ck, pc>>
      /\ pc = "follow" /\ buf = <<>> /\ at < Len(content[fd])
      /\ buf' = t /\ at' = Len(content[fd])
  BY <1>1 DEF TailChunk, fileVars, outVars
<1>3. /\ fd \in Inodes /\ at \in Nat /\ Len(content[fd]) \in Nat /\ Orderly(content[fd], logged)
      /\ ck.offset \in Nat /\ ck.offset <= at
      /\ \A k \in 1..Len(content[fd]) : k > at => <<content[fd][k], Active>> \notin thisLife
  <2>1. fd \in Inodes /\ Len(buf) = 0 /\ at \in Nat /\ ck.offset \in Nat
    BY <1>2, OnceFacts DEF OnceInv, TailIsAhead
  <2>2. Orderly(content[fd], logged) /\ Len(content[fd]) \in Nat
    BY <2>1, OnceFacts DEF OnceInv, LinesInOrder
  <2>3. /\ ck.offset <= at - Len(buf)
        /\ \A k \in 1..Len(content[fd]) : k > at => <<content[fd][k], Active>> \notin thisLife
    BY <1>2 DEF OnceInv, TailIsAhead
  <2>4. ck.offset <= at
    BY <2>1, <2>3
  <2> QED BY <2>1, <2>2, <2>3, <2>4
<1>4. /\ Orderly(t, logged) /\ Len(t) = Len(content[fd]) - at /\ Len(t) \in Nat
      /\ \A j \in 1..Len(t) : t[j] = content[fd][at + j] /\ at + j \in 1..Len(content[fd])
  <2>1. /\ Orderly(t, logged) /\ Len(t) = Len(content[fd]) - at
        /\ \A j \in 1..Len(t) : t[j] = content[fd][at + j] /\ at + j \in 1..Len(content[fd])
    BY <1>1, <1>2, <1>3, RestOfFile
  <2>2. Len(t) \in Nat
    BY <2>1, <1>2, <1>3
  <2> QED BY <2>1, <2>2
<1>5. OnceTypes' /\ LinesInOrder' /\ ActiveIsBehind' /\ ActiveIsNew' /\ OncePerName'
  BY <1>2, <1>3, <1>4
     DEF OnceInv, OnceTypes, LinesInOrder, ActiveIsBehind, Behind, LinesOf, ActiveIsNew, OncePerName
<1>6. NamesHold' /\ RotatedIsMarked' /\ NotYetMarked'
  BY <1>2, RotatedSame
<1>7. TailIsAhead'
  <2>1. Len(t) <= Len(content[fd]) /\ ck.offset <= Len(content[fd]) - Len(t)
    BY <1>3, <1>4
  <2>2. \A j \in 1..Len(t) : <<t[j], Active>> \notin thisLife
    <3>1. \A j \in 1..Len(t) : at + j > at
      BY <1>3, <1>4
    <3> QED BY <3>1, <1>3, <1>4
  <2>3. \A k \in 1..Len(content[fd]) : ~(k > Len(content[fd]))
    BY <1>3
  <2> QED BY <2>1, <2>2, <2>3, <1>2, <1>3 DEF OnceInv, TailIsAhead
<1>8. FollowsActive'
  <2> SUFFICES ASSUME dir[Active] # None PROVE NewFile' \/ Intact'
    BY <1>2 DEF FollowsActive
  <2>1. CASE fd = dir[Active]
    <3>1. Len(content[fd]) - Len(t) = at /\ Len(content[fd]) <= Len(content[fd])
      BY <1>3, <1>4
    <3>2. \A j \in 1..Len(t) : t[j] = content[fd][Len(content[fd]) - Len(t) + j]
      BY <3>1, <1>4
    <3>3. fd' = dir'[Active] /\ at' <= Len(content'[fd'])
      BY <3>1, <2>1, <1>2
    <3>4. \A j \in 1..Len(buf') : buf'[j] = content'[fd'][at' - Len(buf') + j]
      BY <3>2, <1>2
    <3> QED BY <3>3, <3>4 DEF Intact
  <2>2. CASE fd # dir[Active]
    <3>1. \A l \in LinesOf(dir[Active]) : <<l, Active>> \notin thisLife
      BY <2>2, <1>2 DEF OnceInv, FollowsActive, NewFile, Intact
    <3>2. Elements(t) \subseteq LinesOf(fd)
      BY <1>4 DEF Elements, LinesOf
    <3>3. LinesOf(fd) \cap LinesOf(dir[Active]) = {}
      BY <2>2, <1>3 DEF OnceInv, ActiveIsNew
    <3> QED BY <3>1, <3>2, <3>3, <1>2 DEF NewFile, LinesOf
  <2> QED BY <2>1, <2>2
<1> QED BY <1>5, <1>6, <1>7, <1>8 DEF OnceInv

\* A sequence of lines without its first: each is later.
LEMMA TailIsLater ==
  ASSUME NEW s, NEW top, Orderly(s, top), s # <<>>
  PROVE  /\ Orderly(Tail(s), top) /\ Len(Tail(s)) = Len(s) - 1 /\ Len(s) > 0 /\ Len(s) \in Nat
         /\ Head(s) = s[1] /\ s[1] \in Nat /\ s[1] <= top
         /\ \A j \in 1..Len(Tail(s)) :
              /\ Tail(s)[j] = s[j + 1] /\ j + 1 \in 1..Len(s)
              /\ Tail(s)[j] \in Nat /\ s[1] < Tail(s)[j]
<1>1. PICK t : t = Tail(s)
  OBVIOUS
<1>2. s \in Seq(Nat) /\ Len(s) \in Nat /\ Len(s) > 0 /\ Head(s) = s[1]
  BY DEF Orderly
<1>3. t \in Seq(Nat) /\ Len(t) = Len(s) - 1
  BY <1>1, <1>2
<1>4. \A j \in 1..Len(t) : t[j] = s[j + 1] /\ j + 1 \in 1..Len(s)
  BY <1>1, <1>2, <1>3
<1>5. 1 \in 1..Len(s) /\ s[1] \in Nat /\ s[1] <= top
  BY <1>2 DEF Orderly
<1>6. \A j, k \in 1..Len(t) : j < k => j + 1 < k + 1
  BY <1>3
<1>7. Orderly(t, top)
  BY <1>3, <1>4, <1>6 DEF Orderly
<1>8. \A j \in 1..Len(t) : t[j] \in Nat /\ 1 < j + 1
  BY <1>2, <1>3, <1>4
<1>9. \A j \in 1..Len(t) : s[1] < t[j]
  BY <1>4, <1>5, <1>8 DEF Orderly
<1> QED BY <1>1, <1>2, <1>3, <1>4, <1>5, <1>7, <1>8, <1>9

\* The line that is handed over was not written, and the offset then stands
\* behind it.
LEMMA TailLineOnce == IngestInv /\ OnceInv /\ TailLine => OnceInv'
<1> SUFFICES ASSUME IngestInv, OnceInv, TailLine PROVE OnceInv'
  OBVIOUS
<1> USE NamesAndInodes
<1>1. PICK l, o, n : l = Head(buf) /\ n = Len(buf) /\ o = at - n + 1
  OBVIOUS
<1>2. /\ UNCHANGED <<dir, content, logged, evicted, saved>>
      /\ pc = "follow" /\ buf # <<>> /\ dir[Active] \in {None, ck.inode}
      /\ Write(l, Active) /\ ck' = [ck EXCEPT !.offset = o]
      /\ \/ buf' = Tail(buf) /\ UNCHANGED <<pc, fd, at>>
         \/ pc' = "flush" /\ buf' = <<>> /\ at' = 0
  BY <1>1 DEF TailLine, Go, Close, fileVars
<1>3. /\ Orderly(Tail(buf), logged) /\ Len(Tail(buf)) = n - 1 /\ n > 0 /\ n \in Nat
      /\ l = buf[1] /\ l \in Nat /\ l <= logged
      /\ \A j \in 1..Len(Tail(buf)) :
           /\ Tail(buf)[j] = buf[j + 1] /\ j + 1 \in 1..n
           /\ Tail(buf)[j] \in Nat /\ l < Tail(buf)[j]
  BY <1>1, <1>2, TailIsLater DEF OnceInv, LinesInOrder
<1>4. /\ fd \in Inodes /\ at \in Nat /\ n <= at /\ ck.offset <= at - n /\ ck.offset \in Nat
      /\ \A j \in 1..n : <<buf[j], Active>> \notin thisLife
      /\ \A k \in 1..Len(content[fd]) : k > at =>
            /\ <<content[fd][k], Active>> \notin thisLife
            /\ \A j \in 1..n : buf[j] < content[fd][k]
  BY <1>1, <1>2, OnceFacts DEF OnceInv, TailIsAhead
<1>5. /\ o \in Nat /\ o \in 1..at /\ ck.offset <= o - 1 /\ 1 \in 1..n /\ at - n + 1 = o
      /\ Len(Tail(buf)) <= at /\ o <= at - Len(Tail(buf))
  BY <1>1, <1>3, <1>4
<1>6. ck'.offset = o /\ ck'.inode = ck.inode /\ ck'.completed = ck.completed
  BY <1>2, OffsetMoved DEF IngestInv, Types
<1>7. twice' = twice /\ thisLife' \subseteq thisLife \cup {<<l, Active>>}
  BY <1>2, <1>3, <1>4, <1>5, WriteOnce
<1>8. PICK new : new = <<l, Active>>
  OBVIOUS
<1>8a. new[1] = l /\ new[2] = Active /\ \A k : <<k, Active>> = new => k = l
  BY <1>8
<1>9. OnceTypes' /\ LinesInOrder' /\ ActiveIsNew' /\ OncePerName'
  <2>1. OnceTypes'
    <3>1. at' \in Nat
      BY <1>2, <1>4
    <3>2. thisLife' \subseteq Nat \X Sources
      BY <1>3, <1>7 DEF OnceInv, OnceTypes
    <3> QED BY <3>1, <3>2, <1>2, <1>5, <1>6 DEF OnceInv, OnceTypes
  <2>2. \A x \in thisLife' : x[1] <= logged
    BY <1>3, <1>7, <1>8, <1>8a DEF OnceInv, LinesInOrder
  <2>3. Orderly(buf', logged)
    BY <1>2, <1>3, OrderlyFiles, OnceFacts
  <2> QED BY <2>1, <2>2, <2>3, <1>2, <1>7 DEF OnceInv, LinesInOrder, ActiveIsNew, OncePerName, LinesOf
<1>10. NamesHold' /\ RotatedIsMarked' /\ NotYetMarked'
  <2>1. \A x \in thisLife' : x \in thisLife \/ x[2] = Active
    BY <1>7, <1>8, <1>8a
  <2>2. pc' \notin {"open", "read", "mark"}
    BY <1>2
  <2> QED BY <2>1, <2>2, <1>2, <1>6, RotatedSame
<1>11. ActiveIsBehind'
  <2> SUFFICES ASSUME dir[Active] # None, NEW x \in LinesOf(dir[Active]), <<x, Active>> \in thisLife'
               PROVE  Behind(x)'
    BY <1>2 DEF ActiveIsBehind, LinesOf
  <2>1. PICK a : a = dir[Active]
    OBVIOUS
  <2>2. <<x, Active>> \in thisLife \/ x = l
    BY <1>7, <1>8, <1>8a
  <2>3. l \in Elements(buf)
    BY <1>1, <1>3, <1>5 DEF Elements
  <2>4. Intact
    <3>1. ~NewFile => Intact
      BY <1>2, <2>1 DEF OnceInv, FollowsActive
    <3>2. ~NewFile
      BY <2>2, <2>3 DEF NewFile
    <3> QED BY <3>1, <3>2
  <2>5. fd = a /\ at <= Len(content[a]) /\ Len(content[a]) \in Nat /\ content[a][o] = l
    <3>1. fd = a /\ at <= Len(content[a]) /\ Len(content[a]) \in Nat
      BY <2>1, <2>4, <1>4, OnceFacts DEF Intact
    <3>2. buf[1] = content[fd][at - n + 1]
      BY <2>4, <1>1, <1>5 DEF Intact
    <3> QED BY <3>1, <3>2, <1>3, <1>5
  <2>6. ck.inode = a
    BY <1>2, <2>1
  <2>7. o <= Len(content[a])
    BY <2>5, <1>4, <1>5
  <2>8. \E k \in 1..o : content[a][k] = x
    <3>1. CASE x = l
      BY <3>1, <2>5, <1>5
    <3>2. CASE <<x, Active>> \in thisLife
      <4>1. PICK k \in 1..ck.offset : content[a][k] = x
        BY <3>2, <2>1, <1>2 DEF OnceInv, ActiveIsBehind, Behind
      <4>2. k \in 1..o
        BY <1>4, <1>5
      <4> QED BY <4>1, <4>2
    <3> QED BY <3>1, <3>2, <2>2
  <2> QED BY <2>1, <2>6, <2>7, <2>8, <1>2, <1>6 DEF Behind
<1>12. ASSUME buf' = Tail(buf), UNCHANGED <<pc, fd, at>>
       PROVE  TailIsAhead' /\ FollowsActive'
  <2>1. PICK t : t = Tail(buf)
    OBVIOUS
  <2>2. \A j \in 1..Len(t) : <<t[j], Active>> \notin thisLife'
    <3> SUFFICES ASSUME NEW j \in 1..Len(t) PROVE <<t[j], Active>> \notin thisLife'
      OBVIOUS
    <3>1. t[j] = buf[j + 1] /\ j + 1 \in 1..n /\ t[j] \in Nat /\ l < t[j]
      BY <2>1, <1>3
    <3>2. t[j] # l
      BY <3>1, <1>3
    <3>3. <<t[j], Active>> \notin thisLife
      BY <3>1, <1>4
    <3> QED BY <3>2, <3>3, <1>7, <1>8, <1>8a
  <2>3. ASSUME NEW k \in 1..Len(content[fd]), k > at
        PROVE  /\ <<content[fd][k], Active>> \notin thisLife'
               /\ \A j \in 1..Len(t) : t[j] < content[fd][k]
    <3>1. content[fd][k] \in Nat
      BY <1>4, OnceFacts
    <3>2. l < content[fd][k]
      BY <2>3, <1>3, <1>4, <1>5
    <3>3. content[fd][k] # l
      BY <3>1, <3>2, <1>3
    <3>4. <<content[fd][k], Active>> \notin thisLife
      BY <2>3, <1>4
    <3>5. \A j \in 1..Len(t) : t[j] < content[fd][k]
      BY <2>1, <2>3, <1>3, <1>4
    <3> QED BY <3>3, <3>4, <3>5, <1>7, <1>8, <1>8a
  <2>4. TailIsAhead'
    BY <1>2, <1>4, <1>5, <1>6, <1>12, <2>1, <2>2, <2>3, NamesAndInodes DEF OnceInv, TailIsAhead
  <2>5. FollowsActive'
    <3> SUFFICES ASSUME dir[Active] # None PROVE NewFile' \/ Intact'
      BY <1>2 DEF FollowsActive
    <3>1. CASE NewFile
      <4>1. l \in Elements(buf) /\ Elements(t) \subseteq Elements(buf)
        BY <2>1, <1>1, <1>3, <1>5 DEF Elements
      <4>2. \A x \in LinesOf(dir[Active]) : <<x, Active>> \notin thisLife' /\ x \notin Elements(t)
        BY <3>1, <4>1, <1>7, <1>8, <1>8a DEF NewFile
      <4> QED BY <4>2, <2>1, <1>2, <1>12 DEF NewFile, LinesOf
    <3>2. CASE Intact
      <4>1. at - Len(t) = at - n + 1
        BY <2>1, <1>3, <1>4
      <4>2. ASSUME NEW j \in 1..Len(t) PROVE t[j] = content[fd][at - Len(t) + j]
        <5>1. t[j] = buf[j + 1] /\ j + 1 \in 1..n
          BY <2>1, <1>3
        <5>2. buf[j + 1] = content[fd][at - n + (j + 1)]
          BY <5>1, <3>2, <1>1 DEF Intact
        <5>3. at - n + (j + 1) = at - Len(t) + j
          BY <4>1, <1>3, <1>4
        <5> QED BY <5>1, <5>2, <5>3
      <4>3. \A j \in 1..Len(buf') : buf'[j] = content'[fd'][at' - Len(buf') + j]
        BY <4>2, <2>1, <1>2, <1>12
      <4>4. fd' = dir'[Active] /\ at' <= Len(content'[fd'])
        BY <3>2, <1>2, <1>12 DEF Intact
      <4> QED BY <4>3, <4>4 DEF Intact
    <3> QED BY <3>1, <3>2, <1>2 DEF OnceInv, FollowsActive
  <2> QED BY <2>4, <2>5
<1>13. ASSUME pc' = "flush", buf' = <<>>
       PROVE  TailIsAhead' /\ FollowsActive'
  BY <1>13 DEF TailIsAhead, FollowsActive
<1> QED BY <1>2, <1>9, <1>10, <1>11, <1>12, <1>13 DEF OnceInv

\* The end of the process and its restart: a life begins with nothing written.
LEMMA LivesOnce == IngestInv /\ OnceInv /\ (VanishedBeforeOpen \/ Stop \/ Kill \/ Restart) => OnceInv'
<1> SUFFICES ASSUME IngestInv, OnceInv, VanishedBeforeOpen \/ Stop \/ Kill \/ Restart PROVE OnceInv'
  OBVIOUS
<1>1. /\ UNCHANGED <<dir, content, logged, twice>> /\ saved' \in {ck, saved}
      /\ \/ /\ pc' = "down" /\ at' = 0 /\ buf' = <<>> /\ ck' = Fresh /\ thisLife' = thisLife
         \/ /\ pc = "down" /\ pc' = "top" /\ UNCHANGED <<at, buf>> /\ ck' = saved /\ thisLife' = {}
  BY DEF VanishedBeforeOpen, Stop, Kill, Restart, Die, Go, Close, fileVars, readVars, outVars
<1>2. buf' = <<>>
  BY <1>1 DEF OnceInv, TailIsAhead
<1>3. Elements(ck'.completed) \cup Elements(saved'.completed) \subseteq Marks
  BY <1>1, FreshCheckpoint DEF Marks
<1>4. OnceTypes'
  BY <1>1 DEF OnceInv, OnceTypes, Fresh
<1>5. LinesInOrder' /\ ActiveIsNew' /\ OncePerName'
  <2>1. Orderly(<<>>, logged)
    BY OnceFacts, OrderlyFiles
  <2> QED BY <2>1, <1>1, <1>2 DEF OnceInv, LinesInOrder, ActiveIsNew, OncePerName, LinesOf
<1>6. NamesHold' /\ RotatedIsMarked' /\ NotYetMarked' /\ ActiveIsBehind'
  BY <1>1, <1>3 DEF OnceInv, NamesHold, Marks, RotatedIsMarked, NotYetMarked, ActiveIsBehind
<1>7. TailIsAhead' /\ FollowsActive'
  BY <1>1, <1>2 DEF TailIsAhead, FollowsActive
<1> QED BY <1>4, <1>5, <1>6, <1>7 DEF OnceInv

\* The first state: nothing is written and every file is empty.
LEMMA OnceInvInit == Init => OnceInv
<1> SUFFICES ASSUME Init PROVE OnceInv
  OBVIOUS
<1>1. Orderly(<<>>, 0) /\ Elements(<<>>) = {}
  BY OrderlyFiles
<1>2. /\ \A i \in Inodes : content[i] = <<>>
      /\ dir[Active] = 1 /\ 1 \in Inodes
      /\ pc = "top" /\ at = 0 /\ buf = <<>> /\ thisLife = {} /\ twice = {} /\ logged = 0
      /\ ck = Fresh /\ saved = Fresh /\ Fresh.offset = 0 /\ Marks = {}
  BY FreshCheckpoint, NamesAndInodes DEF Init, Fresh, Marks
<1>3. LinesInOrder /\ OnceTypes /\ ActiveIsNew
  BY <1>1, <1>2 DEF LinesInOrder, OnceTypes, ActiveIsNew, LinesOf
<1> QED BY <1>2, <1>3 DEF OnceInv, NamesHold, RotatedIsMarked, NotYetMarked, ActiveIsBehind,
                         TailIsAhead, FollowsActive, OncePerName

\* Every step keeps what one life has written written once.
LEMMA OnceInvNext == IngestInv /\ OnceInv /\ [Next]_vars => OnceInv'
<1> SUFFICES ASSUME IngestInv, OnceInv, [Next]_vars PROVE OnceInv'
  OBVIOUS
<1>1. CASE UNCHANGED vars
  <2>1. UNCHANGED <<dir, content, logged, pc, name, fd, at, buf, ck, saved, thisLife, twice, evicted>>
    BY <1>1 DEF vars, fileVars, readVars, outVars
  <2> QED BY <2>1 DEF OnceInv, LinesInOrder, OnceTypes, ActiveIsNew, NamesHold, RotatedIsMarked, ReadBefore,
                NotYetMarked, ActiveIsBehind, Behind, TailIsAhead, FollowsActive, NewFile, Intact,
                OncePerName, LinesOf, Marks
<1>2. CASE Loop
  BY <1>2, PassOnce, VisitOnce, OpenOnce, LivesOnce, ReadOnce, EndOnce, MarkOnce, TurnOnce,
     TailOpenOnce, ChunkOnce, TailLineOnce DEF Loop
<1>3. CASE Stop \/ Kill
  BY <1>3, LivesOnce
<1>4. CASE Firewall
  BY <1>4, LogMoves, RotateMoves, ReopenMoves, CopyTruncateMoves, FilesMoveOnce DEF Firewall
<1>5. CASE Housekeeping
  BY <1>5, CompressMoves, DeleteMoves, FilesMoveOnce DEF Housekeeping
<1>6. CASE \E n \in Names : Age(n)
  BY <1>6, AgeMoves, FilesMoveOnce
<1> QED BY <1>1, <1>2, <1>3, <1>4, <1>5, <1>6 DEF Next

-----------------------------------------------------------------------------
(***************************************************************************)
(* The lines do not wander from one rotation to another.  A rotation is    *)
(* the origin of a line if the line is in a file of it that has a name, is *)
(* in the rotated file that is open, or was written from such a file in    *)
(* this life.  A line has one origin at most, and while it is in the       *)
(* active file it has none; with what was shown above, it is written at    *)
(* most from the tail, from the file of its rotation and from its .gz.     *)
(***************************************************************************)
InFileOf(l, r) == \E n \in Names : n[1] = r /\ dir[n] # None /\ l \in LinesOf(dir[n])
InOpenFileOf(l, r) == pc \in {"read", "mark"} /\ name[1] = r /\ l \in LinesOf(fd)
WrittenFrom(l, r) == \E x \in thisLife : x[1] = l /\ x[2] # Active /\ x[2][1] = r
Origin(l, r) == InFileOf(l, r) \/ InOpenFileOf(l, r) \/ WrittenFrom(l, r)

OneOrigin == \A l, q, r : Origin(l, q) /\ Origin(l, r) => q = r

ActiveHasNone ==
  dir[Active] # None => \A l \in LinesOf(dir[Active]) : \A r : ~Origin(l, r)

\* The open rotated file has no name of another rotation.
OpenIsNamed ==
  \A n \in Names : pc \in {"read", "mark"} /\ dir[n] = fd => n[1] = name[1]

OriginInv == OneOrigin /\ ActiveHasNone /\ OpenIsNamed

\* A step by which no line gets an origin, and none comes into the active file.
LEMMA NoNewOrigin ==
  ASSUME OriginInv, OpenIsNamed',
         \A l, r : Origin(l, r)' => Origin(l, r),
         dir'[Active] # None => \/ Elements(content'[dir'[Active]]) = {}
                                \/ dir[Active] # None /\ LinesOf(dir[Active])' = LinesOf(dir[Active])
  PROVE  OriginInv'
<1>1. OneOrigin'
  BY DEF OriginInv, OneOrigin
<1>2. ActiveHasNone'
  <2> SUFFICES ASSUME dir'[Active] # None, NEW l \in LinesOf(dir[Active])', NEW r, Origin(l, r)'
               PROVE  FALSE
    BY DEF ActiveHasNone
  <2>1. Origin(l, r)
    OBVIOUS
  <2>2. dir[Active] # None /\ l \in LinesOf(dir[Active])
    BY DEF LinesOf
  <2> QED BY <2>1, <2>2 DEF OriginInv, ActiveHasNone
<1> QED BY <1>1, <1>2 DEF OriginInv

\* The lines of the active file get the rotation that is made as their origin,
\* and the active file is gone or emptied.
LEMMA RotationIsOrigin ==
  ASSUME OriginInv, OpenIsNamed', dir[Active] # None,
         \A l, r : Origin(l, r)' => Origin(l, r) \/ (l \in LinesOf(dir[Active]) /\ r = rotations + 1),
         dir'[Active] # None => Elements(content'[dir'[Active]]) = {}
  PROVE  OriginInv'
<1>1. OneOrigin'
  BY DEF OriginInv, OneOrigin, ActiveHasNone
<1>2. ActiveHasNone'
  BY DEF ActiveHasNone, LinesOf
<1> QED BY <1>1, <1>2 DEF OriginInv

\* A line that has an origin, or is in a file, was logged.
LEMMA OriginIsOld ==
  ASSUME IngestInv, OnceInv, NEW l, NEW r, Origin(l, r)
  PROVE  l \in Nat /\ l <= logged
<1>1. ASSUME NEW i \in Inodes, l \in LinesOf(i) PROVE l \in Nat /\ l <= logged
  <2>1. PICK k \in 1..Len(content[i]) : content[i][k] = l
    BY <1>1 DEF LinesOf, Elements
  <2> QED BY <2>1, OnceFacts
<1>2. CASE InFileOf(l, r)
  BY <1>1, <1>2, NamesAndInodes DEF InFileOf, IngestInv, Types
<1>3. CASE InOpenFileOf(l, r)
  <2>1. fd \in Inodes
    BY <1>3, OnceFacts DEF InOpenFileOf, IngestInv, ReadIsSettled
  <2> QED BY <1>1, <1>3, <2>1 DEF InOpenFileOf
<1>4. CASE WrittenFrom(l, r)
  BY <1>4, OnceFacts DEF WrittenFrom
<1> QED BY <1>2, <1>3, <1>4 DEF Origin

\* A new line is in the file of one rotation at most.
LEMMA LogOrigin == IngestInv /\ OnceInv /\ OriginInv /\ Log => OriginInv'
<1> SUFFICES ASSUME IngestInv, OnceInv, OriginInv, Log PROVE OriginInv'
  OBVIOUS
<1> USE NamesAndInodes
<1>1. /\ UNCHANGED <<pc, name, fd, thisLife, dir, writer>>
      /\ logged \in Nat /\ writer \in Inodes /\ content \in [Inodes -> Seq(Nat)]
      /\ content' = [content EXCEPT ![writer] = Append(@, logged + 1)]
      /\ dir \in [Sources -> Inodes \cup {None}]
  BY DEF Log, readVars, IngestInv, Types
<1>2. PICK new : new = logged + 1
  OBVIOUS
<1>3. \A i \in Inodes : Elements(content'[i]) = LinesOf(i) \/
        (i = writer /\ Elements(content'[i]) = LinesOf(i) \cup {new})
  <2>1. Elements(Append(content[writer], new)) = LinesOf(writer) \cup {new}
    <3>1. content[writer] \in Seq(Nat) /\ new \in Nat
      BY <1>1, <1>2
    <3> QED BY <3>1, ElementsOfAppend DEF LinesOf
  <2> QED BY <2>1, <1>1, <1>2 DEF LinesOf
<1>4. pc \in {"read", "mark"} => fd \in Inodes /\ fd # dir[Active] /\ name \in Names
  BY OnceFacts DEF IngestInv, ReadIsSettled
<1>5. ASSUME NEW l, NEW r, Origin(l, r)'
      PROVE  \/ Origin(l, r)
             \/ /\ l = new
                /\ \/ \E n \in Names : n[1] = r /\ dir[n] = writer
                   \/ pc \in {"read", "mark"} /\ name[1] = r /\ fd = writer
  <2>1. CASE InFileOf(l, r)'
    <3>1. PICK n \in Names : n[1] = r /\ dir[n] # None /\ l \in Elements(content'[dir[n]])
      BY <2>1, <1>1 DEF InFileOf, LinesOf
    <3>2. dir[n] \in Inodes
      BY <3>1, <1>1
    <3> QED BY <3>1, <3>2, <1>3 DEF Origin, InFileOf
  <2>2. CASE InOpenFileOf(l, r)'
    <3>1. pc \in {"read", "mark"} /\ name[1] = r /\ l \in Elements(content'[fd])
      BY <2>2, <1>1 DEF InOpenFileOf, LinesOf
    <3> QED BY <3>1, <1>3, <1>4 DEF Origin, InOpenFileOf
  <2>3. CASE WrittenFrom(l, r)'
    BY <2>3, <1>1 DEF Origin, WrittenFrom
  <2> QED BY <1>5, <2>1, <2>2, <2>3 DEF Origin
<1>6. \A r : ~Origin(new, r)
  BY <1>1, <1>2, OriginIsOld
<1>7. OneOrigin'
  <2> SUFFICES ASSUME NEW l, NEW q, NEW r, Origin(l, q)', Origin(l, r)' PROVE q = r
    BY DEF OneOrigin
  <2>1. CASE l # new
    BY <2>1, <1>5 DEF OriginInv, OneOrigin
  <2>2. CASE l = new
    <3>1. /\ (\E n \in Names : n[1] = q /\ dir[n] = writer) \/ (pc \in {"read", "mark"} /\ name[1] = q /\ fd = writer)
          /\ (\E n \in Names : n[1] = r /\ dir[n] = writer) \/ (pc \in {"read", "mark"} /\ name[1] = r /\ fd = writer)
      BY <2>2, <1>5, <1>6
    <3>2. \A n, m \in Names : dir[n] = writer /\ dir[m] = writer => n = m
      BY <1>1 DEF IngestInv, OneName
    <3> QED BY <3>1, <3>2 DEF OriginInv, OpenIsNamed
  <2> QED BY <2>1, <2>2
<1>8. ActiveHasNone'
  <2> SUFFICES ASSUME dir[Active] # None, NEW l \in LinesOf(dir[Active])', NEW r, Origin(l, r)'
               PROVE  FALSE
    BY <1>1 DEF ActiveHasNone, LinesOf
  <2>1. dir[Active] = writer
    BY DEF IngestInv, OneName
  <2>2. (\A n \in Names : dir[n] # writer) /\ (pc \in {"read", "mark"} => fd # writer)
    BY <2>1, <1>1, <1>4 DEF IngestInv, OneName
  <2>3. Origin(l, r)
    BY <2>2, <1>5
  <2>4. l \in LinesOf(dir[Active])
    <3>1. l # new
      BY <2>3, <1>6
    <3>2. l \in Elements(content'[writer])
      BY <2>1, <1>1 DEF LinesOf
    <3> QED BY <2>1, <3>1, <3>2, <1>1, <1>3
  <2> QED BY <2>3, <2>4 DEF OriginInv, ActiveHasNone
<1>9. OpenIsNamed'
  BY <1>1 DEF OriginInv, OpenIsNamed
<1> QED BY <1>7, <1>8, <1>9 DEF OriginInv

\* The active file becomes the file of a rotation.
LEMMA RotateOrigin == IngestInv /\ OriginInv /\ Rotate => OriginInv'
<1> SUFFICES ASSUME IngestInv, OriginInv, Rotate PROVE OriginInv'
  OBVIOUS
<1> USE NamesAndInodes
<1>1. PICK new : new = <<rotations + 1, "log">>
  OBVIOUS
<1>2. /\ UNCHANGED <<pc, name, fd, thisLife, content>>
      /\ rotations + 1 \in 1..MaxRotations /\ dir[Active] # None
      /\ dir' = [dir EXCEPT ![Active] = None, ![new] = dir[Active]]
      /\ dir \in [Sources -> Inodes \cup {None}]
  BY <1>1 DEF Rotate, readVars, outVars, IngestInv, Types
<1>3. /\ new \in Names /\ new # Active /\ new[1] = rotations + 1
      /\ dir'[new] = dir[Active] /\ dir'[Active] = None
      /\ \A n \in Names \ {new} : dir'[n] = dir[n]
  BY <1>1, <1>2
<1>4. OpenIsNamed'
  BY <1>2, <1>3 DEF OriginInv, OpenIsNamed, IngestInv, ReadIsSettled
<1>5. \A l, r : Origin(l, r)' => Origin(l, r) \/ (l \in LinesOf(dir[Active]) /\ r = rotations + 1)
  BY <1>2, <1>3 DEF Origin, InFileOf, InOpenFileOf, WrittenFrom, LinesOf
<1> QED BY <1>2, <1>3, <1>4, <1>5, RotationIsOrigin

\* A new file has no line.
LEMMA ReopenOrigin == IngestInv /\ OriginInv /\ Reopen => OriginInv'
<1> SUFFICES ASSUME IngestInv, OriginInv, Reopen PROVE OriginInv'
  OBVIOUS
<1> USE NamesAndInodes
<1>1. PICK i \in Inodes :
        /\ Free(i) /\ dir' = [dir EXCEPT ![Active] = i] /\ content' = [content EXCEPT ![i] = <<>>]
        /\ UNCHANGED <<pc, name, fd, thisLife>>
  BY DEF Reopen, readVars, outVars
<1>2. /\ i # fd /\ \A s \in Sources : dir[s] # i
      /\ dir \in [Sources -> Inodes \cup {None}] /\ content \in [Inodes -> Seq(Nat)]
      /\ fd \in Inodes \cup {None}
  BY <1>1, FreeIsUnused DEF IngestInv, Types
<1>3. /\ dir'[Active] = i /\ content'[i] = <<>>
      /\ \A n \in Names : dir'[n] = dir[n] /\ dir[n] \in Inodes \cup {None} /\ dir[n] # i
      /\ \A j \in Inodes \ {i} : content'[j] = content[j]
  BY <1>1, <1>2
<1>4. Elements(content'[i]) = {}
  BY <1>3 DEF Elements
<1>5. OpenIsNamed'
  BY <1>1, <1>3 DEF OriginInv, OpenIsNamed
<1>6. ASSUME NEW l, NEW r, Origin(l, r)' PROVE Origin(l, r)
  <2>1. CASE InFileOf(l, r)'
    BY <2>1, <1>3 DEF Origin, InFileOf, LinesOf
  <2>2. CASE InOpenFileOf(l, r)'
    BY <2>2, <1>1, <1>2, <1>3 DEF Origin, InOpenFileOf, LinesOf, IngestInv, ReadIsSettled
  <2>3. CASE WrittenFrom(l, r)'
    BY <2>3, <1>1 DEF Origin, WrittenFrom
  <2> QED BY <1>6, <2>1, <2>2, <2>3 DEF Origin
<1> QED BY <1>3, <1>4, <1>5, <1>6, NoNewOrigin

\* The copy of the active file is the file of a rotation.
LEMMA CopyTruncateOrigin == IngestInv /\ OriginInv /\ CopyTruncate => OriginInv'
<1> SUFFICES ASSUME IngestInv, OriginInv, CopyTruncate PROVE OriginInv'
  OBVIOUS
<1> USE NamesAndInodes
<1>0. PICK new, a : new = <<rotations + 1, "log">> /\ a = dir[Active]
  OBVIOUS
<1>1. PICK i \in Inodes :
        /\ Free(i) /\ dir' = [dir EXCEPT ![new] = i] /\ a # None /\ rotations < MaxRotations
        /\ content' = [content EXCEPT ![i] = content[a], ![a] = <<>>]
        /\ UNCHANGED <<pc, name, fd, thisLife>>
  BY <1>0 DEF CopyTruncate, readVars, outVars
<1>2. /\ i # fd /\ i # None /\ a # i /\ a \in Inodes /\ rotations \in Nat
      /\ \A s \in Sources : dir[s] # i
      /\ dir \in [Sources -> Inodes \cup {None}] /\ content \in [Inodes -> Seq(Nat)]
  BY <1>0, <1>1, FreeIsUnused DEF IngestInv, Types
<1>3. new \in Names /\ new # Active /\ new[1] = rotations + 1
  <2>1. rotations + 1 \in 1..MaxRotations
    BY <1>1, <1>2
  <2> QED BY <1>0, <2>1
<1>4. /\ dir'[Active] = a /\ content'[a] = <<>> /\ content'[i] = content[a] /\ dir'[new] = i
      /\ \A n \in Names \ {new} : dir'[n] = dir[n]
      /\ \A j \in Inodes \ {i, a} : content'[j] = content[j]
  BY <1>0, <1>1, <1>2, <1>3
<1>5. Elements(content'[a]) = {}
  BY <1>4 DEF Elements
<1>6. OpenIsNamed'
  BY <1>1, <1>2, <1>4 DEF OriginInv, OpenIsNamed
<1>7. ASSUME NEW l, NEW r, Origin(l, r)'
      PROVE  Origin(l, r) \/ (l \in LinesOf(dir[Active]) /\ r = rotations + 1)
  <2>1. CASE InFileOf(l, r)'
    <3>1. PICK n \in Names : n[1] = r /\ dir'[n] # None /\ l \in Elements(content'[dir'[n]])
      BY <2>1 DEF InFileOf, LinesOf
    <3>2. CASE n = new
      BY <3>1, <3>2, <1>0, <1>3, <1>4 DEF LinesOf
    <3>3. CASE n # new
      <4>1. dir'[n] = dir[n] /\ dir[n] \in Inodes /\ dir[n] # i /\ dir[n] # a
        BY <3>1, <3>3, <1>0, <1>2, <1>4 DEF IngestInv, OneName
      <4>2. content'[dir[n]] = content[dir[n]]
        BY <4>1, <1>4
      <4> QED BY <3>1, <4>1, <4>2 DEF Origin, InFileOf, LinesOf
    <3> QED BY <3>2, <3>3
  <2>2. CASE InOpenFileOf(l, r)'
    <3>1. pc \in {"read", "mark"} /\ fd \in Inodes /\ fd # a
      BY <2>2, <1>0, <1>1 DEF InOpenFileOf, IngestInv, Types, ReadIsSettled
    <3>2. content'[fd] = content[fd]
      BY <3>1, <1>2, <1>4
    <3> QED BY <2>2, <3>2, <1>1 DEF Origin, InOpenFileOf, LinesOf
  <2>3. CASE WrittenFrom(l, r)'
    BY <2>3, <1>1 DEF Origin, WrittenFrom
  <2> QED BY <1>7, <2>1, <2>2, <2>3 DEF Origin
<1> QED BY <1>0, <1>1, <1>4, <1>5, <1>6, <1>7, RotationIsOrigin

\* The compressed file is of the same rotation as its original.
LEMMA CompressOrigin ==
  ASSUME IngestInv, OriginInv, NEW c \in 1..MaxRotations, Compress(c) PROVE OriginInv'
<1> USE NamesAndInodes
<1>0. PICK log, gz : log = <<c, "log">> /\ gz = <<c, "gz">>
  OBVIOUS
<1>1. PICK i \in Inodes :
        /\ Free(i) /\ dir[log] # None
        /\ dir' = [dir EXCEPT ![log] = None, ![gz] = i]
        /\ content' = [content EXCEPT ![i] = content[dir[log]]]
        /\ UNCHANGED <<pc, name, fd, thisLife>>
  BY <1>0 DEF Compress, readVars, outVars
<1>2. /\ i # fd /\ i # None /\ fd \in Inodes \cup {None}
      /\ dir \in [Sources -> Inodes \cup {None}] /\ content \in [Inodes -> Seq(Nat)]
      /\ log \in Names /\ gz \in Names /\ log # gz /\ log # Active /\ gz # Active
      /\ \A s \in Sources : dir[s] # i
  BY <1>0, <1>1, FreeIsUnused DEF IngestInv, Types
<1>3. /\ dir'[Active] = dir[Active] /\ content'[i] = content[dir[log]]
      /\ dir'[gz] = i /\ dir'[log] = None
      /\ \A n \in Names \ {gz, log} : dir'[n] = dir[n]
      /\ \A j \in Inodes \ {i} : content'[j] = content[j]
  BY <1>1, <1>2
<1>4. OpenIsNamed'
  <2>1. \A n \in Names : dir'[n] = fd => dir[n] = fd \/ fd = None
    BY <1>2, <1>3
  <2> QED BY <2>1, <1>1 DEF OriginInv, OpenIsNamed, IngestInv, ReadIsSettled
<1>5. ASSUME NEW l, NEW r, Origin(l, r)' PROVE Origin(l, r)
  <2>1. CASE InFileOf(l, r)'
    <3>1. PICK n \in Names : n[1] = r /\ dir'[n] # None /\ l \in Elements(content'[dir'[n]])
      BY <2>1 DEF InFileOf, LinesOf
    <3>2. CASE n = gz
      <4>1. log[1] = r /\ l \in LinesOf(dir[log])
        BY <3>1, <3>2, <1>0, <1>3 DEF LinesOf
      <4> QED BY <4>1, <1>1, <1>2 DEF Origin, InFileOf
    <3>3. CASE n # gz
      <4>1. dir'[n] = dir[n] /\ dir[n] \in Inodes /\ dir[n] # i
        BY <3>1, <3>3, <1>2, <1>3
      <4>2. content'[dir[n]] = content[dir[n]]
        BY <4>1, <1>3
      <4> QED BY <3>1, <4>1, <4>2 DEF Origin, InFileOf, LinesOf
    <3> QED BY <3>2, <3>3
  <2>2. CASE InOpenFileOf(l, r)'
    <3>1. pc \in {"read", "mark"} /\ fd \in Inodes
      BY <2>2, <1>1, <1>2 DEF InOpenFileOf, IngestInv, ReadIsSettled
    <3>2. content'[fd] = content[fd]
      BY <3>1, <1>2, <1>3
    <3> QED BY <2>2, <3>2, <1>1 DEF Origin, InOpenFileOf, LinesOf
  <2>3. CASE WrittenFrom(l, r)'
    BY <2>3, <1>1 DEF Origin, WrittenFrom
  <2> QED BY <1>5, <2>1, <2>2, <2>3 DEF Origin
<1>6. dir[Active] # None => LinesOf(dir[Active])' = LinesOf(dir[Active])
  BY <1>2, <1>3 DEF LinesOf
<1> QED BY <1>3, <1>4, <1>5, <1>6, NoNewOrigin

\* A file that goes takes its lines with it.
LEMMA DeleteOrigin ==
  ASSUME IngestInv, OriginInv, NEW d \in Names, Delete(d) PROVE OriginInv'
<1> USE NamesAndInodes
<1>1. /\ dir[d] # None /\ dir' = [dir EXCEPT ![d] = None]
      /\ content' = IF fd = dir[d] THEN content ELSE [content EXCEPT ![dir[d]] = <<>>]
      /\ UNCHANGED <<pc, name, fd, thisLife>>
  BY DEF Delete, readVars
<1>2. /\ dir \in [Sources -> Inodes \cup {None}] /\ content \in [Inodes -> Seq(Nat)]
      /\ fd \in Inodes \cup {None}
  BY DEF IngestInv, Types
<1>3. dir[d] \in Inodes /\ dir[d] # dir[Active] /\ d # Active
      /\ \A n \in Names \ {d} : dir[n] # dir[d]
  BY <1>1, <1>2 DEF IngestInv, OneName
<1>4. /\ dir'[Active] = dir[Active] /\ dir'[d] = None
      /\ \A n \in Names \ {d} : dir'[n] = dir[n]
      /\ \A j \in Inodes \ {dir[d]} : content'[j] = content[j]
      /\ fd # None => content'[fd] = content[fd]
  BY <1>1, <1>2, <1>3
<1>5. OpenIsNamed'
  <2>1. \A n \in Names : dir'[n] = fd => dir[n] = fd \/ fd = None
    BY <1>4
  <2> QED BY <2>1, <1>1 DEF OriginInv, OpenIsNamed, IngestInv, ReadIsSettled
<1>6. ASSUME NEW l, NEW r, Origin(l, r)' PROVE Origin(l, r)
  <2>1. CASE InFileOf(l, r)'
    <3>1. PICK n \in Names : n[1] = r /\ dir'[n] # None /\ l \in Elements(content'[dir'[n]])
      BY <2>1 DEF InFileOf, LinesOf
    <3>2. dir'[n] = dir[n] /\ dir[n] \in Inodes \ {dir[d]}
      BY <3>1, <1>2, <1>3, <1>4
    <3> QED BY <3>1, <3>2, <1>4 DEF Origin, InFileOf, LinesOf
  <2>2. CASE InOpenFileOf(l, r)'
    BY <2>2, <1>1, <1>4 DEF Origin, InOpenFileOf, LinesOf, IngestInv, ReadIsSettled
  <2>3. CASE WrittenFrom(l, r)'
    BY <2>3, <1>1 DEF Origin, WrittenFrom
  <2> QED BY <1>6, <2>1, <2>2, <2>3 DEF Origin
<1>7. dir[Active] # None => LinesOf(dir[Active])' = LinesOf(dir[Active])
  BY <1>2, <1>3, <1>4 DEF LinesOf
<1> QED BY <1>4, <1>5, <1>6, <1>7, NoNewOrigin

\* What the loop does on its own: a line written from a rotated file is one of
\* the open file, and the file opened is one that has the name.
LEMMA LoopOrigin ==
  ASSUME IngestInv, OriginInv, UNCHANGED <<dir, content>>,
         pc' \in {"read", "mark"} =>
           \/ pc \in {"read", "mark"} /\ UNCHANGED <<name, fd>>
           \/ name' = name /\ name \in Names /\ fd' = dir[name] /\ dir[name] # None,
         \A x \in thisLife' :
           \/ x \in thisLife \/ x[2] = Active
           \/ pc \in {"read", "mark"} /\ x[2] = name /\ x[1] \in LinesOf(fd)
  PROVE  OriginInv'
<1>1. OpenIsNamed'
  BY NamesAndInodes DEF OriginInv, OpenIsNamed, IngestInv, OneName
<1>2. ASSUME NEW l, NEW r, Origin(l, r)' PROVE Origin(l, r)
  <2>1. CASE InFileOf(l, r)'
    BY <2>1 DEF Origin, InFileOf, LinesOf
  <2>2. CASE InOpenFileOf(l, r)'
    BY <2>2 DEF Origin, InOpenFileOf, InFileOf, LinesOf
  <2>3. CASE WrittenFrom(l, r)'
    BY <2>3 DEF Origin, WrittenFrom, InOpenFileOf
  <2> QED BY <1>2, <2>1, <2>2, <2>3 DEF Origin
<1>3. dir[Active] # None => LinesOf(dir[Active])' = LinesOf(dir[Active])
  BY DEF LinesOf
<1> QED BY <1>1, <1>2, <1>3, NoNewOrigin

\* The steps of the loop are such steps.
LEMMA LoopKeepsOrigin == IngestInv /\ OnceInv /\ OriginInv /\ (Loop \/ Stop \/ Kill) => OriginInv'
<1> SUFFICES ASSUME IngestInv, OnceInv, OriginInv, Loop \/ Stop \/ Kill PROVE OriginInv'
  OBVIOUS
<1>1. CASE \/ ListRotated \/ (\E n \in Names : VisitRotated(n)) \/ VanishedBeforeOpen \/ MarkCompleted
           \/ TailStat \/ TailSize \/ TailOpen \/ TailChunk \/ TailIdle \/ TailSwitched
           \/ Flush \/ Restart \/ Stop \/ Kill
  <2>1. /\ UNCHANGED <<dir, content>> /\ pc' \notin {"read", "mark"} /\ thisLife' \in {thisLife, {}}
    BY <1>1 DEF ListRotated, VisitRotated, VanishedBeforeOpen, MarkCompleted, TailStat, TailSize,
       TailOpen, TailChunk, TailIdle, TailSwitched, Flush, Restart, Stop, Kill, Die, Go, fileVars, outVars
  <2> QED BY <2>1, LoopOrigin
<1>2. CASE OpenRotated
  <2>1. /\ UNCHANGED <<dir, content, name, thisLife>> /\ fd' = dir[name] /\ dir[name] # None
        /\ name \in Names
    BY <1>2, OnceFacts DEF OpenRotated, fileVars, outVars, IngestInv, Types
  <2> QED BY <2>1, LoopOrigin
<1>3. CASE ReadRotatedLine
  <2>1. PICK l : l = content[fd][at + 1]
    OBVIOUS
  <2>2. /\ UNCHANGED <<dir, content, name, fd, pc>> /\ pc = "read" /\ at < Len(content[fd])
        /\ Write(l, name)
    BY <1>3, <2>1 DEF ReadRotatedLine, fileVars
  <2>3. at + 1 \in 1..Len(content[fd])
    BY <2>2, OnceFacts DEF IngestInv, ReadIsSettled
  <2>4. l \in LinesOf(fd)
    BY <2>1, <2>3 DEF LinesOf, Elements
  <2>5. \A x \in thisLife' : x \in thisLife \/ (x[2] = name /\ x[1] \in LinesOf(fd))
    BY <2>2, <2>4 DEF Write
  <2> QED BY <2>2, <2>5, LoopOrigin
<1>4. CASE EndOfRotated
  <2>1. /\ UNCHANGED <<dir, content, name, fd, thisLife>> /\ pc = "read"
    BY <1>4 DEF EndOfRotated, fileVars, readVars, outVars
  <2> QED BY <2>1, LoopOrigin
<1>5. CASE TailLine
  <2>1. /\ UNCHANGED <<dir, content>> /\ pc' \notin {"read", "mark"} /\ Write(Head(buf), Active)
    BY <1>5 DEF TailLine, Go, Close, fileVars
  <2>2. \A x \in thisLife' : x \in thisLife \/ x[2] = Active
    BY <2>1 DEF Write
  <2> QED BY <2>1, <2>2, LoopOrigin
<1> QED BY <1>1, <1>2, <1>3, <1>4, <1>5 DEF Loop

\* At first no line has an origin.
LEMMA OriginInit == Init => OriginInv
<1> SUFFICES ASSUME Init PROVE OriginInv
  OBVIOUS
<1>1. /\ \A n \in Names : dir[n] = None
      /\ pc = "top" /\ thisLife = {}
  BY NamesAndInodes DEF Init
<1>2. \A l, r : ~Origin(l, r)
  BY <1>1 DEF Origin, InFileOf, InOpenFileOf, WrittenFrom
<1> QED BY <1>1, <1>2 DEF OriginInv, OneOrigin, ActiveHasNone, OpenIsNamed

\* Every step leaves a line with one origin.
LEMMA OriginNext == IngestInv /\ OnceInv /\ OriginInv /\ [Next]_vars => OriginInv'
<1> SUFFICES ASSUME IngestInv, OnceInv, OriginInv, [Next]_vars PROVE OriginInv'
  OBVIOUS
<1>1. CASE UNCHANGED vars \/ \E n \in Names : Age(n)
  <2>1. UNCHANGED <<dir, content, pc, name, fd, thisLife>>
    BY <1>1 DEF vars, fileVars, readVars, outVars, Age
  <2> QED BY <2>1, LoopOrigin
<1>2. CASE Loop \/ Stop \/ Kill
  BY <1>2, LoopKeepsOrigin
<1>3. CASE Firewall
  BY <1>3, LogOrigin, RotateOrigin, ReopenOrigin, CopyTruncateOrigin DEF Firewall
<1>4. CASE Housekeeping
  BY <1>4, CompressOrigin, DeleteOrigin DEF Housekeeping
<1> QED BY <1>1, <1>2, <1>3, <1>4 DEF Next

\* The names a line was written under are the active one and those of its origin.
LEMMA CopiesAreFew == IngestInv /\ OnceInv /\ OriginInv => ThreeCopiesAtMost
<1> SUFFICES ASSUME IngestInv, OnceInv, OriginInv PROVE ThreeCopiesAtMost
  OBVIOUS
<1> USE NamesAndInodes
<1>1. twice = {}
  BY DEF OnceInv, OncePerName
<1>2. ASSUME NEW l
      PROVE  \E r \in 0..MaxRotations : Copies(l) \subseteq {Active, <<r, "log">>, <<r, "gz">>}
  <2>1. CASE Copies(l) \subseteq {Active}
    <3>1. 0 \in 0..MaxRotations
      OBVIOUS
    <3> QED BY <2>1, <3>1
  <2>2. CASE \E x \in thisLife : x[1] = l /\ x[2] # Active
    <3>1. PICK x \in thisLife : x[1] = l /\ x[2] # Active
      BY <2>2
    <3>2. \A y \in thisLife : y[2] # Active => y[2] \in Names
      BY OnceFacts DEF Sources
    <3>3. x[2][1] \in 0..MaxRotations
      BY <3>1, <3>2 DEF Names
    <3>4. \A y \in thisLife : y[1] = l /\ y[2] # Active => y[2][1] = x[2][1]
      BY <3>1 DEF OriginInv, OneOrigin, Origin, WrittenFrom
    <3>5. \A y \in thisLife : y[1] = l => y[2] \in {Active, <<x[2][1], "log">>, <<x[2][1], "gz">>}
      <4> SUFFICES ASSUME NEW y \in thisLife, y[1] = l, y[2] # Active
                   PROVE  y[2] \in {<<x[2][1], "log">>, <<x[2][1], "gz">>}
        OBVIOUS
      <4>1. y[2] = <<y[2][1], y[2][2]>> /\ y[2][2] \in {"log", "gz"}
        BY <3>2
      <4> QED BY <4>1, <3>4
    <3> QED BY <3>3, <3>5 DEF Copies
  <2> QED BY <2>1, <2>2 DEF Copies
<1> QED BY <1>1, <1>2 DEF ThreeCopiesAtMost

\* In one life of the process a line is written at most three times, unless the mark
\* of a name was evicted: from the tail, from the file of its one rotation and from
\* that file's .gz.  No new inode under the active name, copied and emptied file,
\* reused inode or renaming in the middle of a read makes another copy.
THEOREM WrittenThriceAtMost == Spec => []ThreeCopiesAtMost
<1>1. Init => IngestInv /\ OnceInv /\ OriginInv
  BY IngestInvInit, OnceInvInit, OriginInit
<1>2. IngestInv /\ OnceInv /\ OriginInv /\ [Next]_vars => (IngestInv /\ OnceInv /\ OriginInv)'
  BY IngestInvNext, OnceInvNext, OriginNext
<1>3. IngestInv /\ OnceInv /\ OriginInv => ThreeCopiesAtMost
  BY CopiesAreFew
<1> QED BY <1>1, <1>2, <1>3, PTL DEF Spec


-----------------------------------------------------------------------------
(* The streamer's replay. *)

Checkpoints == [next : Nat, base : Nat, loop : Nat]

IsSequence(s) == \E S : s \in Seq(S)

StreamTypes ==
  /\ table \in Tables /\ args \in Arguments
  /\ step \in {"down", "rows", "save", "end", "final", "done"}
  /\ cursor \in Nat /\ streamed \in Nat /\ wrotePass \in Nat
  /\ base \in Nat /\ loopIndex \in Nat /\ generated \in Nat
  /\ progress \in Checkpoints /\ kept \in Checkpoints
  /\ IsSequence(events)
  /\ started \in [next : Nat, length : Nat] /\ started.length <= Len(events)

\* Row k of pass l of the run b; only a loop has passes.
IsRow(id, b, l, k) == id = <<CycleRunId(b, l), k>> /\ (args.loop \/ l = 0)

\* A run id in use: the given one, or a generated one.
UsedRun(b) == b # 0 /\ IF args.runId # 0 THEN b = args.runId ELSE b <= generated

RowsAreNamed ==
  \A i \in 1..Len(events) : \E b, l, k \in Nat : UsedRun(b) /\ IsRow(events[i].id, b, l, k)

\* The run that a restart from the checkpoint on disk continues.
KeptRun == IF args.runId # 0 THEN args.runId ELSE kept.base

\* Row k of pass l comes before row n of pass m.
Ahead(l, k, m, n) == l < m \/ (l = m /\ k < n)

\* No row of the run lies checkpoint_every or more rows behind row n of pass m.
WithinReach(b, m, n, last) ==
  \A i \in 1..last : \A l, k \in Nat :
    IsRow(events[i].id, b, l, k) => Ahead(l, k, m, n + CheckpointEvery)

\* The row before the one a pass goes on with has been written.
Reached(b, m, n) ==
  n > 0 /\ n < Len(table) => <<CycleRunId(b, m), n - 1>> \in Ids(1, Len(events))

OnDisk ==
  /\ kept.base # 0 => UsedRun(kept.base)
  /\ args.loop \/ kept.loop = 0
  /\ WithinReach(KeptRun, kept.loop, kept.next, Len(events))
  /\ Reached(KeptRun, kept.loop, kept.next)

Alive == step \in {"rows", "save", "end", "final"}

\* In a life, the checkpoint on disk is behind the place of the pass by the
\* rows written since it was saved.
InMemory ==
  Alive =>
    /\ UsedRun(base) /\ kept.base \in {0, base}
    /\ args.loop \/ loopIndex = 0
    /\ progress.next = cursor
    /\ WithinReach(base, kept.loop, kept.next, Len(events))
    /\ Reached(base, loopIndex, cursor)
    /\ step = "final" => Ahead(kept.loop, kept.next, loopIndex, cursor + 1)
    /\ step # "final" => /\ kept.loop = loopIndex /\ progress.loop = loopIndex
                         /\ kept.next <= cursor
    /\ step \in {"rows", "end"} => cursor - kept.next <= streamed % CheckpointEvery
    /\ step = "save" => progress.base = base /\ cursor - kept.next <= CheckpointEvery
    /\ step = "end" => cursor >= Len(table) \/ Enough

\* What a life writes lies between the place it started from and the place it
\* is at; of the rows written before, fewer than checkpoint_every lie behind
\* its start.
ThisLife ==
  Alive =>
    \E m \in Nat :
      /\ Ahead(m, started.next, loopIndex, cursor + 1)
      /\ WithinReach(base, m, started.next, started.length)
      /\ \A i \in (started.length + 1)..Len(events) : \E l, k \in Nat :
           /\ IsRow(events[i].id, base, l, k)
           /\ ~Ahead(l, k, m, started.next)
           /\ Ahead(l, k, loopIndex, cursor)

\* As long as no id is saved nothing else is, and no run has checkpoint_every rows:
\* a start within the second of an earlier one goes on with that one's run.
Unsaved ==
  kept.base = 0 => kept = NoProgress /\ \A b \in Nat : WithinReach(b, 0, 0, Len(events))

ReplayInv == StreamTypes /\ RowsAreNamed /\ OnDisk /\ InMemory /\ ThisLife /\ ReplayIsExact

-----------------------------------------------------------------------------
\* Arguments and tables are what the program may be started with.
LEMMA ArgumentTypes ==
  ASSUME StreamTypes
  PROVE  /\ args.loop \in BOOLEAN /\ args.maxLoops \in Nat /\ args.maxRecords \in Nat
         /\ args.runId \in Nat /\ args.reset \in BOOLEAN
         /\ Len(table) \in Nat /\ Len(events) \in Nat
         /\ CheckpointEvery \in Nat \ {0}
BY StreamerAssumption DEF StreamTypes, IsSequence

\* The id of a row names its run, its pass and its number.
LEMMA RowIsUnique ==
  ASSUME NEW id, NEW b, NEW l, NEW k, NEW c, NEW m, NEW n,
         IsRow(id, b, l, k), IsRow(id, c, m, n)
  PROVE  b = c /\ l = m /\ k = n
<1>1. id = <<CycleRunId(b, l), k>> /\ id = <<CycleRunId(c, m), n>>
  BY DEF IsRow
<1>2. k = n /\ CycleRunId(b, l) = CycleRunId(c, m)
  BY <1>1
<1>3. CASE args.loop
  <2>1. CycleRunId(b, l) = <<b, l>> /\ CycleRunId(c, m) = <<c, m>>
    BY <1>3 DEF CycleRunId
  <2>2. <<b, l>> = <<c, m>>
    BY <1>2, <2>1
  <2> QED
    BY <1>2, <2>2
<1>4. CASE ~args.loop
  <2>1. CycleRunId(b, l) = <<b>> /\ CycleRunId(c, m) = <<c>> /\ l = 0 /\ m = 0
    BY <1>4 DEF CycleRunId, IsRow
  <2>2. <<b>> = <<c>>
    BY <1>2, <2>1
  <2>3. <<b>>[1] = b /\ <<c>>[1] = c
    OBVIOUS
  <2> QED
    BY <1>2, <2>1, <2>2, <2>3
<1> QED
  BY <1>3, <1>4

\* The remainder grows by one until it falls back to zero.
LEMMA RemainderStep ==
  ASSUME NEW s \in Nat, NEW C \in Nat \ {0}
  PROVE  /\ s % C \in 0..(C - 1)
         /\ (s + 1) % C # 0 => (s + 1) % C = (s % C) + 1
<1>0. ASSUME NEW t \in Nat
      PROVE  /\ t % C \in 0..(C - 1) /\ t \div C \in Int
             /\ t = C * (t \div C) + (t % C)
  <2>1. t \in Int /\ C \in Int /\ C > 0
    OBVIOUS
  <2> QED
    BY <2>1
<1>1. /\ s % C \in 0..(C - 1) /\ s \div C \in Int /\ s = C * (s \div C) + (s % C)
      /\ (s + 1) % C \in 0..(C - 1) /\ (s + 1) \div C \in Int
      /\ s + 1 = C * ((s + 1) \div C) + ((s + 1) % C)
  BY <1>0
<1>a. PICK q \in Int : q = s \div C
  BY <1>1
<1>b. PICK r \in Int : r = s % C
  BY <1>1
<1>c. PICK u \in Int : u = (s + 1) \div C
  BY <1>1
<1>d. PICK v \in Int : v = (s + 1) % C
  BY <1>1
<1>2. s = C * q + r /\ s + 1 = C * u + v
  BY <1>1, <1>a, <1>b, <1>c, <1>d
<1>3. /\ 0 <= r /\ r < C /\ 0 <= v /\ v < C
      /\ C * q + r + 1 = C * u + v
  BY <1>1, <1>2, <1>b, <1>d
<1>4. u - q \in Int /\ C * (u - q) = r + 1 - v
  BY <1>3
<1>5. PICK d \in Int : d = u - q /\ C * d = r + 1 - v
  BY <1>4
<1>6. d >= 1 => C * d >= C
  OBVIOUS
<1>7. d <= -1 => C * d <= -C
  OBVIOUS
<1>8. v # 0 => d = 0
  BY <1>3, <1>5, <1>6, <1>7
<1> QED
  BY <1>1, <1>b, <1>d, <1>3, <1>5, <1>8

\* A stretch of the output has finitely many ids.
LEMMA IdsAreFinite ==
  ASSUME NEW from \in Int, NEW to \in Int
  PROVE  IsFiniteSet(Ids(from, to))
<1> DEFINE f == [i \in from..to |-> events[i].id]
<1>1. f \in Surjection(from..to, Ids(from, to))
  BY DEF Surjection, Ids
<1>2. IsFiniteSet(from..to)
  BY FS_Interval
<1> QED
  BY <1>1, <1>2, FS_Surjection

\* Rows of one pass that lie in a stretch of C rows are at most C.
LEMMA AtMost ==
  ASSUME NEW X, IsFiniteSet(X), NEW r, NEW n \in Nat, NEW C \in Nat,
         \A x \in X : \E k \in Nat : x = <<r, k>> /\ n <= k /\ k < n + C
  PROVE  Cardinality(X) <= C
<1>1. IsFiniteSet(n..(n + C - 1)) /\ Cardinality(n..(n + C - 1)) = C
  BY FS_Interval
<1>2. Cardinality(X) \in Nat
  BY FS_CardinalityType
<1> SUFFICES ASSUME Cardinality(X) > C
             PROVE  FALSE
  BY <1>2
<1> DEFINE f == [x \in X |-> x[2]]
<1>3. f \in [X -> n..(n + C - 1)]
  OBVIOUS
<1>4. PICK x, y \in X : x # y /\ f[x] = f[y]
  <2>1. Cardinality(n..(n + C - 1)) < Cardinality(X)
    BY <1>1, <1>2
  <2> HIDE DEF f
  <2> QED
    BY <1>1, <1>3, <2>1, FS_PigeonHole
<1>5. x[2] = y[2]
  BY <1>4
<1> QED
  BY <1>4, <1>5

\* What a written row adds.
LEMMA RowWritten ==
  ASSUME StreamTypes, WriteRow
  PROVE  /\ Len(events') = Len(events) + 1
         /\ \A i \in 1..Len(events) : events'[i] = events[i]
         /\ events'[Len(events')].id = <<CycleRunId(base, loopIndex), cursor>>
         /\ IsSequence(events')
<1>1. PICK S : events \in Seq(S)
  BY DEF StreamTypes, IsSequence
<1>2. PICK e : e = CanonicalEvent(table[cursor + 1], BuildPlan(table),
                                  CycleRunId(base, loopIndex), cursor)
  OBVIOUS
<1>3. e.id = <<CycleRunId(base, loopIndex), cursor>>
  BY <1>2 DEF CanonicalEvent
<1>4. events' = Append(events, e)
  BY <1>2 DEF WriteRow
<1>5. events \in Seq(S \cup {e}) /\ e \in S \cup {e}
  BY <1>1
<1>6. events' \in Seq(S \cup {e}) /\ Len(events') = Len(events) + 1
  BY <1>4, <1>5
<1>7. \A i \in 1..Len(events) : events'[i] = events[i]
  BY <1>4, <1>5
<1>8. events'[Len(events) + 1] = e
  BY <1>4, <1>5
<1> QED
  BY <1>3, <1>6, <1>7, <1>8 DEF IsSequence

-----------------------------------------------------------------------------
(* The three parts of ReplayIsExact. *)

Consecutive ==
  \A i \in 1..Len(events) :
    events[i].id[2] > 0 => <<events[i].id[1], events[i].id[2] - 1>> \in Ids(1, i - 1)
OncePerRun ==
  Cardinality(Ids(started.length + 1, Len(events))) = Len(events) - started.length
Repeated == Ids(1, started.length) \cap Ids(started.length + 1, Len(events))
FewRepeats == Cardinality(Repeated) <= CheckpointEvery

LEMMA ReplayParts == ReplayIsExact <=> Consecutive /\ OncePerRun /\ FewRepeats
BY DEF ReplayIsExact, Consecutive, OncePerRun, FewRepeats, Repeated

\* A life repeats only rows behind the place it started from, of one pass, and
\* fewer of them than were unsaved.
LEMMA LifeRepeats == StreamTypes /\ Alive /\ ThisLife => FewRepeats
<1> SUFFICES ASSUME StreamTypes, Alive, ThisLife
             PROVE  FewRepeats
  OBVIOUS
<1>1. PICK m \in Nat :
        /\ WithinReach(base, m, started.next, started.length)
        /\ \A i \in (started.length + 1)..Len(events) : \E l, k \in Nat :
             IsRow(events[i].id, base, l, k) /\ ~Ahead(l, k, m, started.next)
  BY DEF ThisLife
<1>2. /\ started.next \in Nat /\ started.length \in Nat /\ CheckpointEvery \in Nat
      /\ Len(events) \in Nat /\ base \in Nat
  BY ArgumentTypes DEF StreamTypes
<1>3. IsFiniteSet(Repeated)
  <2>1. IsFiniteSet(Ids(1, started.length))
    BY <1>2, IdsAreFinite
  <2> QED
    BY <2>1, FS_Subset DEF Repeated
<1>4. ASSUME NEW x \in Repeated
      PROVE  \E k \in Nat : /\ x = <<CycleRunId(base, m), k>>
                            /\ started.next <= k /\ k < started.next + CheckpointEvery
  <2>1. PICK i \in 1..started.length : x = events[i].id
    BY DEF Repeated, Ids
  <2>2. PICK j \in (started.length + 1)..Len(events) : x = events[j].id
    BY DEF Repeated, Ids
  <2>3. PICK l, k \in Nat : IsRow(x, base, l, k) /\ ~Ahead(l, k, m, started.next)
    BY <1>1, <2>2
  <2>4. Ahead(l, k, m, started.next + CheckpointEvery)
    BY <1>1, <2>1, <2>3 DEF WithinReach
  <2>5. l = m /\ started.next <= k /\ k < started.next + CheckpointEvery
    BY <1>2, <2>3, <2>4 DEF Ahead
  <2> QED
    BY <2>3, <2>5 DEF IsRow
<1> HIDE DEF Repeated
<1>5. Cardinality(Repeated) <= CheckpointEvery
  BY <1>2, <1>3, <1>4, AtMost
<1> QED
  BY <1>5 DEF FewRepeats

\* A place further on has the same rows within reach.
LEMMA FurtherOn ==
  ASSUME NEW b, NEW m \in Nat, NEW n \in Nat, NEW o \in Nat, NEW p \in Nat, NEW last,
         WithinReach(b, m, n, last), Ahead(m, n, o, p + 1), CheckpointEvery \in Nat
  PROVE  WithinReach(b, o, p, last)
BY DEF WithinReach, Ahead

\* A step that writes nothing and starts no life.
LEMMA OutputKept ==
  ASSUME UNCHANGED <<table, args, events, started, generated>>
  PROVE  /\ RowsAreNamed => RowsAreNamed'
         /\ ReplayIsExact => ReplayIsExact'
         /\ \A b, m, n, last : WithinReach(b, m, n, last) => WithinReach(b, m, n, last)'
         /\ \A b, m, n : Reached(b, m, n) => Reached(b, m, n)'
         /\ \A b : UsedRun(b) => UsedRun(b)'
<1>1. \A id, b, l, k : IsRow(id, b, l, k)' <=> IsRow(id, b, l, k)
  BY DEF IsRow, CycleRunId
<1>2. \A b : UsedRun(b)' <=> UsedRun(b)
  BY DEF UsedRun
<1>3. RowsAreNamed => RowsAreNamed'
  BY <1>1, <1>2 DEF RowsAreNamed, IsRow, UsedRun, CycleRunId
<1>4. ReplayIsExact => ReplayIsExact'
  BY DEF ReplayIsExact, Ids
<1>5. \A b, m, n, last : WithinReach(b, m, n, last) => WithinReach(b, m, n, last)'
  BY <1>1 DEF WithinReach, Ahead, IsRow, CycleRunId
<1>6. \A b, m, n : Reached(b, m, n) => Reached(b, m, n)'
  BY DEF Reached, CycleRunId, Ids
<1> QED
  BY <1>2, <1>3, <1>4, <1>5, <1>6

LEMMA StreamTypeStep ==
  ASSUME StreamTypes, StreamerNext
  PROVE  StreamTypes'
<1>1. CASE WriteRow
  <2>1. IsSequence(events') /\ Len(events') = Len(events) + 1
    BY <1>1, RowWritten
  <2>2. /\ started' = started /\ started \in [next : Nat, length : Nat]
        /\ started.length <= Len(events) /\ Len(events) \in Nat
    BY <1>1, ArgumentTypes DEF StreamTypes, WriteRow
  <2>3. started.length <= Len(events')
    BY <2>1, <2>2
  <2>4. /\ cursor' \in Nat /\ streamed' \in Nat /\ wrotePass' \in Nat
        /\ step' \in {"rows", "save"} /\ progress' \in Checkpoints
        /\ UNCHANGED <<table, args, base, loopIndex, kept, generated>>
    BY <1>1 DEF StreamTypes, WriteRow, Checkpoints
  <2> QED
    BY <2>1, <2>2, <2>3, <2>4 DEF StreamTypes
<1>2. CASE StartStreamer
  <2> DEFINE from == IF args.reset THEN NoProgress ELSE kept
  <2>1. /\ \E second \in {generated, generated + 1} : base' = Identity(from.base, second)
        /\ generated' = IF base' = generated + 1 THEN generated + 1 ELSE generated
    BY <1>2 DEF StartStreamer
  <2>2. base' \in Nat /\ generated' \in Nat
    <3>1. args.runId \in Nat /\ generated \in Nat /\ from.base \in Nat
      BY ArgumentTypes DEF StreamTypes, Checkpoints, NoProgress
    <3>2. \A second \in {generated, generated + 1} : Identity(from.base, second) \in Nat
      BY <3>1 DEF Identity
    <3> QED
      BY <2>1, <3>1, <3>2
  <2>3. progress' \in Checkpoints /\ kept' \in Checkpoints
    BY <1>2, <2>2 DEF StartStreamer, StreamTypes, Checkpoints, NoProgress
  <2>4. loopIndex' \in Nat /\ cursor' \in Nat /\ cursor' = started'.next
    BY <1>2 DEF StartStreamer, StreamTypes, Checkpoints, NoProgress
  <2>5. IsSequence(events')
    <3>1. CASE args.reset
      BY <1>2, <3>1 DEF StartStreamer, IsSequence
    <3>2. CASE ~args.reset
      BY <1>2, <3>2 DEF StartStreamer, StreamTypes
    <3> QED
      BY <3>1, <3>2
  <2>6. started' = [next |-> cursor', length |-> Len(events')]
    BY <1>2 DEF StartStreamer
  <2>7. Len(events') \in Nat
    BY <2>5 DEF IsSequence
  <2>8. started' \in [next : Nat, length : Nat] /\ started'.length <= Len(events')
    BY <2>4, <2>6, <2>7
  <2>9. /\ step' = "rows" /\ streamed' = 0 /\ wrotePass' = 0
        /\ table' = table /\ args' = args
    BY <1>2 DEF StartStreamer
  <2> QED
    BY <2>2, <2>3, <2>4, <2>5, <2>8, <2>9 DEF StreamTypes
<1>3. CASE SaveProgress
  BY <1>3 DEF SaveProgress, StreamTypes
<1>6. CASE EndPass
  BY <1>6 DEF EndPass, StreamTypes
<1>7. CASE LastPass
  <2>1. loopIndex' \in Nat
    BY <1>7 DEF LastPass, StreamTypes
  <2> QED
    BY <1>7, <2>1 DEF LastPass, StreamTypes
<1>8. CASE KillStreamer
  <2>1. progress' \in Checkpoints
    BY <1>8 DEF KillStreamer, NoProgress, Checkpoints
  <2> QED
    BY <1>8, <2>1 DEF KillStreamer, StreamTypes
<1>4. CASE NextPass
  BY <1>4 DEF NextPass, StreamTypes, Checkpoints
<1>5. CASE Finish
  <2>1. PICK p : p = progress /\ p.next \in Nat
    BY DEF StreamTypes, Checkpoints
  <2>2. progress' = [next |-> progress.next, base |-> base, loop |-> loopIndex]
    BY <1>5 DEF Finish, StreamTypes, Checkpoints
  <2> QED
    BY <1>5, <2>1, <2>2 DEF Finish, StreamTypes, Checkpoints
<1> QED
  BY <1>1, <1>2, <1>3, <1>4, <1>5, <1>6, <1>7, <1>8 DEF StreamerNext

-----------------------------------------------------------------------------
\* A place that only moves on stays within the life.
LEMMA LifeKept ==
  ASSUME StreamTypes, StreamTypes', Alive, ThisLife,
         UNCHANGED <<table, args, events, started, generated, base>>,
         loopIndex < loopIndex' \/ (loopIndex' = loopIndex /\ cursor <= cursor')
  PROVE  ThisLife'
<1>1. PICK m \in Nat :
      /\ Ahead(m, started.next, loopIndex, cursor + 1)
      /\ WithinReach(base, m, started.next, started.length)
      /\ \A i \in (started.length + 1)..Len(events) : \E l, k \in Nat :
           /\ IsRow(events[i].id, base, l, k)
           /\ ~Ahead(l, k, m, started.next)
           /\ Ahead(l, k, loopIndex, cursor)
  BY DEF ThisLife
<1>2. /\ loopIndex \in Nat /\ loopIndex' \in Nat /\ cursor \in Nat /\ cursor' \in Nat
      /\ started.next \in Nat
  BY DEF StreamTypes
<1>3. Ahead(m, started.next, loopIndex', cursor' + 1)
  BY <1>1, <1>2 DEF Ahead
<1>4. \A l, k \in Nat : Ahead(l, k, loopIndex, cursor) => Ahead(l, k, loopIndex', cursor')
  BY <1>2 DEF Ahead
<1>5. WithinReach(base, m, started.next, started.length)'
  BY <1>1 DEF WithinReach, IsRow, CycleRunId, Ahead
<1>6. ASSUME NEW i \in (started.length + 1)..Len(events)
      PROVE  \E l, k \in Nat : /\ IsRow(events[i].id, base, l, k)'
                               /\ ~Ahead(l, k, m, started.next)
                               /\ Ahead(l, k, loopIndex', cursor')
  <2>1. PICK l, k \in Nat : /\ IsRow(events[i].id, base, l, k)
                            /\ ~Ahead(l, k, m, started.next)
                            /\ Ahead(l, k, loopIndex, cursor)
    BY <1>1, <1>6
  <2>2. IsRow(events[i].id, base, l, k)'
    BY <2>1 DEF IsRow, CycleRunId
  <2> QED
    BY <1>4, <2>1, <2>2
<1>7. \A i \in (started'.length + 1)..Len(events') : \E l, k \in Nat :
        /\ IsRow(events[i].id, base, l, k)'
        /\ ~Ahead(l, k, m, started'.next)
        /\ Ahead(l, k, loopIndex', cursor')
  BY <1>6
<1> QED
  BY <1>3, <1>5, <1>7 DEF ThisLife, Ahead

\* The parts that a step which writes nothing leaves alone.
LEMMA QuietStep ==
  ASSUME ReplayInv, StreamerNext, UNCHANGED <<table, args, events, started, generated>>
  PROVE  StreamTypes' /\ RowsAreNamed' /\ ReplayIsExact'
BY OutputKept, StreamTypeStep DEF ReplayInv

\* The checkpoint is saved: its run, pass and row are the life's own, and no
\* earlier than the ones on disk.
LEMMA NowKept ==
  ASSUME ReplayInv, Alive, UNCHANGED <<table, args, events, started, generated, base>>,
         NEW o \in Nat, NEW n \in Nat,
         kept' = [next |-> n, base |-> base, loop |-> o],
         Ahead(kept.loop, kept.next, o, n + 1), args.loop \/ o = 0,
         Reached(base, o, n)
  PROVE  OnDisk' /\ WithinReach(base, o, n, Len(events))' /\ kept'.base = base
<1>1. /\ UsedRun(base) /\ WithinReach(base, kept.loop, kept.next, Len(events))
      /\ kept.loop \in Nat /\ kept.next \in Nat /\ CheckpointEvery \in Nat
  BY ArgumentTypes DEF ReplayInv, InMemory, StreamTypes, Checkpoints
<1>2. WithinReach(base, o, n, Len(events))
  BY <1>1, FurtherOn
<1>3. kept'.base = base /\ kept'.next = n /\ kept'.loop = o
  OBVIOUS
<1>4. KeptRun' = base
  BY <1>1, <1>3 DEF KeptRun, UsedRun
<1>5. PICK b, last : b = base /\ last = Len(events)
  OBVIOUS
<1>6. WithinReach(b, o, n, last)' /\ Reached(b, o, n)' /\ UsedRun(b)'
  BY <1>1, <1>2, <1>5, OutputKept
<1>7. WithinReach(KeptRun, kept.loop, kept.next, Len(events))'
  BY <1>3, <1>4, <1>5, <1>6 DEF WithinReach
<1>8. Reached(KeptRun, kept.loop, kept.next)'
  BY <1>3, <1>4, <1>5, <1>6 DEF Reached
<1>9. UsedRun(kept.base)' /\ (args'.loop \/ kept'.loop = 0)
  BY <1>3, <1>5, <1>6 DEF UsedRun
<1>10. OnDisk'
  BY <1>7, <1>8, <1>9 DEF OnDisk, WithinReach, Reached
<1>11. WithinReach(base, o, n, Len(events))'
  BY <1>5, <1>6 DEF WithinReach
<1> QED
  BY <1>3, <1>10, <1>11

\* OnDisk says nothing of what is in memory.
LEMMA DiskKept ==
  ASSUME OnDisk, UNCHANGED <<table, args, events, started, generated, kept>>
  PROVE  OnDisk'
BY DEF OnDisk, KeptRun, UsedRun, WithinReach, Reached, IsRow, CycleRunId, Ids, Ahead

\* What a life knows of its place in the replay.
LEMMA PlaceFacts ==
  ASSUME ReplayInv, Alive
  PROVE  /\ base \in Nat /\ loopIndex \in Nat /\ cursor \in Nat /\ streamed \in Nat
         /\ kept.loop \in Nat /\ kept.next \in Nat /\ Len(table) \in Nat
         /\ CheckpointEvery \in Nat \ {0} /\ streamed % CheckpointEvery \in 0..(CheckpointEvery - 1)
         /\ UsedRun(base) /\ kept.base \in {0, base} /\ (args.loop \/ loopIndex = 0)
         /\ progress.next = cursor
         /\ WithinReach(base, kept.loop, kept.next, Len(events))
         /\ Reached(base, loopIndex, cursor)
         /\ Ahead(kept.loop, kept.next, loopIndex, cursor + 1)
<1>1. /\ base \in Nat /\ loopIndex \in Nat /\ cursor \in Nat /\ streamed \in Nat
      /\ kept.loop \in Nat /\ kept.next \in Nat /\ Len(table) \in Nat
      /\ CheckpointEvery \in Nat \ {0}
  BY ArgumentTypes DEF ReplayInv, StreamTypes, Checkpoints
<1>2. streamed % CheckpointEvery \in 0..(CheckpointEvery - 1)
  BY <1>1, RemainderStep
<1>3. Ahead(kept.loop, kept.next, loopIndex, cursor + 1)
  BY <1>1 DEF ReplayInv, InMemory, Ahead, Alive
<1> QED
  BY <1>1, <1>2, <1>3 DEF ReplayInv, InMemory

LEMMA SaveStep ==
  ASSUME ReplayInv, SaveProgress
  PROVE  ReplayInv'
<1>1. Alive /\ Alive' /\ step = "save" /\ step' = "rows"
  BY DEF SaveProgress, Alive
<1>2. UNCHANGED <<table, args, cursor, streamed, base, loopIndex, progress, events,
                  started, generated>>
  BY DEF SaveProgress
<1>3. StreamTypes' /\ RowsAreNamed' /\ ReplayIsExact'
  BY <1>2, QuietStep DEF StreamerNext
<1>4. kept' = [next |-> cursor, base |-> base, loop |-> loopIndex]
  BY <1>1 DEF SaveProgress, ReplayInv, InMemory, StreamTypes, Checkpoints
<1>5. OnDisk' /\ WithinReach(base, loopIndex, cursor, Len(events))' /\ kept'.base = base
  BY <1>1, <1>2, <1>4, PlaceFacts, NowKept
<1>6. ThisLife'
  BY <1>1, <1>2, <1>3, PlaceFacts, LifeKept DEF ReplayInv
<1>7. InMemory'
  <2>1. kept'.next = cursor' /\ kept'.loop = loopIndex' /\ kept'.base = base'
    BY <1>2, <1>4
  <2>2. UsedRun(base)' /\ Reached(base, loopIndex, cursor)'
    BY <1>1, <1>2, PlaceFacts DEF UsedRun, Reached, CycleRunId, Ids
  <2>3. progress'.next = cursor' /\ progress'.loop = loopIndex'
    BY <1>1, <1>2 DEF ReplayInv, InMemory
  <2>4. WithinReach(base, kept.loop, kept.next, Len(events))'
    BY <1>2, <1>5, <2>1 DEF WithinReach
  <2>5. cursor' - kept'.next <= streamed' % CheckpointEvery /\ kept'.next <= cursor'
    BY <1>1, <1>2, <2>1, PlaceFacts
  <2> QED
    BY <1>1, <1>2, <2>1, <2>2, <2>3, <2>4, <2>5, PlaceFacts DEF InMemory
<1> QED
  BY <1>3, <1>5, <1>6, <1>7 DEF ReplayInv

LEMMA EndPassStep ==
  ASSUME ReplayInv, EndPass
  PROVE  ReplayInv'
<1>1. Alive /\ Alive' /\ step = "rows" /\ step' = "end"
  BY DEF EndPass, Alive
<1>2. /\ UNCHANGED <<table, args, cursor, streamed, base, loopIndex, progress, kept,
                     events, started, generated>>
      /\ cursor >= Len(table) \/ Enough
  BY DEF EndPass
<1>3. StreamTypes' /\ RowsAreNamed' /\ ReplayIsExact'
  BY <1>2, QuietStep DEF StreamerNext
<1>4. OnDisk'
  BY <1>2, DiskKept DEF ReplayInv
<1>5. ThisLife'
  BY <1>1, <1>2, <1>3, PlaceFacts, LifeKept DEF ReplayInv
<1>6. InMemory'
  <2>1. /\ UsedRun(base)' /\ Reached(base, loopIndex, cursor)'
        /\ WithinReach(base, kept.loop, kept.next, Len(events))'
    BY <1>1, <1>2, PlaceFacts
       DEF UsedRun, Reached, CycleRunId, Ids, WithinReach, IsRow, Ahead
  <2>2. (cursor >= Len(table) \/ Enough)'
    BY <1>2 DEF Enough
  <2> QED
    BY <1>1, <1>2, <2>1, <2>2 DEF ReplayInv, InMemory
<1> QED
  BY <1>3, <1>4, <1>5, <1>6 DEF ReplayInv

LEMMA LastPassStep ==
  ASSUME ReplayInv, LastPass
  PROVE  ReplayInv'
<1>1. Alive /\ Alive' /\ step = "end" /\ step' = "final"
  BY DEF LastPass, Alive
<1>2. UNCHANGED <<table, args, cursor, streamed, base, progress, kept,
                  events, started, generated>>
  BY DEF LastPass
<1>3. StreamTypes' /\ RowsAreNamed' /\ ReplayIsExact'
  BY <1>2, QuietStep DEF StreamerNext
<1>4. OnDisk'
  BY <1>2, DiskKept DEF ReplayInv
<1>5. \/ loopIndex' = loopIndex
      \/ loopIndex' = loopIndex + 1 /\ cursor >= Len(table) /\ args.loop
  BY <1>1 DEF LastPass, ReplayInv, InMemory
<1>6. ThisLife'
  BY <1>1, <1>2, <1>3, <1>5, PlaceFacts, LifeKept DEF ReplayInv
<1>7. InMemory'
  <2>1. UsedRun(base)' /\ WithinReach(base, kept.loop, kept.next, Len(events))'
    BY <1>1, <1>2, PlaceFacts DEF UsedRun, CycleRunId, WithinReach, IsRow, Ahead
  <2>2. Reached(base, loopIndex, cursor)'
    <3>1. CASE loopIndex' = loopIndex
      BY <1>1, <1>2, <3>1, PlaceFacts DEF Reached, CycleRunId, Ids
    <3>2. CASE cursor >= Len(table)
      BY <1>1, <1>2, <3>2, PlaceFacts DEF Reached
    <3> QED
      BY <1>5, <3>1, <3>2
  <2>3. Ahead(kept'.loop, kept'.next, loopIndex', cursor' + 1)
    BY <1>1, <1>2, <1>5, PlaceFacts DEF Ahead
  <2>4. (args'.loop \/ loopIndex' = 0) /\ kept'.base \in {0, base'} /\ progress'.next = cursor'
    BY <1>1, <1>2, <1>5, PlaceFacts
  <2> QED
    BY <1>1, <2>1, <2>2, <2>3, <2>4 DEF InMemory, Ahead
<1> QED
  BY <1>3, <1>4, <1>6, <1>7 DEF ReplayInv

LEMMA NextPassStep ==
  ASSUME ReplayInv, NextPass
  PROVE  ReplayInv'
<1>1. Alive /\ Alive' /\ step = "end" /\ step' \in {"rows", "final"}
  BY DEF NextPass, Alive
<1>2. /\ UNCHANGED <<table, args, streamed, base, events, started, generated>>
      /\ loopIndex' = loopIndex + 1 /\ cursor' = 0 /\ args.loop
      /\ progress' = [next |-> 0, base |-> base, loop |-> loopIndex + 1]
      /\ kept' = [next |-> 0, base |-> base, loop |-> loopIndex + 1]
  BY DEF NextPass
<1>3. StreamTypes' /\ RowsAreNamed' /\ ReplayIsExact'
  BY <1>2, QuietStep DEF StreamerNext
<1>4. Ahead(kept.loop, kept.next, loopIndex + 1, 0 + 1) /\ loopIndex + 1 \in Nat
  BY <1>1, PlaceFacts DEF Ahead
<1>5. Reached(base, loopIndex + 1, 0)
  BY DEF Reached
<1>6. /\ OnDisk' /\ WithinReach(base, loopIndex, cursor, Len(events))' /\ kept'.base = base
  <2>1. PICK o, n \in Nat : o = loopIndex + 1 /\ n = 0
    BY <1>4
  <2>2. OnDisk' /\ WithinReach(base, o, n, Len(events))' /\ kept'.base = base
    BY <1>1, <1>2, <1>4, <1>5, <2>1, NowKept
  <2>3. WithinReach(base, loopIndex, cursor, Len(events))'
    BY <1>2, <2>1, <2>2, PlaceFacts DEF WithinReach
  <2> QED
    BY <2>2, <2>3
<1>7. ThisLife'
  BY <1>1, <1>2, <1>3, PlaceFacts, LifeKept DEF ReplayInv
<1>8. InMemory'
  <2>1. /\ kept'.next = cursor' /\ kept'.loop = loopIndex' /\ kept'.base = base'
        /\ progress'.next = cursor' /\ progress'.loop = loopIndex'
    BY <1>2
  <2>2. UsedRun(base)' /\ Reached(base, loopIndex, cursor)'
    <3>1. UsedRun(base)'
      BY <1>1, <1>2, PlaceFacts DEF UsedRun
    <3>2. Reached(base, loopIndex, cursor)'
      BY <1>2 DEF Reached
    <3> QED
      BY <3>1, <3>2
  <2>3. WithinReach(base, kept.loop, kept.next, Len(events))'
    BY <1>2, <1>6, <2>1 DEF WithinReach
  <2>4. /\ cursor' - kept'.next <= streamed' % CheckpointEvery /\ kept'.next <= cursor'
        /\ Ahead(kept'.loop, kept'.next, loopIndex', cursor' + 1)
    BY <1>1, <1>2, <2>1, PlaceFacts DEF Ahead
  <2> QED
    BY <1>1, <1>2, <2>1, <2>2, <2>3, <2>4 DEF InMemory, Ahead
<1> QED
  BY <1>3, <1>6, <1>7, <1>8 DEF ReplayInv

LEMMA FinishStep ==
  ASSUME ReplayInv, Finish
  PROVE  ReplayInv'
<1>1. Alive /\ ~Alive' /\ step = "final" /\ step' = "done"
  BY DEF Finish, Alive
<1>2. UNCHANGED <<table, args, cursor, streamed, base, loopIndex, events, started, generated>>
  BY DEF Finish
<1>3. StreamTypes' /\ RowsAreNamed' /\ ReplayIsExact'
  BY <1>2, QuietStep DEF StreamerNext
<1>4. kept' = [next |-> cursor, base |-> base, loop |-> loopIndex]
  BY <1>1, PlaceFacts DEF Finish, ReplayInv, StreamTypes, Checkpoints
<1>5. OnDisk'
  BY <1>1, <1>2, <1>4, PlaceFacts, NowKept
<1> QED
  BY <1>1, <1>3, <1>5 DEF ReplayInv, InMemory, ThisLife

LEMMA KillStep ==
  ASSUME ReplayInv, KillStreamer
  PROVE  ReplayInv'
<1>1. ~Alive' /\ UNCHANGED <<table, args, events, started, generated, kept>>
  BY DEF KillStreamer, Alive
<1>2. StreamTypes' /\ RowsAreNamed' /\ ReplayIsExact'
  BY <1>1, QuietStep DEF StreamerNext
<1>3. OnDisk'
  BY <1>1, DiskKept DEF ReplayInv
<1> QED
  BY <1>1, <1>2, <1>3 DEF ReplayInv, InMemory, ThisLife

\* A restart that does not reset goes on with the run on disk, or with one of
\* which nothing is saved.
LEMMA Continued ==
  ASSUME ReplayInv, Unsaved, NEW second \in {generated, generated + 1} \ {0},
         NEW b, b = Identity(kept.base, second)
  PROVE  /\ b \in Nat /\ b # 0 /\ kept.base \in {0, b}
         /\ args.runId # 0 => b = args.runId
         /\ args.runId = 0 => b <= generated \/ b = generated + 1
         /\ WithinReach(b, kept.loop, kept.next, Len(events))
         /\ Reached(b, kept.loop, kept.next)
<1>1. /\ kept.base \in Nat /\ kept.next \in Nat /\ kept.loop \in Nat /\ generated \in Nat
      /\ args.runId \in Nat /\ OnDisk
  BY ArgumentTypes DEF ReplayInv, StreamTypes, Checkpoints
<1>2. /\ b \in Nat /\ b # 0 /\ kept.base \in {0, b}
      /\ args.runId # 0 => b = args.runId
      /\ args.runId = 0 => b <= generated \/ b = generated + 1
  BY <1>1 DEF Identity, OnDisk, UsedRun
<1>3. CASE KeptRun = b
  BY <1>1, <1>2, <1>3 DEF OnDisk
<1>4. CASE KeptRun # b
  <2>1. kept.base = 0
    BY <1>1, <1>2, <1>4 DEF KeptRun, Identity
  <2>2. kept.loop = 0 /\ kept.next = 0
    BY <2>1 DEF Unsaved, NoProgress
  <2>3. WithinReach(b, 0, 0, Len(events))
    BY <1>2, <2>1 DEF Unsaved
  <2>4. WithinReach(b, kept.loop, kept.next, Len(events))
    BY <2>2, <2>3
  <2>5. Reached(b, kept.loop, kept.next)
    BY <2>2 DEF Reached
  <2> QED
    BY <1>2, <2>4, <2>5
<1> QED
  BY <1>3, <1>4

LEMMA StartStep ==
  ASSUME ReplayInv, Unsaved, StartStreamer
  PROVE  ReplayInv'
<1>1. /\ Alive' /\ step' = "rows" /\ UNCHANGED <<table, args>> /\ streamed' = 0
      /\ cursor' = started'.next /\ started'.length = Len(events')
  BY DEF StartStreamer, Alive
<1>2. StreamTypes' /\ streamed' % CheckpointEvery \in Nat
  <2>1. StreamTypes' /\ CheckpointEvery \in Nat \ {0} /\ 0 \in Nat
    BY StreamTypeStep, ArgumentTypes DEF ReplayInv, StreamerNext
  <2> QED
    BY <1>1, <2>1, RemainderStep
<1>3. /\ started'.length \in Nat /\ Len(events') \in Nat /\ CheckpointEvery \in Nat
      /\ generated \in Nat
  BY <1>1, <1>2, ArgumentTypes DEF StreamTypes, ReplayInv
<1>4. OncePerRun' /\ FewRepeats'
  <2>1. Ids(started.length + 1, Len(events))' = {}
    BY <1>1, <1>3 DEF Ids
  <2>2. Repeated' = {}
    BY <2>1 DEF Repeated
  <2>3. Cardinality({}) = 0
    BY FS_EmptySet
  <2>4. Len(events') - started'.length = 0
    BY <1>1, <1>3
  <2>5. OncePerRun'
    BY <2>1, <2>3, <2>4 DEF OncePerRun
  <2>6. FewRepeats'
    BY <1>3, <2>2, <2>3 DEF FewRepeats
  <2> QED
    BY <2>5, <2>6
<1>5. CASE args.reset
  <2> DEFINE Start(second, b) ==
        /\ b = Identity(0, second)
        /\ base' = b /\ loopIndex' = 0 /\ cursor' = 0 /\ events' = <<>>
        /\ generated' = IF b = generated + 1 THEN generated + 1 ELSE generated
        /\ kept' = [next |-> 0, base |-> b, loop |-> 0] /\ progress' = kept'
  <2>0. \E second \in {generated, generated + 1} \ {0} : \E b : Start(second, b)
    BY <1>5 DEF StartStreamer, NoProgress
  <2>a. PICK second \in {generated, generated + 1} \ {0} : \E b : Start(second, b)
    BY <2>0
  <2>1. PICK b : Start(second, b)
    BY <2>a
  <2>2. /\ base' = b /\ loopIndex' = 0 /\ cursor' = 0 /\ events' = <<>>
        /\ generated' = IF b = generated + 1 THEN generated + 1 ELSE generated
        /\ kept' = [next |-> 0, base |-> b, loop |-> 0] /\ progress' = kept'
    BY <2>1
  <2>3. UsedRun(base)'
    BY <1>1, <1>3, <2>1, <2>2 DEF UsedRun, Identity
  <2>4. Len(events') = 0
    BY <2>2
  <2>5. RowsAreNamed' /\ Consecutive' /\ (\A c, m, n : WithinReach(c, m, n, Len(events))')
    BY <2>4 DEF RowsAreNamed, Consecutive, WithinReach
  <2>6. \A c, m : Reached(c, m, 0)'
    BY DEF Reached
  <2>7. /\ kept'.next = 0 /\ kept'.base = base' /\ kept'.loop = 0 /\ loopIndex' = 0
        /\ progress'.next = cursor' /\ cursor' = 0 /\ progress'.loop = 0
    BY <2>2
  <2>8. OnDisk'
    BY <2>3, <2>4, <2>7 DEF OnDisk, WithinReach, Reached
  <2>9. InMemory'
    BY <1>1, <1>2, <2>3, <2>4, <2>7 DEF InMemory, WithinReach, Reached
  <2>10. ThisLife'
    <3>1. Ahead(0, started'.next, loopIndex', cursor' + 1)
      BY <1>1, <2>7 DEF Ahead
    <3>2. WithinReach(base, 0, started.next, started.length)'
      BY <1>1, <2>4 DEF WithinReach
    <3>3. \A i \in (started'.length + 1)..Len(events') : FALSE
      BY <1>1, <1>3
    <3> QED
      BY <3>1, <3>2, <3>3 DEF ThisLife
  <2> QED
    BY <1>2, <1>4, <2>5, <2>8, <2>9, <2>10, ReplayParts, PTL DEF ReplayInv
<1>6. CASE ~args.reset
  <2> DEFINE Start(second, b) ==
        /\ b = Identity(kept.base, second)
        /\ base' = b /\ loopIndex' = kept.loop /\ cursor' = kept.next
        /\ UNCHANGED <<events, kept>> /\ progress' = kept
        /\ generated' = IF b = generated + 1 THEN generated + 1 ELSE generated
  <2>0. \E second \in {generated, generated + 1} \ {0} : \E b : Start(second, b)
    BY <1>6 DEF StartStreamer
  <2>a. PICK second \in {generated, generated + 1} \ {0} : \E b : Start(second, b)
    BY <2>0
  <2>1. PICK b : Start(second, b)
    BY <2>a
  <2>2. /\ base' = b /\ loopIndex' = kept.loop /\ cursor' = kept.next
        /\ UNCHANGED <<events, kept>> /\ progress' = kept
        /\ generated' = IF b = generated + 1 THEN generated + 1 ELSE generated
    BY <2>1
  <2>3. /\ b \in Nat /\ b # 0 /\ kept.base \in {0, b}
        /\ args.runId # 0 => b = args.runId
        /\ args.runId = 0 => b <= generated \/ b = generated + 1
        /\ WithinReach(b, kept.loop, kept.next, Len(events))
        /\ Reached(b, kept.loop, kept.next)
    BY <2>1, Continued
  <2>4. UsedRun(b)' /\ \A c \in Nat : UsedRun(c) => UsedRun(c)'
    BY <1>1, <1>3, <2>2, <2>3 DEF UsedRun
  <2>5. \A id, c, l, k : IsRow(id, c, l, k)' <=> IsRow(id, c, l, k)
    BY <1>1 DEF IsRow, CycleRunId
  <2>6. RowsAreNamed'
    <3> SUFFICES ASSUME NEW i \in 1..Len(events)
                 PROVE  \E c, l, k \in Nat : UsedRun(c)' /\ IsRow(events[i].id, c, l, k)'
      BY <2>2 DEF RowsAreNamed
    <3>1. PICK c, l, k \in Nat : UsedRun(c) /\ IsRow(events[i].id, c, l, k)
      BY DEF ReplayInv, RowsAreNamed
    <3>2. IsRow(events[i].id, c, l, k)'
      BY <1>1, <2>2, <3>1 DEF IsRow, CycleRunId
    <3> QED
      BY <2>4, <3>1, <3>2
  <2>7. Consecutive'
    BY <2>2, ReplayParts DEF Consecutive, Ids, ReplayInv
  <2>8. OnDisk'
    <3>1. kept.base \in Nat
      BY DEF ReplayInv, StreamTypes, Checkpoints
    <3>2. UsedRun(kept.base) => UsedRun(kept.base)'
      BY <2>2, <2>4, <3>1 DEF UsedRun
    <3>3. /\ (WithinReach(KeptRun, kept.loop, kept.next, Len(events)))'
          /\ Reached(KeptRun, kept.loop, kept.next)'
      BY <1>1, <2>2 DEF ReplayInv, OnDisk, WithinReach, Reached, IsRow, CycleRunId,
                        KeptRun, Ids, Ahead
    <3> QED
      BY <1>1, <2>2, <3>2, <3>3 DEF OnDisk, ReplayInv, WithinReach, Reached
  <2>9. WithinReach(b, kept.loop, kept.next, Len(events))' /\ Reached(b, kept.loop, kept.next)'
    BY <1>1, <2>2, <2>3 DEF WithinReach, Reached, IsRow, CycleRunId, Ids, Ahead
  <2>10. InMemory'
    <3>1. /\ kept.next \in Nat /\ (args.loop \/ kept.loop = 0)
      BY DEF ReplayInv, StreamTypes, Checkpoints, OnDisk
    <3>2. /\ WithinReach(base, kept.loop, kept.next, Len(events))'
          /\ Reached(base, loopIndex, cursor)' /\ UsedRun(base)'
      BY <2>2, <2>4, <2>9 DEF WithinReach, Reached, UsedRun
    <3>3. /\ kept'.base \in {0, base'} /\ progress'.next = cursor'
          /\ kept'.loop = loopIndex' /\ progress'.loop = loopIndex'
          /\ kept'.next <= cursor' /\ cursor' - kept'.next = 0
          /\ args'.loop \/ loopIndex' = 0
      BY <1>1, <2>2, <2>3, <3>1
    <3> QED
      BY <1>1, <1>2, <3>2, <3>3 DEF InMemory
  <2>11. ThisLife'
    <3>1. kept.next \in Nat /\ kept.loop \in Nat
      BY DEF ReplayInv, StreamTypes, Checkpoints
    <3>2. Ahead(kept.loop, started'.next, loopIndex', cursor' + 1)
      BY <1>1, <2>2, <3>1 DEF Ahead
    <3>3. PICK m \in Nat : m = kept.loop
      BY <3>1
    <3>4. WithinReach(base, m, started.next, started.length)'
      BY <1>1, <2>2, <2>9, <3>3 DEF WithinReach
    <3>5. \A i \in (started'.length + 1)..Len(events') : FALSE
      BY <1>1, <1>3
    <3> QED
      BY <3>2, <3>3, <3>4, <3>5 DEF ThisLife
  <2> QED
    BY <1>2, <1>4, <2>6, <2>7, <2>8, <2>10, <2>11, ReplayParts, PTL DEF ReplayInv
<1> QED
  BY <1>5, <1>6

\* The row that is written is the next of its pass: the one before it has been
\* written, this life has not written it, and if an earlier life has, it is
\* behind the place this life started from.
LEMMA WriteStep ==
  ASSUME ReplayInv, WriteRow
  PROVE  ReplayInv'
<1>1. /\ Alive /\ Alive' /\ step = "rows" /\ step' \in {"rows", "save"}
      /\ UNCHANGED <<table, args, base, loopIndex, kept, started, generated>>
      /\ cursor < Len(table) /\ cursor' = cursor + 1 /\ streamed' = streamed + 1
      /\ progress' = [next |-> cursor + 1, base |-> base, loop |-> loopIndex]
  BY DEF WriteRow, Alive
<1>2. StreamTypes' /\ StreamTypes
  BY StreamTypeStep DEF ReplayInv, StreamerNext
<1>3. /\ Len(events') = Len(events) + 1
      /\ \A i \in 1..Len(events) : events'[i] = events[i]
      /\ events'[Len(events) + 1].id = <<CycleRunId(base, loopIndex), cursor>>
  BY <1>2, RowWritten
<1>4. PICK a \in Nat : a = Len(events)
  BY <1>2, ArgumentTypes
<1>5. /\ base \in Nat /\ loopIndex \in Nat /\ cursor \in Nat /\ streamed \in Nat
      /\ kept.loop \in Nat /\ kept.next \in Nat /\ Len(table) \in Nat
      /\ CheckpointEvery \in Nat \ {0} /\ streamed % CheckpointEvery \in 0..(CheckpointEvery - 1)
      /\ UsedRun(base) /\ kept.base \in {0, base} /\ (args.loop \/ loopIndex = 0)
      /\ WithinReach(base, kept.loop, kept.next, Len(events))
      /\ Reached(base, loopIndex, cursor)
  BY <1>1, PlaceFacts
<1>6. /\ kept.loop = loopIndex /\ kept.next <= cursor
      /\ cursor - kept.next <= streamed % CheckpointEvery
      /\ started.length \in Nat /\ started.length <= Len(events) /\ started.next \in Nat
  BY <1>1 DEF ReplayInv, InMemory, StreamTypes
<1>7. \A id, b, l, k : IsRow(id, b, l, k)' <=> IsRow(id, b, l, k)
  BY <1>1 DEF IsRow, CycleRunId
<1>8. PICK new : new = <<CycleRunId(base, loopIndex), cursor>>
  OBVIOUS
<1>9. IsRow(new, base, loopIndex, cursor) /\ events'[a + 1].id = new
  BY <1>3, <1>4, <1>5, <1>8 DEF IsRow
<1>10. ASSUME NEW from \in Nat, 1 <= from, from <= a + 1
       PROVE  Ids(from, a + 1)' = Ids(from, a) \cup {new}
  <2>1. ASSUME NEW x \in Ids(from, a + 1)'
        PROVE  x \in Ids(from, a) \cup {new}
    <3>1. PICK i \in from..(a + 1) : x = events'[i].id
      BY <2>1 DEF Ids
    <3>2. CASE i = a + 1
      BY <1>9, <3>1, <3>2
    <3>3. CASE i \in from..a
      <4>1. i \in 1..Len(events)
        BY <1>4, <1>10, <3>3
      <4> QED
        BY <1>3, <3>1, <3>3, <4>1 DEF Ids
    <3> QED
      BY <1>10, <3>2, <3>3
  <2>2. ASSUME NEW i \in from..a
        PROVE  events[i].id \in Ids(from, a + 1)'
    <3>1. i \in 1..Len(events) /\ i \in from..(a + 1)
      BY <1>4, <1>10
    <3>2. events'[i].id = events[i].id
      BY <1>3, <3>1
    <3> QED
      BY <3>1, <3>2 DEF Ids
  <2>3. new \in Ids(from, a + 1)'
    <3>1. a + 1 \in from..(a + 1)
      BY <1>10
    <3> QED
      BY <1>9, <3>1 DEF Ids
  <2>4. Ids(from, a) \subseteq Ids(from, a + 1)'
    BY <2>2 DEF Ids
  <2> QED
    BY <2>1, <2>3, <2>4
<1>11. Ids(1, started.length)' = Ids(1, started.length)
  BY <1>1, <1>3, <1>6 DEF Ids
<1>12. UsedRun(base)'
  BY <1>1, <1>5 DEF UsedRun
<1>13. RowsAreNamed'
  <2> SUFFICES ASSUME NEW i \in 1..(a + 1)
               PROVE  \E b, l, k \in Nat : UsedRun(b)' /\ IsRow(events[i].id, b, l, k)'
    BY <1>3, <1>4 DEF RowsAreNamed
  <2>1. CASE i = a + 1
    <3>1. IsRow(events[i].id, base, loopIndex, cursor) \in BOOLEAN
      BY DEF IsRow
    <3>2. PICK b, l, k \in Nat : b = base /\ l = loopIndex /\ k = cursor
      BY <1>5
    <3>3. IsRow(events[i].id, b, l, k)'
      BY <1>1, <1>5, <1>8, <1>9, <2>1, <3>2 DEF IsRow, CycleRunId
    <3>4. UsedRun(b)'
      BY <1>1, <1>5, <3>2 DEF UsedRun
    <3> QED
      BY <3>3, <3>4
  <2>2. CASE i \in 1..a
    <3>1. PICK b, l, k \in Nat : UsedRun(b) /\ IsRow(events[i].id, b, l, k)
      BY <1>4, <2>2 DEF ReplayInv, RowsAreNamed
    <3>2. UsedRun(b)'
      BY <1>1, <3>1 DEF UsedRun
    <3>3. IsRow(events[i].id, b, l, k)'
      BY <1>1, <1>3, <1>4, <2>2, <3>1 DEF IsRow, CycleRunId
    <3> QED
      BY <3>1, <3>2, <3>3
  <2> QED
    BY <2>1, <2>2
<1>14. ASSUME NEW b, WithinReach(b, kept.loop, kept.next, Len(events))
       PROVE  WithinReach(b, kept.loop, kept.next, Len(events))'
  <2> SUFFICES ASSUME NEW i \in 1..(a + 1), NEW l \in Nat, NEW k \in Nat,
                      IsRow(events[i].id, b, l, k)'
               PROVE  Ahead(l, k, kept.loop, kept.next + CheckpointEvery)
    BY <1>1, <1>3, <1>4 DEF WithinReach, Ahead
  <2>1. CASE i = a + 1
    <3>1. IsRow(new, b, l, k)
      BY <1>1, <1>9, <2>1 DEF IsRow, CycleRunId
    <3>2. l = loopIndex /\ k = cursor
      BY <1>9, <3>1, RowIsUnique
    <3>3. cursor < kept.next + CheckpointEvery
      BY <1>5, <1>6
    <3> QED
      BY <1>6, <3>2, <3>3 DEF Ahead
  <2>2. CASE i \in 1..a
    <3>1. IsRow(events[i].id, b, l, k)
      BY <1>1, <1>3, <1>4, <2>2 DEF IsRow, CycleRunId
    <3> QED
      BY <1>4, <1>14, <2>2, <3>1 DEF WithinReach
  <2> QED
    BY <2>1, <2>2
<1>15. ASSUME NEW b, NEW m, NEW n, Reached(b, m, n)
       PROVE  Reached(b, m, n)'
  <2>0. Ids(1, a + 1)' = Ids(1, a) \cup {new}
    BY <1>10
  <2>1. Ids(1, a) \subseteq Ids(1, a + 1)'
    BY <2>0
  <2> QED
    BY <1>1, <1>3, <1>4, <1>15, <2>1 DEF Reached, CycleRunId
<1>16. OnDisk'
  <2>1. PICK b : b = KeptRun
    OBVIOUS
  <2>2. WithinReach(b, kept.loop, kept.next, Len(events))
    BY <2>1 DEF ReplayInv, OnDisk
  <2>3. Reached(b, kept.loop, kept.next)
    BY <2>1 DEF ReplayInv, OnDisk
  <2>4. WithinReach(b, kept.loop, kept.next, Len(events))'
    BY <1>14, <2>2
  <2>5. PICK m, n : m = kept.loop /\ n = kept.next
    OBVIOUS
  <2>6. Reached(b, m, n)'
    BY <1>15, <2>3, <2>5
  <2>7. KeptRun' = b
    BY <1>1, <2>1 DEF KeptRun
  <2>8. kept'.base # 0 => UsedRun(kept.base)'
    BY <1>1, <1>5, <1>12 DEF UsedRun
  <2>9. args'.loop \/ kept'.loop = 0
    BY <1>1, <1>5, <1>6
  <2>10. WithinReach(KeptRun, kept.loop, kept.next, Len(events))'
    BY <2>4, <2>7 DEF WithinReach
  <2>11. Reached(KeptRun, kept.loop, kept.next)'
    BY <1>1, <2>5, <2>6, <2>7 DEF Reached
  <2> QED
    BY <2>8, <2>9, <2>10, <2>11 DEF OnDisk
<1>17. new \in Ids(1, Len(events))'
  <2>1. a + 1 \in 1..Len(events')
    BY <1>3, <1>4
  <2> QED
    BY <1>9, <2>1 DEF Ids
<1>18. InMemory'
  <2>1. PICK b : b = base
    OBVIOUS
  <2>2. WithinReach(b, kept.loop, kept.next, Len(events))'
    BY <1>5, <1>14, <2>1
  <2>3. WithinReach(base, kept.loop, kept.next, Len(events))'
    BY <1>1, <2>1, <2>2 DEF WithinReach
  <2>4. Reached(base, loopIndex, cursor)'
    <3>1. cursor' - 1 = cursor /\ CycleRunId(base, loopIndex)' = CycleRunId(base, loopIndex)
      BY <1>1, <1>5 DEF CycleRunId
    <3> QED
      BY <1>8, <1>17, <3>1 DEF Reached
  <2>5. step' = IF (streamed + 1) % CheckpointEvery = 0 THEN "save" ELSE "rows"
    BY <1>1 DEF WriteRow
  <2>6. (streamed + 1) % CheckpointEvery # 0 =>
          (streamed + 1) % CheckpointEvery = (streamed % CheckpointEvery) + 1
    BY <1>5, RemainderStep
  <2>7. /\ step' = "rows" => cursor' - kept'.next <= streamed' % CheckpointEvery
        /\ step' = "save" => cursor' - kept'.next <= CheckpointEvery
        /\ kept'.next <= cursor'
    <3>1. PICK r \in Nat : r = streamed % CheckpointEvery /\ r < CheckpointEvery
      BY <1>5
    <3>2. cursor + 1 - kept.next <= r + 1
      BY <1>5, <1>6, <3>1
    <3>3. step' = "rows" => streamed' % CheckpointEvery = r + 1
      BY <1>1, <2>5, <2>6, <3>1
    <3> QED
      BY <1>1, <1>5, <1>6, <3>1, <3>2, <3>3
  <2>8. /\ progress'.next = cursor' /\ progress'.base = base' /\ progress'.loop = loopIndex'
        /\ kept'.base \in {0, base'} /\ kept'.loop = loopIndex'
        /\ args'.loop \/ loopIndex' = 0
    BY <1>1, <1>5, <1>6
  <2> QED
    BY <1>1, <1>12, <2>3, <2>4, <2>7, <2>8 DEF InMemory
<1>19. PICK m \in Nat :
         /\ Ahead(m, started.next, loopIndex, cursor + 1)
         /\ WithinReach(base, m, started.next, started.length)
         /\ \A i \in (started.length + 1)..Len(events) : \E l, k \in Nat :
              /\ IsRow(events[i].id, base, l, k)
              /\ ~Ahead(l, k, m, started.next)
              /\ Ahead(l, k, loopIndex, cursor)
  BY <1>1 DEF ReplayInv, ThisLife
<1>20. ThisLife'
  <2>1. Ahead(m, started'.next, loopIndex', cursor' + 1)
    BY <1>1, <1>5, <1>6, <1>19 DEF Ahead
  <2>2. WithinReach(base, m, started.next, started.length)'
    <3> SUFFICES ASSUME NEW i \in 1..started.length, NEW l \in Nat, NEW k \in Nat,
                        IsRow(events[i].id, base, l, k)'
                 PROVE  Ahead(l, k, m, started.next + CheckpointEvery)
      BY <1>1 DEF WithinReach, Ahead
    <3>1. i \in 1..Len(events)
      BY <1>4, <1>6
    <3>2. IsRow(events[i].id, base, l, k)
      BY <1>1, <1>3, <3>1 DEF IsRow, CycleRunId
    <3> QED
      BY <1>19, <3>2 DEF WithinReach
  <2>3. ASSUME NEW i \in (started.length + 1)..(a + 1)
        PROVE  \E l, k \in Nat : /\ IsRow(events[i].id, base, l, k)'
                                 /\ ~Ahead(l, k, m, started.next)
                                 /\ Ahead(l, k, loopIndex, cursor + 1)
    <3>1. CASE i = a + 1
      <4>1. PICK l, k \in Nat : l = loopIndex /\ k = cursor
        BY <1>5
      <4>2. IsRow(events[i].id, base, l, k)'
        BY <1>1, <1>9, <3>1, <4>1 DEF IsRow, CycleRunId
      <4>3. ~Ahead(l, k, m, started.next) /\ Ahead(l, k, loopIndex, cursor + 1)
        BY <1>5, <1>6, <1>19, <4>1 DEF Ahead
      <4> QED
        BY <4>2, <4>3
    <3>2. CASE i \in (started.length + 1)..a
      <4>1. PICK l, k \in Nat : /\ IsRow(events[i].id, base, l, k)
                                /\ ~Ahead(l, k, m, started.next)
                                /\ Ahead(l, k, loopIndex, cursor)
        BY <1>4, <1>19, <3>2
      <4>2. IsRow(events[i].id, base, l, k)'
        BY <1>1, <1>3, <1>4, <1>6, <3>2, <4>1 DEF IsRow, CycleRunId
      <4>3. Ahead(l, k, loopIndex, cursor + 1)
        BY <1>5, <4>1 DEF Ahead
      <4> QED
        BY <4>1, <4>2, <4>3
    <3> QED
      BY <1>4, <1>6, <2>3, <3>1, <3>2
  <2>4. \A i \in (started'.length + 1)..Len(events') : \E l, k \in Nat :
          /\ IsRow(events[i].id, base, l, k)'
          /\ ~Ahead(l, k, m, started'.next)
          /\ Ahead(l, k, loopIndex', cursor')
    BY <1>1, <1>3, <1>4, <2>3
  <2> QED
    BY <2>1, <2>2, <2>4 DEF ThisLife, Ahead
<1>21. Consecutive'
  <2> SUFFICES ASSUME NEW i \in 1..(a + 1), events'[i].id[2] > 0
               PROVE  <<events'[i].id[1], events'[i].id[2] - 1>> \in Ids(1, i - 1)'
    BY <1>3, <1>4 DEF Consecutive
  <2>1. \A j \in 0..a : Ids(1, j)' = Ids(1, j)
    BY <1>3, <1>4 DEF Ids
  <2>2. CASE i = a + 1
    <3>1. events'[i].id[1] = CycleRunId(base, loopIndex) /\ events'[i].id[2] = cursor
      BY <1>8, <1>9, <2>2
    <3>2. <<CycleRunId(base, loopIndex), cursor - 1>> \in Ids(1, a)
      BY <1>1, <1>4, <1>5, <3>1 DEF Reached
    <3>3. i - 1 = a /\ a \in 0..a
      BY <2>2
    <3>4. Ids(1, i - 1)' = Ids(1, a)
      BY <2>1, <3>3 DEF Ids
    <3> QED
      BY <3>1, <3>2, <3>4
  <2>3. CASE i \in 1..a
    <3>1. events'[i] = events[i] /\ i - 1 \in 0..a
      BY <1>3, <1>4, <2>3
    <3>2. <<events[i].id[1], events[i].id[2] - 1>> \in Ids(1, i - 1)
      BY <1>4, <2>3, <3>1, ReplayParts DEF ReplayInv, Consecutive
    <3>3. Ids(1, i - 1)' = Ids(1, i - 1)
      BY <1>3, <1>4, <2>3 DEF Ids
    <3> QED
      BY <3>1, <3>2, <3>3
  <2> QED
    BY <2>2, <2>3
<1>22. OncePerRun'
  <2>1. new \notin Ids(started.length + 1, a)
    <3> SUFFICES ASSUME new \in Ids(started.length + 1, a)
                 PROVE  FALSE
      OBVIOUS
    <3>1. PICK i \in (started.length + 1)..a : new = events[i].id
      BY DEF Ids
    <3>2. PICK l, k \in Nat : IsRow(new, base, l, k) /\ Ahead(l, k, loopIndex, cursor)
      BY <1>4, <1>19, <3>1
    <3>3. l = loopIndex /\ k = cursor
      BY <1>9, <3>2, RowIsUnique
    <3> QED
      BY <1>5, <3>2, <3>3 DEF Ahead
  <2>2. Ids(started.length + 1, a + 1)' = Ids(started.length + 1, a) \cup {new}
    <3>1. started.length + 1 \in Nat /\ started.length + 1 <= a + 1
      BY <1>4, <1>6
    <3>2. started' = started
      BY <1>1
    <3>3. PICK from \in Nat : from = started.length + 1
      BY <3>1
    <3>4. Ids(from, a + 1)' = Ids(from, a) \cup {new}
      BY <1>6, <1>10, <3>1, <3>3
    <3> QED
      BY <3>2, <3>3, <3>4 DEF Ids
  <2>3. IsFiniteSet(Ids(started.length + 1, a))
    BY <1>6, IdsAreFinite
  <2>4. PICK S : S = Ids(started.length + 1, a)
    OBVIOUS
  <2>5. Cardinality(S \cup {new}) = Cardinality(S) + 1
    BY <2>1, <2>3, <2>4, FS_AddElement
  <2>6. Cardinality(S) = a - started.length
    BY <1>4, <2>4, ReplayParts DEF ReplayInv, OncePerRun
  <2>7. Ids(started.length + 1, Len(events))' = S \cup {new}
    BY <1>3, <1>4, <2>2, <2>4 DEF Ids
  <2>8. Len(events') - started'.length = a - started.length + 1
    BY <1>1, <1>3, <1>4, <1>6
  <2> QED
    BY <2>5, <2>6, <2>7, <2>8 DEF OncePerRun
<1>23. FewRepeats'
  BY <1>1, <1>2, <1>20, LifeRepeats, PTL
<1>24. ReplayIsExact'
  BY <1>21, <1>22, <1>23, ReplayParts, PTL
<1> QED
  BY <1>2, <1>13, <1>16, <1>18, <1>20, <1>24 DEF ReplayInv

\* An id is saved with the first checkpoint; until then the rows of the life are
\* fewer than checkpoint_every, whichever life's id they bear.
LEMMA UnsavedStep ==
  ASSUME ReplayInv, ReplayInv', Unsaved, StreamerNext
  PROVE  Unsaved'
<1> SUFFICES ASSUME kept'.base = 0
             PROVE  kept' = NoProgress /\ \A b \in Nat : WithinReach(b, 0, 0, Len(events))'
  BY DEF Unsaved, WithinReach
<1>1. CASE WriteRow
  <2>1. kept' = kept /\ kept = NoProgress /\ kept.loop = 0 /\ kept.next = 0
    BY <1>1 DEF WriteRow, Unsaved, NoProgress
  <2>2. /\ loopIndex = 0 /\ cursor \in Nat /\ cursor < CheckpointEvery /\ base \in Nat
        /\ CheckpointEvery \in Nat /\ (args.loop \/ loopIndex = 0)
    <3>1. Alive /\ step = "rows"
      BY <1>1 DEF WriteRow, Alive
    <3>2. cursor - 0 <= streamed % CheckpointEvery /\ loopIndex = 0
      BY <2>1, <3>1 DEF ReplayInv, InMemory
    <3> QED
      BY <3>1, <3>2, PlaceFacts
  <2>3. /\ Len(events') = Len(events) + 1 /\ Len(events) \in Nat
        /\ \A i \in 1..Len(events) : events'[i] = events[i]
        /\ events'[Len(events')].id = <<CycleRunId(base, loopIndex), cursor>>
    BY <1>1, RowWritten, ArgumentTypes DEF ReplayInv
  <2>4. \A id, b, l, k : IsRow(id, b, l, k)' <=> IsRow(id, b, l, k)
    BY <1>1 DEF WriteRow, IsRow, CycleRunId
  <2>5. IsRow(events'[Len(events')].id, base, loopIndex, cursor)
    BY <2>2, <2>3 DEF IsRow
  <2>6. ASSUME NEW b \in Nat, NEW i \in 1..Len(events'), NEW l \in Nat, NEW k \in Nat,
               IsRow(events'[i].id, b, l, k)
        PROVE  Ahead(l, k, 0, CheckpointEvery)
    <3>1. CASE i \in 1..Len(events)
      <4>1. IsRow(events[i].id, b, l, k)
        BY <2>3, <2>6, <3>1
      <4>2. WithinReach(b, 0, 0, Len(events))
        BY <2>1 DEF Unsaved, NoProgress
      <4>3. Ahead(l, k, 0, 0 + CheckpointEvery)
        BY <3>1, <4>1, <4>2 DEF WithinReach
      <4> QED
        BY <2>2, <4>3
    <3>2. CASE i = Len(events')
      <4>1. l = loopIndex /\ k = cursor
        BY <2>5, <2>6, <3>2, RowIsUnique
      <4> QED
        BY <2>2, <4>1 DEF Ahead
    <3> QED
      BY <2>3, <3>1, <3>2
  <2>7. \A b \in Nat : WithinReach(b, 0, 0, Len(events))'
    BY <2>2, <2>4, <2>6 DEF WithinReach, Ahead
  <2> QED
    BY <2>1, <2>7
<1>2. CASE ~WriteRow
  <2>1. table' = table /\ args' = args /\ (events' = events \/ events' = <<>>)
    BY <1>2 DEF StreamerNext, StartStreamer, SaveProgress, EndPass, LastPass, NextPass,
                Finish, KillStreamer
  <2>2. kept' = kept
    <3>1. ASSUME Alive PROVE base # 0
      BY <3>1, PlaceFacts DEF UsedRun
    <3>2. CASE StartStreamer
      <4>1. base' # 0
        BY <3>2 DEF StartStreamer, ReplayInv, InMemory, Alive, UsedRun
      <4>2. args.reset => kept'.base = base'
        BY <3>2 DEF StartStreamer, NoProgress
      <4>3. ~args.reset => kept' = kept
        BY <3>2 DEF StartStreamer
      <4> QED
        BY <4>1, <4>2, <4>3
    <3>3. CASE SaveProgress
      BY <3>1, <3>3 DEF SaveProgress, ReplayInv, InMemory, Alive
    <3>4. CASE NextPass
      BY <3>1, <3>4 DEF NextPass, Alive
    <3>5. CASE Finish
      BY <3>1, <3>5, PlaceFacts DEF Finish, ReplayInv, StreamTypes, Checkpoints, Alive
    <3> QED
      BY <1>2, <3>2, <3>3, <3>4, <3>5 DEF StreamerNext, EndPass, LastPass, KillStreamer
  <2>3. kept = NoProgress /\ \A b \in Nat : WithinReach(b, 0, 0, Len(events))
    BY <2>2 DEF Unsaved
  <2>4. \A id, b, l, k : IsRow(id, b, l, k)' <=> IsRow(id, b, l, k)
    BY <2>1 DEF IsRow, CycleRunId
  <2>5. \A b \in Nat : WithinReach(b, 0, 0, Len(events))'
    <3>1. CASE events' = events
      BY <2>3, <2>4, <3>1 DEF WithinReach, Ahead
    <3>2. CASE events' = <<>>
      BY <3>2 DEF WithinReach
    <3> QED
      BY <2>1, <3>1, <3>2
  <2> QED
    BY <2>2, <2>3, <2>5
<1> QED
  BY <1>1, <1>2

\* Whatever kills come, the output has, of every run of the replay, each row up
\* to the last one written; a life writes no row twice, and a restart repeats
\* no more rows than one save lets go unsaved (main, save_checkpoint).
THEOREM Replayed == StreamerSpec => []ReplayIsExact
<1>1. StreamerInit => ReplayInv /\ Unsaved
  <2> SUFFICES ASSUME StreamerInit
               PROVE  ReplayInv /\ Unsaved
    OBVIOUS
  <2>1. /\ events = <<>> /\ started = [next |-> 0, length |-> 0] /\ kept = NoProgress
        /\ step = "down" /\ Len(events) = 0
    BY DEF StreamerInit
  <2>2. StreamTypes
    BY <2>1 DEF StreamerInit, StreamTypes, Checkpoints, NoProgress, IsSequence
  <2>3. RowsAreNamed /\ InMemory /\ ThisLife /\ Consecutive
    BY <2>1 DEF RowsAreNamed, InMemory, ThisLife, Alive, Consecutive
  <2>4. OnDisk
    BY <2>1 DEF OnDisk, NoProgress, WithinReach, Reached
  <2>5. Ids(1, 0) = {} /\ started.length = 0
    BY <2>1 DEF Ids
  <2>6. OncePerRun /\ FewRepeats
    <3>1. Cardinality({}) = 0 /\ CheckpointEvery \in Nat
      BY <2>2, FS_EmptySet, ArgumentTypes
    <3>2. Ids(started.length + 1, Len(events)) = {}
      BY <2>1, <2>5 DEF Ids
    <3>3. OncePerRun
      BY <2>1, <2>5, <3>1, <3>2 DEF OncePerRun
    <3>4. Repeated = {}
      BY <3>2 DEF Repeated
    <3> QED
      BY <3>1, <3>3, <3>4 DEF FewRepeats
  <2>7. Unsaved
    BY <2>1 DEF Unsaved, WithinReach
  <2> QED
    BY <2>2, <2>3, <2>4, <2>6, <2>7, ReplayParts DEF ReplayInv
<1>2. ReplayInv /\ Unsaved /\ [StreamerNext]_streamVars => ReplayInv' /\ Unsaved'
  <2> SUFFICES ASSUME ReplayInv, Unsaved, [StreamerNext]_streamVars
               PROVE  ReplayInv' /\ Unsaved'
    OBVIOUS
  <2>1. CASE StreamerNext
    <3>1. ReplayInv'
      BY <2>1, StartStep, WriteStep, SaveStep, EndPassStep, LastPassStep, NextPassStep,
         FinishStep, KillStep DEF StreamerNext
    <3>2. Unsaved'
      BY <2>1, <3>1, UnsavedStep
    <3> QED
      BY <3>1, <3>2
  <2>2. CASE UNCHANGED streamVars
    <3>1. UNCHANGED <<table, args, step, cursor, streamed, wrotePass, base, loopIndex,
                      progress, kept, events, started, generated>>
      BY <2>2 DEF streamVars
    <3>2. StreamTypes'
      BY <3>1 DEF ReplayInv, StreamTypes
    <3>3. RowsAreNamed' /\ ReplayIsExact'
      BY <3>1, OutputKept DEF ReplayInv
    <3>4. OnDisk'
      BY <3>1, DiskKept DEF ReplayInv
    <3>5. InMemory'
      BY <3>1 DEF ReplayInv, InMemory, Alive, Enough, UsedRun, WithinReach, Reached,
                  IsRow, CycleRunId, Ids, Ahead
    <3>6. ThisLife'
      <4>1. CASE Alive
        BY <3>1, <3>2, <4>1, LifeKept, PlaceFacts DEF ReplayInv
      <4>2. CASE ~Alive
        BY <3>1, <4>2 DEF Alive, ThisLife
      <4> QED
        BY <4>1, <4>2
    <3>7. Unsaved'
      BY <3>1 DEF Unsaved, WithinReach, Ahead, IsRow, CycleRunId
    <3> QED
      BY <3>2, <3>3, <3>4, <3>5, <3>6, <3>7 DEF ReplayInv
  <2> QED
    BY <2>1, <2>2
<1>3. ReplayInv => ReplayIsExact
  BY DEF ReplayInv
<1> QED
  BY <1>1, <1>2, <1>3, PTL DEF StreamerSpec

-----------------------------------------------------------------------------
(* Why an endless replay ends. *)

Endless == args.loop /\ args.maxLoops = 0 /\ args.maxRecords = 0

\* The row a pass is at tells what it has written: it began at the first row,
\* or, as the first of a life, at the row the checkpoint named.
EndInv ==
  /\ StreamTypes
  /\ step \in {"rows", "save", "end"} => cursor \in {wrotePass, started.next + wrotePass}
  /\ step = "end" => cursor >= Len(table) \/ Enough
  /\ step \in {"final", "done"} /\ Endless => started.next >= Len(table)

\* Without --max-loops and --max-records a looping replay ends only when the
\* table is empty or this life started behind its last row (main).
THEOREM EndsWithReason == StreamerSpec => []EndsForAReason
<1>1. StreamerInit => EndInv
  <2> SUFFICES ASSUME StreamerInit
               PROVE  EndInv
    OBVIOUS
  <2>1. StreamTypes /\ step = "down"
    BY DEF StreamerInit, StreamTypes, Checkpoints, NoProgress, IsSequence
  <2> QED
    BY <2>1 DEF EndInv
<1>2. EndInv /\ [StreamerNext]_streamVars => EndInv'
  <2> SUFFICES ASSUME EndInv, [StreamerNext]_streamVars
               PROVE  EndInv'
    OBVIOUS
  <2>1. /\ StreamTypes /\ cursor \in Nat /\ wrotePass \in Nat /\ Len(table) \in Nat
        /\ started.next \in Nat /\ args.maxRecords \in Nat
    BY ArgumentTypes DEF EndInv, StreamTypes
  <2>2. CASE StartStreamer
    <3>1. StreamTypes' /\ step' = "rows" /\ wrotePass' = 0 /\ cursor' = started'.next
      BY <2>1, <2>2, StreamTypeStep DEF StreamerNext, StartStreamer
    <3>2. cursor' = started'.next + wrotePass'
      BY <3>1 DEF StreamTypes
    <3> QED
      BY <3>1, <3>2 DEF EndInv
  <2>3. CASE WriteRow
    <3>1. /\ StreamTypes' /\ step = "rows" /\ step' \in {"rows", "save"} /\ started' = started
          /\ wrotePass' = wrotePass + 1 /\ cursor' = cursor + 1
      BY <2>1, <2>3, StreamTypeStep DEF StreamerNext, WriteRow
    <3>2. cursor' \in {wrotePass', started'.next + wrotePass'}
      BY <2>1, <3>1 DEF EndInv
    <3> QED
      BY <3>1, <3>2 DEF EndInv
  <2>4. CASE SaveProgress
    <3>1. /\ StreamTypes' /\ step = "save" /\ step' = "rows"
          /\ UNCHANGED <<started, wrotePass, cursor>>
      BY <2>1, <2>4, StreamTypeStep DEF StreamerNext, SaveProgress
    <3> QED
      BY <3>1 DEF EndInv
  <2>5. CASE EndPass
    <3>1. /\ StreamTypes' /\ step = "rows" /\ step' = "end"
          /\ UNCHANGED <<started, wrotePass, cursor, table, args, streamed>>
          /\ cursor >= Len(table) \/ Enough
      BY <2>1, <2>5, StreamTypeStep DEF StreamerNext, EndPass
    <3> QED
      BY <3>1 DEF EndInv, Enough
  <2>6. CASE LastPass
    <3>1. /\ StreamTypes' /\ step' = "final" /\ args' = args /\ ~Endless
      BY <2>1, <2>6, StreamTypeStep DEF StreamerNext, LastPass, Endless, Enough
    <3> QED
      BY <3>1 DEF EndInv, Endless
  <2>7. CASE NextPass
    <3>1. /\ StreamTypes' /\ step = "end" /\ cursor' = 0 /\ wrotePass' = 0
          /\ UNCHANGED <<table, args, started>> /\ ~Enough
          /\ step' = IF wrotePass = 0 THEN "final" ELSE "rows"
      BY <2>1, <2>7, StreamTypeStep DEF StreamerNext, NextPass
    <3>2. wrotePass = 0 => started.next >= Len(table)
      BY <2>1, <3>1 DEF EndInv
    <3> QED
      BY <2>1, <3>1, <3>2 DEF EndInv
  <2>8. CASE Finish
    <3>1. /\ StreamTypes' /\ step = "final" /\ step' = "done"
          /\ UNCHANGED <<started, table, args>>
      BY <2>1, <2>8, StreamTypeStep DEF StreamerNext, Finish
    <3> QED
      BY <3>1 DEF EndInv, Endless
  <2>9. CASE KillStreamer
    <3>1. StreamTypes' /\ step' = "down"
      BY <2>1, <2>9, StreamTypeStep DEF StreamerNext, KillStreamer
    <3> QED
      BY <3>1 DEF EndInv
  <2>10. CASE UNCHANGED streamVars
    BY <2>10 DEF streamVars, EndInv, StreamTypes, Endless, Enough
  <2> QED
    BY <2>2, <2>3, <2>4, <2>5, <2>6, <2>7, <2>8, <2>9, <2>10 DEF StreamerNext
<1>3. EndInv => EndsForAReason
  BY DEF EndInv, EndsForAReason, Endless
<1> QED
  BY <1>1, <1>2, <1>3, PTL DEF StreamerSpec

-----------------------------------------------------------------------------
(* The flags. *)

\* Every set of naturals that is not empty has a least element.
LEMMA LeastNumber ==
  ASSUME NEW T \in SUBSET Nat, T # {}
  PROVE  \E n \in T : \A m \in T : n <= m
<1> DEFINE R == OpToRel(<, Nat)
<1>1. IsWellFoundedOn(R, Nat)
  BY NatLessThanWellFounded
<1>2. \A m, n \in Nat : m < n => <<m, n>> \in R
  BY DEF OpToRel
<1> HIDE DEF R
<1>3. PICK n \in T : \A m \in T : ~(<<m, n>> \in R)
  BY <1>1, WFMin
<1>4. \A m \in T : ~(m < n) /\ m \in Nat /\ n \in Nat
  BY <1>2, <1>3
<1>5. \A m \in T : n <= m
  BY <1>4
<1> QED
  BY <1>3, <1>5

\* When of two elements one is always behind the other, every rank is taken, by
\* one element: D has the elements up to each.
LEMMA RanksFill ==
  ASSUME NEW S, IsFiniteSet(S), NEW D \in [S -> SUBSET S],
         \A i \in S : i \in D[i],
         \A i, j \in S : i # j => (D[i] \subseteq D[j] /\ j \notin D[i])
                                  \/ (D[j] \subseteq D[i] /\ i \notin D[j])
  PROVE  /\ \A k \in 1..Cardinality(S) : \E i \in S : Cardinality(D[i]) = k
         /\ \A i \in S : IsFiniteSet(D[i]) /\ Cardinality(D[i]) \in 1..Cardinality(S)
         /\ \A i, j \in S : Cardinality(D[i]) = Cardinality(D[j]) => i = j
<1> DEFINE N == Cardinality(S)
           r == [i \in S |-> Cardinality(D[i])]
<1>1. N \in Nat /\ IsFiniteSet(1..N) /\ Cardinality(1..N) = N
  BY FS_CardinalityType, FS_Interval
<1>2. ASSUME NEW i \in S
      PROVE  IsFiniteSet(D[i]) /\ Cardinality(D[i]) \in 1..N
  <2>1. IsFiniteSet(D[i]) /\ Cardinality(D[i]) <= N /\ Cardinality(D[i]) \in Nat
    BY FS_Subset, FS_CardinalityType
  <2>2. Cardinality(D[i]) # 0
    BY <2>1, FS_EmptySet
  <2> QED
    BY <1>1, <2>1, <2>2
<1>3. ASSUME NEW i \in S, NEW j \in S, D[i] \subseteq D[j], j \notin D[i]
      PROVE  Cardinality(D[i]) # Cardinality(D[j])
  BY <1>2, <1>3, FS_Subset
<1>4. r \in Injection(S, 1..N)
  <2>1. r \in [S -> 1..N]
    BY <1>2
  <2>2. ASSUME NEW i \in S, NEW j \in S, r[i] = r[j] PROVE i = j
    BY <1>3, <2>2
  <2> QED
    BY <2>1, <2>2 DEF Injection, IsInjective
<1>5. r \in Surjection(S, 1..N)
  BY <1>1, <1>4, FS_Injection
<1>6. \A k \in 1..N : \E i \in S : r[i] = k
  BY <1>5 DEF Surjection
<1>7. \A i, j \in S : Cardinality(D[i]) = Cardinality(D[j]) => i = j
  BY <1>3
<1> QED
  BY <1>2, <1>6, <1>7

\* The label columns of a plan are label columns of the table.
LEMMA LabelColumns ==
  ASSUME NEW rows, Len(rows) \in Nat
  PROVE  \A n \in 1..Len(LabelFields(rows)) : LabelFields(rows)[n] \in Marked("label")
<1> DEFINE S == {c \in Marked("label") : About[c].direct \/ ~About[c].status}
           Score(c) == Density(rows, c) + (IF About[c].direct THEN 7000 ELSE 2000)
           UpTo(c) == {d \in S :
             \/ Score(d) > Score(c)
             \/ Score(d) = Score(c) /\ Pref(d) > Pref(c)
             \/ Score(d) = Score(c) /\ Pref(d) = Pref(c) /\ About[d].alpha <= About[c].alpha}
           D == [c \in S |-> UpTo(c)]
           pick(n) == CHOOSE c \in S : Cardinality(UpTo(c)) = n
<1>1. LabelFields(rows) = [n \in 1..Cardinality(S) |-> pick(n)]
  BY DEF LabelFields, Ranked
<1>2. S \subseteq ColumnNames /\ S \subseteq Marked("label")
  BY DEF Marked, Visible
<1>3. IsFiniteSet(S) /\ Cardinality(S) \in Nat
  <2>1. IsFiniteSet(1..Len(Columns))
    BY ColumnsAssumption, FS_Interval DEF ColumnsAssumption
  <2>2. IsFiniteSet({Columns[i] : i \in 1..Len(Columns)})
    <3> DEFINE T == {Columns[i] : i \in 1..Len(Columns)}
               g == [i \in 1..Len(Columns) |-> Columns[i]]
    <3>1. g \in Surjection(1..Len(Columns), T)
      BY DEF Surjection
    <3> QED
      BY <2>1, <3>1, FS_Surjection
  <2> HIDE DEF S
  <2>3. IsFiniteSet(S)
    BY <1>2, <2>2, FS_Subset DEF ColumnNames
  <2> QED
    BY <2>3, FS_CardinalityType
<1>4. ASSUME NEW c PROVE Density(rows, c) \in Int
  <2> DEFINE part == Filled(rows, c)  whole == Sample(rows)
  <2>1. IsFiniteSet(1..Len(rows)) /\ whole \subseteq 1..Len(rows) /\ part \subseteq 1..Len(rows)
    BY FS_Interval DEF Sample, Filled
  <2>2. IsFiniteSet(whole) /\ IsFiniteSet(part)
    <3> HIDE DEF part, whole
    <3> QED
      BY <2>1, FS_Subset
  <2>3. /\ Cardinality(whole) \in Nat /\ Cardinality(part) \in Nat
        /\ whole # {} => Cardinality(whole) # 0
    <3> HIDE DEF part, whole
    <3> QED
      BY <2>2, FS_CardinalityType, FS_EmptySet
  <2>4. Density(rows, c) = (1000 * Cardinality(part)) \div (IF whole = {} THEN 1 ELSE Cardinality(whole))
    BY DEF Density, Ratio
  <2> HIDE DEF part, whole
  <2>5. (IF whole = {} THEN 1 ELSE Cardinality(whole)) \in Nat \ {0}
    BY <2>3
  <2>6. 1000 * Cardinality(part) \in Int
    BY <2>3
  <2> QED
    BY <2>4, <2>5, <2>6
<1>5. \A c \in S : Score(c) \in Int /\ Pref(c) \in Int /\ About[c].alpha \in Int
  BY <1>2, <1>4, ColumnsAssumption DEF ColumnsAssumption, Pref
<1>6. \A c, d \in S : About[c].alpha = About[d].alpha => c = d
  BY <1>2, ColumnsAssumption DEF ColumnsAssumption
<1>7. D \in [S -> SUBSET S] /\ \A c \in S : D[c] = UpTo(c)
  OBVIOUS
<1>8. \A c, d \in S : d \in D[c] <=>
        \/ Score(d) > Score(c)
        \/ Score(d) = Score(c) /\ Pref(d) > Pref(c)
        \/ Score(d) = Score(c) /\ Pref(d) = Pref(c) /\ About[d].alpha <= About[c].alpha
  OBVIOUS
<1> HIDE DEF D, UpTo, Score, S
<1>9. \A c \in S : c \in D[c]
  BY <1>5, <1>8
<1>10. ASSUME NEW c \in S, NEW d \in S, d \notin D[c]
       PROVE  D[c] \subseteq D[d]
  <2> SUFFICES ASSUME NEW e \in D[c] PROVE e \in D[d]
    OBVIOUS
  <2>1. e \in S
    BY <1>7
  <2> QED
    BY <1>5, <1>8, <1>10, <2>1
<1>11. \A c, d \in S : c # d => d \notin D[c] \/ c \notin D[d]
  BY <1>5, <1>6, <1>8
<1>12. \A n \in 1..Cardinality(S) : \E c \in S : Cardinality(D[c]) = n
  BY <1>3, <1>7, <1>9, <1>10, <1>11, RanksFill
<1>13. \A n \in 1..Cardinality(S) : pick(n) \in S
  <2> TAKE n \in 1..Cardinality(S)
  <2>1. \E c \in S : Cardinality(UpTo(c)) = n
    BY <1>7, <1>12
  <2> QED
    BY <2>1
<1> HIDE DEF pick
<1>14. /\ Len(LabelFields(rows)) = Cardinality(S)
       /\ \A n \in 1..Cardinality(S) : LabelFields(rows)[n] = pick(n)
  BY <1>1, <1>3
<1> QED
  BY <1>2, <1>13, <1>14

\* The label that decides is a label of the table, or there is none.
LEMMA LabelDecides ==
  ASSUME NEW t \in Tables, NEW n \in 1..Len(t)
  PROVE  \E cell : /\ cell = NoCell \/ Documented(cell)
                   /\ InferFaultState(t[n], BuildPlan(t))
                        = [isFault |-> IsFaultLabel(cell), scenario |-> NormalizeScenario(cell)]
<1> DEFINE fields == LabelFields(t)
           good == {i \in 1..Len(fields) : ~Blank(t[n][fields[i]])}
           field == IF good = {} THEN "" ELSE fields[CHOOSE i \in good : \A j \in good : i <= j]
           cell == IF field = "" THEN NoCell ELSE t[n][field]
<1>1. Len(t) \in Nat
  BY StreamerAssumption DEF StreamerAssumption
<1>2. \A i \in 1..Len(fields) : fields[i] \in Marked("label")
  BY <1>1, LabelColumns
<1>3. BuildPlan(t).label = fields
  BY DEF BuildPlan
<1>4. InferFaultState(t[n], BuildPlan(t))
        = [isFault |-> IsFaultLabel(cell), scenario |-> NormalizeScenario(cell)]
  BY <1>3 DEF InferFaultState, FirstOf
<1> HIDE DEF fields
<1>5. cell = NoCell \/ Documented(cell)
  <2>1. CASE good = {}
    BY <2>1
  <2>2. CASE good # {}
    <3> DEFINE first == CHOOSE i \in good : \A j \in good : i <= j
    <3>1. good \in SUBSET Nat
      OBVIOUS
    <3>2. \E i \in good : \A j \in good : i <= j
      <4> HIDE DEF good
      <4> QED
        BY <2>2, <3>1, LeastNumber
    <3>3. first \in good
      <4> HIDE DEF good
      <4> QED
        BY <3>2
    <3>4. first \in 1..Len(fields) /\ field = fields[first]
      BY <2>2, <3>3
    <3> HIDE DEF first
    <3>5. Documented(t[n][field])
      BY <1>2, <3>4, LabelsAssumption DEF LabelsAssumption
    <3> QED
      BY <3>5
  <2> QED
    BY <2>1, <2>2
<1> QED
  BY <1>4, <1>5

\* The scenario of a label, case by case.
LEMMA ScenarioCases ==
  ASSUME NEW cell
  PROVE  LET fits == {i \in 1..12 : /\ ScenarioRules[i].all \subseteq cell.has
                                    /\ ScenarioRules[i].any \cap cell.has # {}}
             s == NormalizeScenario(cell) IN
         /\ cell.text = "h" => s = "healthy"
         /\ cell.text = "f" => s = "induced_fault"
         /\ cell.text = "t" => s = "transient_fault"
         /\ cell.text = "th" => s = "transient_healthy"
         /\ cell.text \in ScenarioNames => s = cell.text
         /\ cell.text \in HealthyValues \ {"h", "f"} => s = "healthy"
         /\ cell.text \notin {"h", "f", "t", "th"} \cup ScenarioNames \cup HealthyValues =>
              /\ fits # {} => \E i \in fits : /\ \A j \in fits : i <= j
                                              /\ s = ScenarioRules[i].name
              /\ fits = {} => s = IF cell.text \in Affirmative THEN "annotated_fault"
                                  ELSE cell.text
<1> DEFINE fits == {i \in 1..12 : /\ ScenarioRules[i].all \subseteq cell.has
                                  /\ ScenarioRules[i].any \cap cell.has # {}}
           first == CHOOSE i \in fits : \A j \in fits : i <= j
           s == NormalizeScenario(cell)
           other == IF fits # {} THEN ScenarioRules[first].name
                    ELSE IF cell.text \in Affirmative THEN "annotated_fault" ELSE cell.text
<1>1. Len(ScenarioRules) = 12
  BY DEF ScenarioRules
<1>2. DOMAIN CompactLabels = {"h", "f", "t", "th"}
  BY DEF CompactLabels
<1>3. s = CASE cell.text \in DOMAIN CompactLabels -> CompactLabels[cell.text]
            [] cell.text \in ScenarioNames -> cell.text
            [] cell.text \in HealthyValues \ DOMAIN CompactLabels -> "healthy"
            [] OTHER -> other
  BY <1>1 DEF NormalizeScenario
<1>4. fits # {} => first \in fits /\ \A j \in fits : first <= j
  <2>1. fits \in SUBSET Nat
    OBVIOUS
  <2> HIDE DEF fits
  <2>2. fits # {} => \E i \in fits : \A j \in fits : i <= j
    BY <2>1, LeastNumber
  <2> QED
    BY <2>2
<1> HIDE DEF fits, first, s
<1>5. /\ cell.text = "h" => s = "healthy"
      /\ cell.text = "f" => s = "induced_fault"
      /\ cell.text = "t" => s = "transient_fault"
      /\ cell.text = "th" => s = "transient_healthy"
  <2> HIDE DEF other
  <2>1. /\ CompactLabels["h"] = "healthy" /\ CompactLabels["f"] = "induced_fault"
        /\ CompactLabels["t"] = "transient_fault" /\ CompactLabels["th"] = "transient_healthy"
    BY DEF CompactLabels
  <2> QED
    BY <1>2, <1>3, <2>1 DEF ScenarioNames, HealthyValues
<1>6. cell.text \in ScenarioNames => s = cell.text
  <2> HIDE DEF other
  <2> QED
    BY <1>2, <1>3 DEF ScenarioNames, HealthyValues
<1>7. cell.text \in HealthyValues \ {"h", "f"} => s = "healthy"
  <2> HIDE DEF other
  <2> QED
    BY <1>2, <1>3 DEF ScenarioNames, HealthyValues
<1>8. cell.text \notin {"h", "f", "t", "th"} \cup ScenarioNames \cup HealthyValues => s = other
  <2> HIDE DEF other
  <2> QED
    BY <1>2, <1>3
<1>9. cell.text \notin {"h", "f", "t", "th"} \cup ScenarioNames \cup HealthyValues =>
        /\ fits # {} => \E i \in fits : /\ \A j \in fits : i <= j
                                        /\ s = ScenarioRules[i].name
        /\ fits = {} => s = IF cell.text \in Affirmative THEN "annotated_fault" ELSE cell.text
  BY <1>4, <1>8
<1> QED
  BY <1>5, <1>6, <1>7, <1>9 DEF fits, s

\* What the substring rules say of the words a label contains.
LEMMA RulesOfFaults ==
  ASSUME NEW i \in 1..12
  PROVE  /\ ScenarioRules[i].name \notin {"healthy", "transient_healthy"}
         /\ ScenarioRules[i].name = "icmp_blocked_firewall"
            \/ ScenarioRules[i].any \subseteq FaultMarkers
            \/ ScenarioRules[i].any \subseteq {"agent", "link", "node"}
<1>1. i \in {1, 2, 3, 4, 5, 6, 7, 8, 9, 10, 11, 12}
  OBVIOUS
<1> QED
  BY <1>1 DEF ScenarioRules, Broken, FaultMarkers

\* A documented label is a fault exactly when its scenario is one.
LEMMA LabelAgrees ==
  ASSUME NEW cell, cell = NoCell \/ Documented(cell)
  PROVE  /\ IsFaultLabel(cell) => NormalizeScenario(cell) \notin {"healthy", "transient_healthy"}
         /\ NormalizeScenario(cell) \in (ScenarioNames \ {"icmp_blocked_firewall"})
                                        \cup {"induced_fault", "transient_fault"}
              => IsFaultLabel(cell)
<1> DEFINE s == NormalizeScenario(cell)
           fault == IsFaultLabel(cell)
           Faults == (ScenarioNames \ {"icmp_blocked_firewall"})
                     \cup {"induced_fault", "transient_fault"}
<1>1. /\ "healthy" \notin Faults /\ "transient_healthy" \notin Faults
      /\ "annotated_fault" \notin Faults /\ "icmp_blocked_firewall" \notin Faults
  BY DEF ScenarioNames
<1>2. fault <=> \/ cell.text \in {"f", "t"}
                \/ /\ cell.text \notin HealthyValues
                   /\ cell.text \in Affirmative \/ cell.has \cap FaultMarkers # {}
  BY DEF IsFaultLabel
<1>3. cell = NoCell => cell.text = ""
  <2>1. NoCell.text = ""
    BY DEF NoCell
  <2> QED
    BY <2>1
<1>4. CASE cell.text \in HealthyValues \ {"f"}
  <2>1. s = "healthy"
    BY <1>4, ScenarioCases
  <2>2. ~fault
    BY <1>2, <1>4 DEF HealthyValues
  <2> QED
    BY <1>1, <2>1, <2>2
<1>5. CASE cell.text = "f"
  <2>1. s = "induced_fault"
    BY <1>5, ScenarioCases
  <2> QED
    BY <1>2, <1>5, <2>1
<1>6. CASE cell.text \notin HealthyValues
  <2>1. Documented(cell)
    BY <1>3, <1>6 DEF HealthyValues
  <2>2. CASE cell.text = "t"
    <3>1. s = "transient_fault"
      BY <2>2, ScenarioCases
    <3> QED
      BY <1>2, <2>2, <3>1
  <2>3. CASE cell.text = "th"
    <3>1. s = "transient_healthy"
      BY <2>3, ScenarioCases
    <3>2. ~fault
      BY <1>2, <2>1, <2>3 DEF Documented, Affirmative
    <3> QED
      BY <1>1, <3>1, <3>2
  <2>4. CASE cell.text \in ScenarioNames
    <3>1. s = cell.text
      BY <2>4, ScenarioCases
    <3>2. s \notin {"healthy", "transient_healthy"}
      BY <2>4, <3>1 DEF ScenarioNames
    <3>3. s \in Faults => fault
      BY <1>2, <1>6, <2>1, <3>1 DEF Documented
    <3> QED
      BY <3>2, <3>3
  <2>5. CASE cell.text \notin {"h", "f", "t", "th"} \cup ScenarioNames
    <3> DEFINE fits == {i \in 1..12 : /\ ScenarioRules[i].all \subseteq cell.has
                                      /\ ScenarioRules[i].any \cap cell.has # {}}
    <3>1. CASE fits # {}
      <4>1. PICK i \in fits : s = ScenarioRules[i].name
        BY <1>6, <2>5, <3>1, ScenarioCases
      <4>2. i \in 1..12 /\ ScenarioRules[i].any \cap cell.has # {}
        OBVIOUS
      <4>3. s \notin {"healthy", "transient_healthy"}
        BY <4>1, <4>2, RulesOfFaults
      <4>4. s # "icmp_blocked_firewall" => cell.has \cap FaultMarkers # {}
        <5>1. cell.has \cap {"agent", "link", "node"} # {} => cell.has \cap FaultMarkers # {}
          BY <1>6, <2>1 DEF Documented
        <5>2. s # "icmp_blocked_firewall" =>
                \/ ScenarioRules[i].any \subseteq FaultMarkers
                \/ ScenarioRules[i].any \subseteq {"agent", "link", "node"}
          BY <4>1, <4>2, RulesOfFaults
        <5> HIDE DEF s, fits
        <5> QED
          BY <4>2, <5>1, <5>2
      <4>5. s # "icmp_blocked_firewall" => fault
        BY <1>2, <1>6, <4>4
      <4> QED
        BY <1>1, <4>3, <4>5
    <3>2. CASE fits = {}
      <4>1. s = IF cell.text \in Affirmative THEN "annotated_fault" ELSE cell.text
        BY <1>6, <2>5, <3>2, ScenarioCases
      <4>2. cell.text # "transient_healthy"
        <5>1. 12 \in 1..12 /\ ScenarioRules[12].all = {} /\ ScenarioRules[12].any = {"transient"}
          BY DEF ScenarioRules
        <5>2. "transient" \notin cell.has
          BY <3>2, <5>1
        <5> QED
          BY <2>1, <5>2 DEF Documented
      <4>3. cell.text # "healthy"
        BY <1>6 DEF HealthyValues
      <4>4. s \notin {"healthy", "transient_healthy"}
        BY <4>1, <4>2, <4>3
      <4>5. s \in Faults => fault
        BY <1>1, <1>2, <1>6, <2>1, <4>1 DEF Documented
      <4> QED
        BY <4>4, <4>5
    <3> QED
      BY <3>1, <3>2
  <2>6. cell.text \notin {"h", "f"}
    BY <1>6 DEF HealthyValues
  <2> QED
    BY <2>2, <2>3, <2>4, <2>5, <2>6
<1> QED
  BY <1>4, <1>5, <1>6

\* What is written of a row is what its own label says, of the plan of its table.
Said(e, t) == \E n \in 1..Len(t) : e.fault = InferFaultState(t[n], BuildPlan(t))

FlagInv == StreamTypes /\ \A i \in 1..Len(events) : Said(events[i], table)

\* The flag and the scenario of every event agree, whatever the kills and the
\* passes (infer_fault_state, _is_fault_label, _normalize_scenario).
THEOREM FlagsAreRight == StreamerSpec => []FaultsAreFlagged
<1>1. StreamerInit => FlagInv
  <2> SUFFICES ASSUME StreamerInit
               PROVE  FlagInv
    OBVIOUS
  <2>1. StreamTypes /\ Len(events) = 0
    BY DEF StreamerInit, StreamTypes, Checkpoints, NoProgress, IsSequence
  <2> QED
    BY <2>1 DEF FlagInv
<1>2. FlagInv /\ [StreamerNext]_streamVars => FlagInv'
  <2> SUFFICES ASSUME FlagInv, [StreamerNext]_streamVars
               PROVE  FlagInv'
    OBVIOUS
  <2>1. CASE WriteRow
    <3>1. StreamTypes'
      BY <2>1, StreamTypeStep DEF FlagInv, StreamerNext
    <3>2. /\ table' = table /\ cursor < Len(table) /\ cursor \in Nat /\ Len(table) \in Nat
          /\ Len(events) \in Nat /\ Len(events') = Len(events) + 1
          /\ \A i \in 1..Len(events) : events'[i] = events[i]
          /\ events'[Len(events) + 1]
               = CanonicalEvent(table[cursor + 1], BuildPlan(table), CycleRunId(base, loopIndex), cursor)
      BY <2>1, RowWritten, ArgumentTypes DEF FlagInv, StreamTypes, WriteRow
    <3>3. cursor + 1 \in 1..Len(table)
      BY <3>2
    <3>4. events'[Len(events) + 1].fault = InferFaultState(table[cursor + 1], BuildPlan(table))
      BY <3>2 DEF CanonicalEvent
    <3>5. Said(events'[Len(events) + 1], table')
      BY <3>2, <3>3, <3>4 DEF Said
    <3>6. ASSUME NEW i \in 1..Len(events) PROVE Said(events'[i], table')
      BY <3>2 DEF FlagInv, Said
    <3>7. \A i \in 1..Len(events') : Said(events'[i], table')
      <4> TAKE i \in 1..Len(events')
      <4>1. i \in 1..Len(events) \/ i = Len(events) + 1
        BY <3>2
      <4> QED
        BY <3>5, <3>6, <4>1
    <3> QED
      BY <3>1, <3>7 DEF FlagInv
  <2>2. CASE ~WriteRow /\ StreamerNext
    <3>1. StreamTypes'
      BY <2>2, StreamTypeStep DEF FlagInv
    <3>2. table' = table /\ (events' = events \/ events' = <<>>)
      BY <2>2 DEF StreamerNext, StartStreamer, SaveProgress, EndPass, LastPass, NextPass,
                  Finish, KillStreamer
    <3>3. CASE events' = events
      BY <3>1, <3>2, <3>3 DEF FlagInv, Said
    <3>4. CASE events' = <<>>
      BY <3>1, <3>4 DEF FlagInv
    <3> QED
      BY <3>2, <3>3, <3>4
  <2>3. CASE UNCHANGED streamVars
    BY <2>3 DEF streamVars, FlagInv, StreamTypes, Said
  <2> QED
    BY <2>1, <2>2, <2>3
<1>3. FlagInv => FaultsAreFlagged
  <2> SUFFICES ASSUME FlagInv, NEW i \in 1..Len(events)
               PROVE  LET f == events[i].fault IN
                      /\ f.isFault => f.scenario \notin {"healthy", "transient_healthy"}
                      /\ f.scenario \in (ScenarioNames \ {"icmp_blocked_firewall"})
                                        \cup {"induced_fault", "transient_fault"} => f.isFault
    BY DEF FaultsAreFlagged
  <2>1. PICK n \in 1..Len(table) : events[i].fault = InferFaultState(table[n], BuildPlan(table))
    BY DEF FlagInv, Said
  <2>2. PICK cell : /\ cell = NoCell \/ Documented(cell)
                    /\ InferFaultState(table[n], BuildPlan(table))
                         = [isFault |-> IsFaultLabel(cell), scenario |-> NormalizeScenario(cell)]
    BY LabelDecides DEF FlagInv, StreamTypes
  <2> QED
    BY <2>1, <2>2, LabelAgrees
<1> QED
  BY <1>1, <1>2, <1>3, PTL DEF StreamerSpec

=============================================================================
