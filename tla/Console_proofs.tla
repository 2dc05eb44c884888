--------------------------- MODULE Console_proofs ---------------------------
(***************************************************************************)
(* For any files, suggestions, faults and bounds: the browser keeps one     *)
(* connection, and the migration loses no suggestion that did not race     *)
(* with it.                                                                *)
(***************************************************************************)
EXTENDS Console, FiniteSetTheorems, WellFoundedInduction, TLAPS

-----------------------------------------------------------------------------
(* One connection. *)

\* What makes one connection inductive: there is one number for an event source,
\* only an open source has a timer, and only the armed one.
ConnectionInv ==
  /\ mounted \in BOOLEAN
  /\ es \in {0, 1} /\ armed \in {0, es}
  /\ open \subseteq {1} /\ timers \subseteq open \cap {armed}
  /\ mounted => es = 1 /\ ((open = {1} /\ retries = 0) \/ (open = {} /\ retries = 1))
  /\ ~mounted => open = {} /\ retries = 0

\* The first connection and each later one get the number that is free.
LEMMA ConnectTakesOne ==
  ASSUME open = {}, timers = {}, Connect
  PROVE  es' = 1 /\ open' = {1} /\ timers' = {1} /\ armed' = 1
<1> DEFINE Free(i) == i \notin timers \cup open /\ \A j \in 1..(i - 1) : j \in timers \cup open
<1>1. Free(1) /\ 1 \in 1..3
  OBVIOUS
<1>2. \A i \in 1..3 : Free(i) => i = 1
  OBVIOUS
<1>3. (CHOOSE i \in 1..3 : Free(i)) = 1
  <2> HIDE DEF Free
  <2> QED
    BY <1>1, <1>2
<1> QED
  BY <1>3 DEF Connect

\* Every step of the console keeps the connection.
LEMMA ConnectionStep ==
  ASSUME ConnectionInv, [Next]_vars
  PROVE  ConnectionInv'
<1> USE DEF ConnectionInv
<1>1. CASE UNCHANGED timerVars
  BY <1>1 DEF timerVars
<1>2. CASE Mount
  <2>1. open = {} /\ timers = {} /\ retries = 0 /\ Connect /\ mounted' = TRUE /\ retries' = retries
    BY <1>2 DEF Mount
  <2> QED
    BY <2>1, ConnectTakesOne
<1>3. CASE RetryFires
  <2>1. open = {} /\ timers = {} /\ retries = 1 /\ Connect /\ mounted' = mounted /\ mounted
        /\ retries' = 0
    BY <1>3 DEF RetryFires
  <2> QED
    BY <2>1, ConnectTakesOne
<1>4. CASE EnvelopeArrives
  BY <1>4 DEF EnvelopeArrives
<1>5. CASE OnError
  BY <1>5 DEF OnError
<1>6. CASE HandshakeFires
  <2>1. PICK i \in timers : timers' = timers \ {i}
    BY <1>6 DEF HandshakeFires
  <2>2. /\ mounted /\ open' = open \ {es} /\ retries' = retries + 1
        /\ mounted' = mounted /\ es' = es /\ armed' = armed
    BY <1>6 DEF HandshakeFires
  <2>3. i = 1 /\ open = {1} /\ timers = {1} /\ armed = 1 /\ es = 1 /\ retries = 0
    BY <2>1, <2>2
  <2>4. timers' = {} /\ open' = {} /\ retries' = 1
    BY <2>1, <2>2, <2>3
  <2> QED
    BY <2>2, <2>3, <2>4
<1>7. CASE Unmount
  BY <1>7 DEF Unmount
<1>8. CASE Writers
  BY <1>1, <1>8 DEF Writers, AppendAlert, AppendSuggestion, TearLine, Midnight, MigrationStarts,
     MigrateRead, MigrateTruncate, MigrateWrite, MigrationDies
<1>9. CASE Gateway
  BY <1>1, <1>9 DEF Gateway, AnswerFromCache, TakeLock, LoadAlerts, LoadRest, Expire,
     StreamWakes, GatewayStarts
<1>10. CASE ConnectionBreaks \/ GatewayDies \/ FetchArrives \/ FetchFails
  BY <1>1, <1>10 DEF ConnectionBreaks, GatewayDies, FetchArrives, FetchFails
<1> QED
  BY <1>1, <1>2, <1>3, <1>4, <1>5, <1>6, <1>7, <1>8, <1>9, <1>10 DEF Next, Hook, vars

\* useRuntimeSnapshot: connect, the error handler, the handshake timer and the
\* retry timer keep one source open or one retry pending while the page is there,
\* and none after it is gone.
THEOREM OneConnectionKept == Spec => []OneConnection
<1>1. Init => ConnectionInv
  BY DEF Init, ConnectionInv
<1>2. ConnectionInv => OneConnection
  <2> SUFFICES ASSUME ConnectionInv PROVE OneConnection
    OBVIOUS
  <2>1. Cardinality({}) = 0 /\ Cardinality({1}) = 1
    BY FS_EmptySet, FS_Singleton
  <2>2. mounted => Cardinality(open) + retries = 1
    <3>1. CASE open = {1} /\ retries = 0
      BY <2>1, <3>1
    <3>2. CASE open = {} /\ retries = 1
      BY <2>1, <3>2
    <3> QED
      BY <3>1, <3>2 DEF ConnectionInv
  <2> QED
    BY <2>2 DEF ConnectionInv, OneConnection
<1> QED
  BY <1>1, <1>2, ConnectionStep, PTL DEF Spec

-----------------------------------------------------------------------------
(* Suggestions. *)

\* The upgrade keeps what names a suggestion, and upgrades once.
LEMMA UpgradeStages ==
  ASSUME NEW s \in Records
  PROVE  Upgrade(s) \in Staged /\ Upgrade(s).id = s.id
<1>1. ASSUME NEW h \in Heads, NEW b \in Bundles, NEW a \in Answers, s = Suggestion(h, b, a)
      PROVE  Upgrade(s) = s /\ s \in Staged
  <2>1. s.staged = TRUE
    BY <1>1 DEF Suggestion
  <2>2. s \in Written
    BY <1>1 DEF Written
  <2> QED
    BY <2>1, <2>2 DEF Upgrade, Staged
<1>2. ASSUME NEW h \in Heads, NEW c \in Contexts, NEW b \in Bundles, NEW a \in Answers
      PROVE  LET l == LegacySuggestion(h, c, b, a) IN
             /\ Upgrade(l) \in Staged /\ Upgrade(l).id = l.id
             /\ Upgrade(l).staged = TRUE
  <2> DEFINE l == LegacySuggestion(h, c, b, a)
  <2>1. /\ {"id", "staged", "bundle", "set", "verdict", "plan"} \subseteq DOMAIN l
        /\ l.staged = FALSE
    BY DEF LegacySuggestion
  <2>2. l \in Legacy
    BY DEF Legacy
  <2> HIDE DEF l
  <2>3. Upgrade(l).id = l.id /\ Upgrade(l).staged = TRUE
    BY <2>1 DEF Upgrade
  <2> QED
    BY <2>2, <2>3 DEF Staged, l
<1>3. CASE s \in Written
  <2>1. PICK h \in Heads, b \in Bundles, a \in Answers : s = Suggestion(h, b, a)
    BY <1>3 DEF Written
  <2> QED
    BY <1>1, <2>1
<1>4. CASE s \in Legacy
  <2>1. PICK h \in Heads, c \in Contexts, b \in Bundles, a \in Answers :
          s = LegacySuggestion(h, c, b, a)
    BY <1>4 DEF Legacy
  <2> QED
    BY <1>2, <2>1
<1>5. CASE s \in {Upgrade(l) : l \in Legacy}
  <2>1. PICK l \in Legacy : s = Upgrade(l)
    BY <1>5
  <2>2. PICK h \in Heads, c \in Contexts, b \in Bundles, a \in Answers :
          l = LegacySuggestion(h, c, b, a)
    BY DEF Legacy
  <2>3. s \in Staged /\ s.staged = TRUE
    BY <1>2, <2>1, <2>2
  <2>4. Upgrade(s) = s
    BY <2>3 DEF Upgrade
  <2> QED
    BY <2>3, <2>4
<1> QED
  BY <1>3, <1>4, <1>5 DEF Records, Staged

-----------------------------------------------------------------------------
(* The migration. *)

Lines == Records \cup {Torn}

\* The suggestions that can be read in a sequence of lines, and in all files.
NamesIn(lines) == {r.id : r \in Items(lines) \ {Torn}}
ItemsHeld(files) == UNION {Items(files[i]) : i \in 1..Len(files)}
NamesHeld(files) == UNION {NamesIn(files[i]) : i \in 1..Len(files)}

Rewriting(m) == m.step \in {"read", "truncated"}

Migrations ==
  [step : {"idle", "scan", "read", "truncated"}, file : Nat, last : Nat, lines : Seq(Records)]

\* What makes the promise inductive: while a file is rewritten its suggestions
\* are in the text kept for it, apart from those that came since it was read.
MigrationOk(files, m, w, lost) ==
  /\ files \in Seq(Seq(Lines)) /\ m \in Migrations
  /\ m.step # "idle" => m.file \in 1..m.last /\ m.last \in 1..Len(files)
  /\ Rewriting(m) => NamesIn(files[m.file]) \subseteq lost \cup NamesIn(m.lines)
  /\ ~Rewriting(m) => m.lines = <<>>
  /\ w \subseteq lost \cup NamesHeld(files) \cup NamesIn(m.lines)

MigrationInv ==
  /\ coming \in [alerts : Seq(Alerts), suggestions : Seq(Written), midnight : BOOLEAN,
                 unmount : BOOLEAN, migrations : Int]
  /\ MigrationOk(suggestionFiles, migration, written, spoiled)

\* No line of a text kept is torn.
LEMMA TextIsWhole ==
  ASSUME NEW lines \in Seq(Records)
  PROVE  Torn \notin Items(lines)
BY PartsAssumption DEF PartsAssumption, Items

\* What it is to be named in a text, and in the files.
LEMMA Named ==
  /\ \A lines, x : x \in NamesIn(lines) <=> \E r \in Items(lines) : r # Torn /\ x = r.id
  /\ \A files, x : x \in NamesHeld(files) <=> \E i \in 1..Len(files) : x \in NamesIn(files[i])
  /\ \A files, r : r \in ItemsHeld(files) <=> \E i \in 1..Len(files) : r \in Items(files[i])
BY DEF NamesIn, NamesHeld, ItemsHeld

\* MigrationKeeps in terms of the names.
NamesKept(files, lines) == {r.id : r \in (ItemsHeld(files) \ {Torn}) \cup Items(lines)}
LEMMA KeptNames ==
  ASSUME NEW files, NEW lines \in Seq(Records)
  PROVE  NamesKept(files, lines) = NamesHeld(files) \cup NamesIn(lines)
<1> DEFINE held == ItemsHeld(files) \ {Torn}
<1>1. ASSUME NEW r \in held PROVE r.id \in NamesHeld(files)
  <2>1. PICK i \in 1..Len(files) : r \in Items(files[i]) /\ r # Torn
    BY Named
  <2>2. r.id \in NamesIn(files[i])
    BY <2>1, Named
  <2> QED
    BY <2>2, Named
<1>2. ASSUME NEW r \in Items(lines) PROVE r.id \in NamesIn(lines)
  BY TextIsWhole, Named
<1>3. ASSUME NEW x \in NamesHeld(files) PROVE \E r \in held : x = r.id
  <2>1. PICK i \in 1..Len(files) : x \in NamesIn(files[i])
    BY Named
  <2>2. PICK r \in Items(files[i]) : r # Torn /\ x = r.id
    BY <2>1, Named
  <2>3. r \in held
    BY <2>2, Named
  <2> QED
    BY <2>2, <2>3
<1>4. ASSUME NEW x \in NamesIn(lines) PROVE \E r \in Items(lines) : x = r.id
  BY Named
<1> HIDE DEF held
<1> QED
  BY <1>1, <1>2, <1>3, <1>4 DEF held, NamesKept

\* A line appended goes behind one file, which may be a new one.
LEMMA AppendToFiles ==
  ASSUME NEW files \in Seq(Seq(Lines)), NEW i \in 1..(Len(files) + 1), NEW line \in Lines
  PROVE  LET new == AppendTo(files, i, line) IN
         /\ new \in Seq(Seq(Lines)) /\ Len(files) <= Len(new) /\ i \in 1..Len(new)
         /\ Len(new) \in Nat
         /\ \A j \in 1..Len(files) : j # i => new[j] = files[j]
         /\ \A j \in 1..Len(new) : j # i => j \in 1..Len(files)
         /\ i \in 1..Len(files) => Items(new[i]) = Items(files[i]) \cup {line}
         /\ i \notin 1..Len(files) => Items(new[i]) = {line}
<1> DEFINE new == AppendTo(files, i, line)
<1>1. Len(files) \in Nat
  OBVIOUS
<1>2. CASE i > Len(files)
  <2>1. i = Len(files) + 1 /\ new = Append(files, <<line>>) /\ <<line>> \in Seq(Lines)
    BY <1>1, <1>2 DEF AppendTo
  <2>2. /\ new \in Seq(Seq(Lines)) /\ Len(new) = Len(files) + 1 /\ new[i] = <<line>>
        /\ \A j \in 1..Len(files) : new[j] = files[j]
    <3> HIDE DEF new
    <3> QED
      BY <2>1
  <2>3. Items(<<line>>) = {line}
    <3> DEFINE one == <<line>>
    <3>1. Len(one) = 1 /\ one[1] = line /\ 1..1 = {1}
      OBVIOUS
    <3> HIDE DEF one
    <3>2. Items(one) = {line}
      BY <3>1 DEF Items
    <3> QED
      BY <3>2 DEF one
  <2>4. i \notin 1..Len(files) /\ i \in 1..Len(new) /\ Len(files) <= Len(new) /\ Len(new) \in Nat
    BY <1>1, <2>1, <2>2
  <2>5. \A j \in 1..Len(new) : j # i => j \in 1..Len(files)
    BY <1>1, <2>1, <2>2
  <2>6. Items(new[i]) = {line}
    BY <2>2, <2>3
  <2> QED
    BY <2>2, <2>4, <2>5, <2>6
<1>3. CASE ~(i > Len(files))
  <2>1. i \in 1..Len(files) /\ new = [files EXCEPT ![i] = Append(files[i], line)]
    BY <1>1, <1>3 DEF AppendTo
  <2>2. files[i] \in Seq(Lines) /\ Append(files[i], line) \in Seq(Lines)
    BY <2>1
  <2>3. /\ new \in Seq(Seq(Lines)) /\ Len(new) = Len(files) /\ new[i] = Append(files[i], line)
        /\ \A j \in 1..Len(files) : j # i => new[j] = files[j]
    <3> HIDE DEF new
    <3> QED
      BY <1>1, <2>1, <2>2
  <2>4. Items(Append(files[i], line)) = Items(files[i]) \cup {line}
    <3> DEFINE f == files[i]
    <3>1. f \in Seq(Lines)
      BY <2>2
    <3> HIDE DEF f
    <3>2. /\ Len(f) \in Nat /\ Len(Append(f, line)) = Len(f) + 1
          /\ Append(f, line)[Len(f) + 1] = line
          /\ \A j \in 1..Len(f) : Append(f, line)[j] = f[j]
      BY <3>1
    <3>3. \A j \in 1..(Len(f) + 1) : j \in 1..Len(f) \/ j = Len(f) + 1
      BY <3>2
    <3>4. Items(Append(f, line)) = Items(f) \cup {line}
      BY <3>2, <3>3 DEF Items
    <3> QED
      BY <3>4 DEF f
  <2>5. i \in 1..Len(new) /\ Len(files) <= Len(new) /\ Len(new) \in Nat
    BY <1>1, <2>1, <2>3
  <2>6. Items(new[i]) = Items(files[i]) \cup {line}
    BY <2>3, <2>4
  <2> QED
    BY <2>1, <2>3, <2>5, <2>6
<1> QED
  BY <1>1, <1>2, <1>3

\* An appended line keeps what can be read, and adds its own name to one file.
LEMMA AppendNames ==
  ASSUME NEW files \in Seq(Seq(Lines)), NEW i \in 1..(Len(files) + 1), NEW line \in Lines
  PROVE  LET new == AppendTo(files, i, line) IN
         /\ new \in Seq(Seq(Lines)) /\ Len(new) \in Nat /\ Len(files) <= Len(new)
         /\ NamesHeld(files) \subseteq NamesHeld(new)
         /\ line # Torn => line.id \in NamesHeld(new)
         /\ \A j \in 1..Len(files) : j # i => NamesIn(new[j]) = NamesIn(files[j])
         /\ \A j \in 1..Len(files) :
              NamesIn(new[j]) \subseteq NamesIn(files[j]) \cup {line.id}
         /\ line = Torn => \A j \in 1..Len(files) : NamesIn(new[j]) = NamesIn(files[j])
<1> DEFINE new == AppendTo(files, i, line)
<1>1. /\ new \in Seq(Seq(Lines)) /\ Len(files) \in Nat /\ Len(new) \in Nat /\ Len(files) <= Len(new) /\ i \in 1..Len(new)
      /\ \A j \in 1..Len(files) : j # i => new[j] = files[j]
      /\ i \in 1..Len(files) => Items(new[i]) = Items(files[i]) \cup {line}
      /\ i \notin 1..Len(files) => Items(new[i]) = {line}
  <2>1. Len(files) \in Nat
    OBVIOUS
  <2> QED
    BY <2>1, AppendToFiles
<1> HIDE DEF new
<1>2. \A j \in 1..Len(files) : j # i => NamesIn(new[j]) = NamesIn(files[j])
  BY <1>1
<1>3. ASSUME i \in 1..Len(files)
      PROVE  /\ NamesIn(files[i]) \subseteq NamesIn(new[i])
             /\ NamesIn(new[i]) \subseteq NamesIn(files[i]) \cup {line.id}
             /\ line = Torn => NamesIn(new[i]) = NamesIn(files[i])
  <2>1. \A r : r \in Items(new[i]) <=> r \in Items(files[i]) \/ r = line
    BY <1>1, <1>3
  <2>2. \A x : x \in NamesIn(files[i]) => x \in NamesIn(new[i])
    BY <2>1, Named
  <2>3. \A x : x \in NamesIn(new[i]) => x \in NamesIn(files[i]) \/ (line # Torn /\ x = line.id)
    BY <2>1, Named
  <2> QED
    BY <2>2, <2>3
<1>4. line # Torn => line.id \in NamesIn(new[i])
  <2>1. line \in Items(new[i])
    BY <1>1
  <2> QED
    BY <2>1, Named
<1>5. \A j \in 1..Len(files) : j \in 1..Len(new) /\ NamesIn(files[j]) \subseteq NamesIn(new[j])
  <2> TAKE j \in 1..Len(files)
  <2>1. j \in 1..Len(new)
    BY <1>1
  <2>2. CASE j = i
    BY <1>3, <2>1, <2>2
  <2>3. CASE j # i
    BY <1>2, <2>1, <2>3
  <2> QED
    BY <2>2, <2>3
<1>6. NamesHeld(files) \subseteq NamesHeld(new)
  BY <1>5, Named
<1>7. line # Torn => line.id \in NamesHeld(new)
  BY <1>1, <1>4, Named
<1> QED
  BY <1>1, <1>2, <1>3, <1>6, <1>7 DEF new

\* A file rewritten: what it held is gone unless the text holds it.
LEMMA ReplaceNames ==
  ASSUME NEW files \in Seq(Seq(Lines)), NEW k \in 1..Len(files), NEW text \in Seq(Lines)
  PROVE  LET new == [files EXCEPT ![k] = text] IN
         /\ new \in Seq(Seq(Lines)) /\ Len(new) = Len(files) /\ new[k] = text
         /\ NamesHeld(files) \subseteq NamesHeld(new) \cup NamesIn(files[k])
         /\ NamesIn(text) \subseteq NamesHeld(new)
<1> DEFINE new == [files EXCEPT ![k] = text]
<1>1. /\ new \in Seq(Seq(Lines)) /\ Len(new) = Len(files) /\ new[k] = text
      /\ \A j \in 1..Len(files) : j # k => new[j] = files[j]
  OBVIOUS
<1> HIDE DEF new
<1>2. ASSUME NEW x \in NamesHeld(files) PROVE x \in NamesHeld(new) \cup NamesIn(files[k])
  <2>1. PICK j \in 1..Len(files) : x \in NamesIn(files[j])
    BY Named
  <2>2. CASE j = k
    BY <2>1, <2>2
  <2>3. CASE j # k
    BY <1>1, <2>1, <2>3, Named
  <2> QED
    BY <2>2, <2>3
<1>3. NamesIn(text) \subseteq NamesHeld(new)
  BY <1>1, Named
<1> QED
  BY <1>1, <1>2, <1>3 DEF new

\* The upgraded text names the suggestions of the file.
LEMMA RewrittenKeeps ==
  ASSUME NEW lines \in Seq(Lines), Torn \notin Items(lines)
  PROVE  Rewritten(lines) \in Seq(Records) /\ NamesIn(Rewritten(lines)) = NamesIn(lines)
<1> DEFINE text == [i \in 1..Len(lines) |-> Upgrade(lines[i])]
<1>1. \A i \in 1..Len(lines) : lines[i] \in Records /\ lines[i] # Torn
  BY DEF Lines, Items
<1>2. \A i \in 1..Len(lines) : /\ Upgrade(lines[i]) \in Records
                               /\ Upgrade(lines[i]).id = lines[i].id
                               /\ Upgrade(lines[i]) # Torn
  BY <1>1, UpgradeStages, PartsAssumption DEF Records, PartsAssumption
<1>3. Len(lines) \in Nat
  OBVIOUS
<1>4. /\ text \in Seq(Records) /\ Len(text) = Len(lines)
      /\ \A i \in 1..Len(lines) : text[i] = Upgrade(lines[i])
  BY <1>2, <1>3
<1> HIDE DEF text
<1>5. \A t, r : r \in Items(t) <=> \E i \in 1..Len(t) : r = t[i]
  BY DEF Items
<1>6. ASSUME NEW x PROVE x \in NamesIn(text) <=> x \in NamesIn(lines)
  <2>1. x \in NamesIn(text) <=> \E i \in 1..Len(lines) : x = text[i].id
    BY <1>2, <1>4, <1>5, Named
  <2>2. x \in NamesIn(lines) <=> \E i \in 1..Len(lines) : x = lines[i].id
    BY <1>1, <1>5, Named
  <2> QED
    BY <1>2, <1>4, <2>1, <2>2
<1>7. Rewritten(lines) = text
  BY DEF Rewritten, text
<1> QED
  BY <1>4, <1>6, <1>7

\* An appended suggestion counts as lost when its file is being rewritten.
LEMMA OkAppended ==
  ASSUME NEW files, NEW m, NEW w, NEW lost, NEW more, MigrationOk(files, m, w, lost),
         NEW line \in Written, NEW i \in 1..(Len(files) + 1), lost \subseteq more,
         Rewriting(m) /\ m.file = i => line.id \in more
  PROVE  MigrationOk(AppendTo(files, i, line), m, w \cup {line.id}, more)
<1> DEFINE new == AppendTo(files, i, line)
<1>1. files \in Seq(Seq(Lines)) /\ m \in Migrations
  BY DEF MigrationOk
<1>2. line \in Lines /\ line # Torn
  BY PartsAssumption DEF PartsAssumption, Lines, Records, Staged
<1>3. /\ new \in Seq(Seq(Lines)) /\ Len(new) \in Nat /\ Len(files) <= Len(new)
      /\ NamesHeld(files) \subseteq NamesHeld(new)
      /\ line # Torn => line.id \in NamesHeld(new)
      /\ \A j \in 1..Len(files) : j # i => NamesIn(new[j]) = NamesIn(files[j])
      /\ \A j \in 1..Len(files) : NamesIn(new[j]) \subseteq NamesIn(files[j]) \cup {line.id}
  BY <1>1, <1>2, AppendNames
<1>0. Len(files) \in Nat
  BY <1>1
<1> HIDE DEF new
<1>4. m.step # "idle" => m.file \in 1..m.last /\ m.last \in 1..Len(new)
  BY <1>0, <1>1, <1>3 DEF MigrationOk, Migrations
<1>5. ASSUME Rewriting(m) PROVE NamesIn(new[m.file]) \subseteq more \cup NamesIn(m.lines)
  <2>1. m.file \in 1..Len(files)
    BY <1>0, <1>1, <1>3, <1>5 DEF MigrationOk, Migrations, Rewriting
  <2>2. NamesIn(files[m.file]) \subseteq more \cup NamesIn(m.lines)
    BY <1>5 DEF MigrationOk
  <2>3. CASE m.file = i
    BY <1>3, <1>5, <2>1, <2>2, <2>3
  <2>4. CASE m.file # i
    BY <1>3, <2>1, <2>2, <2>4
  <2> QED
    BY <2>3, <2>4
<1>6. w \cup {line.id} \subseteq more \cup NamesHeld(new) \cup NamesIn(m.lines)
  BY <1>2, <1>3 DEF MigrationOk
<1>7. ~Rewriting(m) => m.lines = <<>>
  BY DEF MigrationOk
<1> QED
  BY <1>1, <1>3, <1>4, <1>5, <1>6, <1>7 DEF MigrationOk, new

\* A torn line takes nothing away.
LEMMA OkTorn ==
  ASSUME NEW files, NEW m, NEW w, NEW lost, MigrationOk(files, m, w, lost),
         NEW i \in 1..(Len(files) + 1), ~Rewriting(m)
  PROVE  MigrationOk(AppendTo(files, i, Torn), m, w, lost)
<1> DEFINE new == AppendTo(files, i, Torn)
<1>1. files \in Seq(Seq(Lines)) /\ m \in Migrations /\ Torn \in Lines
  BY DEF MigrationOk, Lines
<1>2. /\ new \in Seq(Seq(Lines)) /\ Len(files) \in Nat /\ Len(new) \in Nat /\ Len(files) <= Len(new)
      /\ NamesHeld(files) \subseteq NamesHeld(new)
  BY <1>1, AppendNames
<1> HIDE DEF new
<1>3. m.step # "idle" => m.file \in 1..m.last /\ m.last \in 1..Len(new)
  BY <1>1, <1>2 DEF MigrationOk, Migrations
<1> QED
  BY <1>1, <1>2, <1>3 DEF MigrationOk, new

\* The migration moves on to the next file, or ends.
LEMMA OkOnward ==
  ASSUME NEW files, NEW m \in Migrations, NEW w, NEW lost, files \in Seq(Seq(Lines)),
         m.file \in 1..m.last, m.last \in 1..Len(files), w \subseteq lost \cup NamesHeld(files),
         NEW next, next = IF m.file = m.last THEN IdleMigration
                          ELSE [m EXCEPT !.step = "scan", !.file = @ + 1, !.lines = <<>>]
  PROVE  MigrationOk(files, next, w, lost)
<1>1. CASE m.file = m.last
  <2>1. next = IdleMigration /\ next \in Migrations /\ next.step = "idle" /\ next.lines = <<>>
    BY <1>1 DEF IdleMigration, Migrations
  <2> QED
    BY <2>1 DEF MigrationOk, Rewriting
<1>2. CASE m.file # m.last
  <2>1. m.file \in Nat /\ m.last \in Nat
    BY DEF Migrations
  <2>2. next = [m EXCEPT !.step = "scan", !.file = @ + 1, !.lines = <<>>]
    BY <1>2
  <2>3. /\ next \in Migrations /\ next.step = "scan" /\ next.lines = <<>>
        /\ next.last = m.last /\ next.file = m.file + 1
    <3>1. next = [step |-> "scan", file |-> m.file + 1, last |-> m.last, lines |-> <<>>]
      <4>1. PICK a, f, l, t : m = [step |-> a, file |-> f, last |-> l, lines |-> t]
        BY DEF Migrations
      <4>2. m.file = f /\ m.last = l
        BY <4>1
      <4>3. PICK scan : scan = [m EXCEPT !.step = "scan"]
        OBVIOUS
      <4>4. scan = [step |-> "scan", file |-> f, last |-> l, lines |-> t]
        BY <4>1, <4>3
      <4>5. PICK there : there = [scan EXCEPT !.file = f + 1]
        OBVIOUS
      <4>6. there = [step |-> "scan", file |-> f + 1, last |-> l, lines |-> t]
        BY <4>4, <4>5
      <4>7. [there EXCEPT !.lines = <<>>]
              = [step |-> "scan", file |-> f + 1, last |-> l, lines |-> <<>>]
        BY <4>6
      <4>8. next = [there EXCEPT !.lines = <<>>]
        BY <2>2, <4>2, <4>3, <4>5
      <4> QED
        BY <4>2, <4>7, <4>8
    <3>2. m.file + 1 \in Nat /\ m.last \in Nat /\ <<>> \in Seq(Records)
      BY <2>1
    <3>3. PICK f \in Nat, l \in Nat, t \in Seq(Records) :
            f = m.file + 1 /\ l = m.last /\ t = <<>>
      BY <3>2
    <3>4. next = [step |-> "scan", file |-> f, last |-> l, lines |-> t]
      BY <3>1, <3>3
    <3>5. next \in Migrations
      BY <3>4 DEF Migrations
    <3> QED
      BY <3>1, <3>5
  <2>4. next.file \in 1..next.last
    BY <1>2, <2>1, <2>3
  <2> QED
    BY <2>3, <2>4 DEF MigrationOk, Rewriting
<1> QED
  BY <1>1, <1>2

\* Each step of the migration, and each step of the writers, keeps the promise.
LEMMA MigrationStep ==
  ASSUME MigrationInv, [Next]_vars
  PROVE  MigrationInv'
<1> DEFINE files == suggestionFiles
           m == migration
<1>0. /\ files \in Seq(Seq(Lines)) /\ m \in Migrations /\ Len(files) \in Nat
      /\ MigrationOk(files, m, written, spoiled)
  BY DEF MigrationInv, MigrationOk
<1>1. CASE UNCHANGED <<suggestionFiles, coming, migration, written, spoiled>>
  BY <1>1 DEF MigrationInv
<1>2. CASE AppendAlert \/ Midnight
  <2>1. UNCHANGED <<suggestionFiles, migration, written, spoiled>>
    BY <1>2 DEF AppendAlert, Midnight
  <2>2. CASE AppendAlert
    <3>1. /\ coming.alerts # <<>> /\ coming.alerts \in Seq(Alerts)
          /\ coming' = [coming EXCEPT !.alerts = Tail(@)]
      BY <2>2 DEF AppendAlert, MigrationInv
    <3>2. Tail(coming.alerts) \in Seq(Alerts)
      BY <3>1
    <3> QED
      BY <2>1, <3>1, <3>2 DEF MigrationInv
  <2>3. CASE Midnight
    BY <2>1, <2>3 DEF Midnight, MigrationInv
  <2> QED
    BY <1>2, <2>2, <2>3
<1>3. CASE AppendSuggestion
  <2> DEFINE line == Head(coming.suggestions)
  <2>1. PICK i \in {Greatest(1, Len(files)), Len(files) + 1} :
          /\ suggestionFiles' = AppendTo(files, i, line) /\ written' = written \cup {line.id}
          /\ spoiled' = IF m.step \in {"read", "truncated"} /\ m.file = i
                        THEN spoiled \cup {line.id} ELSE spoiled
    BY <1>3 DEF AppendSuggestion
  <2>2. /\ coming.suggestions # <<>> /\ migration' = m
        /\ coming' = [coming EXCEPT !.suggestions = Tail(@)]
    BY <1>3 DEF AppendSuggestion
  <2>3. i \in 1..(Len(files) + 1)
    BY <1>0, <2>1 DEF Greatest
  <2>4. line \in Written /\ Tail(coming.suggestions) \in Seq(Written)
    BY <2>2 DEF MigrationInv
  <2>5. spoiled \subseteq spoiled' /\ (Rewriting(m) /\ m.file = i => line.id \in spoiled')
    BY <2>1 DEF Rewriting
  <2> HIDE DEF line
  <2>6. MigrationOk(AppendTo(files, i, line), m, written \cup {line.id}, spoiled')
    BY <1>0, <2>3, <2>4, <2>5, OkAppended
  <2> QED
    BY <2>1, <2>2, <2>4, <2>6 DEF MigrationInv
<1>4. CASE TearLine
  <2>1. CASE UNCHANGED suggestionFiles
    BY <1>1, <1>4, <2>1 DEF TearLine
  <2>2. CASE /\ suggestionFiles # <<>> /\ migration.step \notin {"read", "truncated"}
             /\ suggestionFiles' = AppendTo(suggestionFiles, Len(suggestionFiles), Torn)
    <3>1. Len(files) \in 1..(Len(files) + 1) /\ ~Rewriting(m)
      BY <1>0, <2>2 DEF Rewriting
    <3>2. MigrationOk(AppendTo(files, Len(files), Torn), m, written, spoiled)
      BY <1>0, <3>1, OkTorn
    <3> QED
      BY <1>4, <2>2, <3>2 DEF TearLine, MigrationInv
  <2> QED
    BY <1>4, <2>1, <2>2 DEF TearLine
<1>5. CASE MigrationStarts
  <2>1. /\ m.step = "idle" /\ files # <<>> /\ suggestionFiles' = files
        /\ written' = written /\ spoiled' = spoiled
        /\ coming' = [coming EXCEPT !.migrations = @ - 1]
        /\ migration' = [IdleMigration EXCEPT !.step = "scan", !.file = 1, !.last = Len(files)]
    BY <1>5 DEF MigrationStarts
  <2>2. Len(files) \in 1..Len(files) /\ 1 \in 1..Len(files)
    BY <1>0, <2>1
  <2>3. /\ migration' \in Migrations /\ migration'.step = "scan" /\ migration'.lines = <<>>
        /\ migration'.file = 1 /\ migration'.last = Len(files)
    <3>1. migration' = [step |-> "scan", file |-> 1, last |-> Len(files), lines |-> <<>>]
      BY <2>1 DEF IdleMigration
    <3> QED
      BY <1>0, <3>1 DEF Migrations
  <2>4. m.lines = <<>>
    BY <1>0, <2>1 DEF MigrationOk, Rewriting
  <2>5. MigrationOk(files, migration', written, spoiled)
    BY <1>0, <2>2, <2>3, <2>4 DEF MigrationOk, Rewriting
  <2> QED
    BY <2>1, <2>5 DEF MigrationInv
<1>6. CASE MigrateRead
  <2> DEFINE lines == suggestionFiles[migration.file]
             text == Rewritten(lines)
  <2>1. m.step = "scan" /\ UNCHANGED <<suggestionFiles, coming, written, spoiled>>
    BY <1>6 DEF MigrateRead
  <2>2. m.file \in 1..m.last /\ m.last \in 1..Len(files) /\ m.lines = <<>>
    BY <1>0, <2>1 DEF MigrationOk, Rewriting
  <2>3. m.file \in 1..Len(files) /\ lines \in Seq(Lines)
    BY <1>0, <2>2 DEF Migrations
  <2>4. written \subseteq spoiled \cup NamesHeld(files)
    <3>1. \A x : x \notin NamesIn(<<>>)
      BY Named DEF Items
    <3> QED
      BY <1>0, <2>2, <3>1 DEF MigrationOk
  <2>5. CASE migration' = IdleMigration
    <3>2. MigrationOk(files, IdleMigration, written, spoiled)
      BY <1>0, <2>4 DEF MigrationOk, IdleMigration, Migrations, Rewriting
    <3> QED
      BY <2>1, <2>5, <3>2 DEF MigrationInv
  <2>6. CASE Onward
    <3>1. MigrationOk(files, migration', written, spoiled)
      BY <1>0, <2>2, <2>4, <2>6, OkOnward DEF Onward
    <3> QED
      BY <2>1, <3>1 DEF MigrationInv
  <2>7. CASE /\ text \notin {None, lines}
             /\ migration' = [migration EXCEPT !.step = "read", !.lines = text]
    <3>1. migration' = [migration EXCEPT !.step = "read", !.lines = text]
      BY <2>7
    <3>2. Torn \notin Items(lines)
      BY <2>7 DEF Rewritten
    <3>3. text \in Seq(Records) /\ NamesIn(text) = NamesIn(lines)
      BY <2>3, <3>2, RewrittenKeeps
    <3> HIDE DEF text
    <3>4. /\ migration' \in Migrations /\ migration'.step = "read" /\ migration'.lines = text
          /\ migration'.file = m.file /\ migration'.last = m.last
      BY <1>0, <3>1, <3>3 DEF Migrations
    <3>5. MigrationOk(files, migration', written, spoiled)
      BY <1>0, <2>2, <2>4, <3>3, <3>4 DEF MigrationOk, Rewriting
    <3> QED
      BY <2>1, <3>5 DEF MigrationInv
  <2> QED
    BY <1>6, <2>5, <2>6, <2>7 DEF MigrateRead
<1>7. CASE MigrateTruncate
  <2>1. /\ m.step = "read" /\ UNCHANGED <<coming, written, spoiled>>
        /\ migration' = [migration EXCEPT !.step = "truncated"]
        /\ suggestionFiles' = [suggestionFiles EXCEPT ![migration.file] = <<>>]
    BY <1>7 DEF MigrateTruncate
  <2>2. /\ m.file \in 1..m.last /\ m.last \in 1..Len(files)
        /\ NamesIn(files[m.file]) \subseteq spoiled \cup NamesIn(m.lines)
        /\ written \subseteq spoiled \cup NamesHeld(files) \cup NamesIn(m.lines)
    BY <1>0, <2>1 DEF MigrationOk, Rewriting
  <2>3. m.file \in 1..Len(files) /\ <<>> \in Seq(Lines)
    BY <1>0, <2>2 DEF Migrations
  <2>4. /\ suggestionFiles' \in Seq(Seq(Lines)) /\ Len(suggestionFiles') = Len(files)
        /\ suggestionFiles'[m.file] = <<>>
        /\ NamesHeld(files) \subseteq NamesHeld(suggestionFiles') \cup NamesIn(files[m.file])
    <3>1. PICK text \in Seq(Lines) : text = <<>>
      BY <2>3
    <3>2. suggestionFiles' = [suggestionFiles EXCEPT ![migration.file] = text]
      BY <2>1, <3>1
    <3>3. /\ suggestionFiles' \in Seq(Seq(Lines)) /\ Len(suggestionFiles') = Len(files)
          /\ NamesHeld(files) \subseteq NamesHeld(suggestionFiles') \cup NamesIn(files[m.file])
      BY <1>0, <2>3, <3>2, ReplaceNames
    <3>4. suggestionFiles'[m.file] = text
      BY <1>0, <2>3, <3>2
    <3> QED
      BY <3>1, <3>3, <3>4
  <2>5. /\ migration' \in Migrations /\ migration'.step = "truncated"
        /\ migration'.lines = m.lines /\ migration'.file = m.file /\ migration'.last = m.last
    BY <1>0, <2>1 DEF Migrations
  <2>6. \A x : x \notin NamesIn(<<>>)
    BY Named DEF Items
  <2>7. MigrationOk(suggestionFiles', migration', written, spoiled)
    BY <2>2, <2>4, <2>5, <2>6 DEF MigrationOk, Rewriting
  <2> QED
    BY <2>1, <2>7 DEF MigrationInv
<1>8. CASE MigrateWrite
  <2>1. /\ m.step = "truncated" /\ UNCHANGED <<coming, written, spoiled>>
        /\ Onward
        /\ suggestionFiles' = [suggestionFiles EXCEPT ![migration.file] = migration.lines]
    BY <1>8 DEF MigrateWrite
  <2>2. /\ m.file \in 1..m.last /\ m.last \in 1..Len(files)
        /\ NamesIn(files[m.file]) \subseteq spoiled \cup NamesIn(m.lines)
        /\ written \subseteq spoiled \cup NamesHeld(files) \cup NamesIn(m.lines)
    BY <1>0, <2>1 DEF MigrationOk, Rewriting
  <2>3. m.file \in 1..Len(files) /\ m.lines \in Seq(Records) /\ m.lines \in Seq(Lines)
    BY <1>0, <2>2 DEF Migrations, Lines
  <2>4. /\ suggestionFiles' \in Seq(Seq(Lines)) /\ Len(suggestionFiles') = Len(files)
        /\ NamesHeld(files) \subseteq NamesHeld(suggestionFiles') \cup NamesIn(files[m.file])
        /\ NamesIn(m.lines) \subseteq NamesHeld(suggestionFiles')
    BY <1>0, <2>1, <2>3, ReplaceNames
  <2>5. written \subseteq spoiled \cup NamesHeld(suggestionFiles')
    BY <2>2, <2>4
  <2>6. MigrationOk(suggestionFiles', migration', written, spoiled)
    BY <1>0, <2>1, <2>2, <2>4, <2>5, OkOnward DEF Onward
  <2> QED
    BY <2>1, <2>6 DEF MigrationInv
<1>9. CASE MigrationDies
  <2>1. /\ m.step = "truncated" /\ UNCHANGED <<suggestionFiles, coming, written>>
        /\ migration' = IdleMigration
        /\ spoiled' = spoiled \cup {r.id : r \in Items(m.lines)}
    BY <1>9 DEF MigrationDies
  <2>2. m.lines \in Seq(Records)
    BY <1>0 DEF Migrations
  <2>3. NamesIn(m.lines) \subseteq spoiled'
    BY <2>1, <2>2, TextIsWhole, Named
  <2>4. written \subseteq spoiled' \cup NamesHeld(files)
    BY <1>0, <2>1, <2>3 DEF MigrationOk
  <2>5. MigrationOk(files, IdleMigration, written, spoiled')
    BY <1>0, <2>4 DEF MigrationOk, IdleMigration, Migrations, Rewriting
  <2> QED
    BY <2>1, <2>5 DEF MigrationInv
<1>10. CASE Gateway \/ ConnectionBreaks \/ GatewayDies
  BY <1>1, <1>10 DEF Gateway, AnswerFromCache, TakeLock, LoadAlerts, LoadRest, Expire,
     StreamWakes, GatewayStarts, ConnectionBreaks, GatewayDies, fileVars
<1>11. CASE Hook
  BY <1>1, <1>11 DEF Hook, Mount, FetchArrives, FetchFails, RetryFires, EnvelopeArrives, OnError,
     HandshakeFires, Unmount, fileVars
<1>12. CASE UNCHANGED vars
  BY <1>1, <1>12 DEF vars, fileVars
<1> QED
  BY <1>2, <1>3, <1>4, <1>5, <1>6, <1>7, <1>8, <1>9, <1>10, <1>11, <1>12 DEF Next, Writers

\* The files that the program starts with.
LEMMA MigrationInit ==
  ASSUME Init
  PROVE  MigrationInv
<1>1. PICK s \in Scenarios :
        /\ suggestionFiles = s.suggestions /\ coming = s.coming
        /\ written = {r.id : r \in (UNION {Items(s.suggestions[i]) :
                                             i \in 1..Len(s.suggestions)}) \ {Torn}}
  BY DEF Init
<1>2. /\ s.suggestions \in Seq(Seq(Written \cup Legacy \cup {Torn}))
      /\ s.coming \in [alerts : Seq(Alerts), suggestions : Seq(Written), midnight : BOOLEAN,
                       unmount : BOOLEAN, migrations : Nat]
  BY ScenarioAssumption DEF ScenarioAssumption
<1>3. suggestionFiles \in Seq(Seq(Lines))
  <2>1. Written \cup Legacy \cup {Torn} \subseteq Lines
    BY DEF Lines, Records, Staged
  <2>2. Seq(Written \cup Legacy \cup {Torn}) \subseteq Seq(Lines)
    BY <2>1
  <2> QED
    BY <1>1, <1>2, <2>2
<1>4. written = NamesKept(suggestionFiles, <<>>)
  <2>1. Items(<<>>) = {}
    BY DEF Items
  <2>2. (ItemsHeld(suggestionFiles) \ {Torn}) \cup Items(<<>>) = ItemsHeld(suggestionFiles) \ {Torn}
    BY <2>1
  <2> QED
    BY <1>1, <2>2 DEF NamesKept, ItemsHeld
<1>5. migration = IdleMigration /\ spoiled = {}
  BY DEF Init
<1>6. written = NamesHeld(suggestionFiles) \cup NamesIn(<<>>)
  <2>0. <<>> \in Seq(Records)
    OBVIOUS
  <2>1. PICK none \in Seq(Records) : none = <<>>
    BY <2>0
  <2>2. NamesKept(suggestionFiles, none) = NamesHeld(suggestionFiles) \cup NamesIn(none)
    BY KeptNames
  <2> QED
    BY <1>4, <2>1, <2>2
<1>7. MigrationOk(suggestionFiles, migration, written, spoiled)
  BY <1>3, <1>5, <1>6 DEF MigrationOk, IdleMigration, Migrations, Rewriting
<1>8. coming \in [alerts : Seq(Alerts), suggestions : Seq(Written), midnight : BOOLEAN,
                  unmount : BOOLEAN, migrations : Int]
  BY <1>1, <1>2
<1> QED
  BY <1>7, <1>8 DEF MigrationInv

\* migrate_legacy_runtime: whatever the files hold and however the agent's
\* appends, torn lines and kills fall between its reads and writes, a suggestion
\* once written is in a file or in the text about to be written, unless it was
\* appended to the file under rewrite or the rewrite was cut.
THEOREM MigrationLosesNone == Spec => []MigrationKeeps
<1>1. Init => MigrationInv
  BY MigrationInit
<1>2. MigrationInv => MigrationKeeps
  <2> SUFFICES ASSUME MigrationInv PROVE MigrationKeeps
    OBVIOUS
  <2>1. migration.lines \in Seq(Records)
    BY DEF MigrationInv, MigrationOk, Migrations
  <2>2. written \subseteq spoiled \cup NamesKept(suggestionFiles, migration.lines)
    BY <2>1, KeptNames DEF MigrationInv, MigrationOk
  <2> QED
    BY <2>2 DEF MigrationKeeps, NamesKept, ItemsHeld
<1> QED
  BY <1>1, <1>2, MigrationStep, PTL DEF Spec

-----------------------------------------------------------------------------
(* Induction: a set of naturals that is not empty has a least element.       *)

\* Every set of naturals that is not empty has a least element.
LEMMA LeastNumber ==
  ASSUME NEW T \in SUBSET Nat, T # {}
  PROVE  \E n \in T : \A m \in T : n <= m
<1> DEFINE R == OpToRel(<, Nat)
<1>1. IsWellFoundedOn(R, Nat)
  BY NatLessThanWellFounded
<1>2. \A m, n \in Nat : m < n => <<m, n>> \in R
  BY DEF OpToRel
<1> HIDE DEF R
<1>3. PICK n \in T : \A m \in T : ~(<<m, n>> \in R)
  BY <1>1, WFMin
<1>4. \A m \in T : ~(m < n) /\ m \in Nat /\ n \in Nat
  BY <1>2, <1>3
<1>5. \A m \in T : n <= m
  BY <1>4
<1> QED
  BY <1>3, <1>5

\* A set that holds one and, with a number below n, the next one, holds every
\* number up to n.
LEMMA Induction ==
  ASSUME NEW n \in Nat, NEW P, 1 \in P,
         \A m \in 1..n : m \in P /\ m < n => m + 1 \in P
  PROVE  \A m \in 1..n : m \in P
<1> DEFINE T == {m \in 1..n : m \notin P}
<1> SUFFICES ASSUME T # {} PROVE FALSE
  OBVIOUS
<1>1. T \in SUBSET Nat
  OBVIOUS
<1>2. PICK m \in T : \A o \in T : m <= o
  BY <1>1, LeastNumber
<1>3. m # 1 /\ m - 1 \in 1..n /\ m - 1 < n /\ m - 1 < m /\ (m - 1) + 1 = m
  BY <1>2
<1>4. m - 1 \in P
  BY <1>2, <1>3
<1> QED
  BY <1>2, <1>3, <1>4

-----------------------------------------------------------------------------
(* What the gateway reads. *)

\* When of two elements one is always behind the other, every rank is taken, by
\* one element: D has the elements up to each.
LEMMA RanksFill ==
  ASSUME NEW S, IsFiniteSet(S), NEW D \in [S -> SUBSET S],
         \A i \in S : i \in D[i],
         \A i, j \in S : i # j => (D[i] \subseteq D[j] /\ j \notin D[i])
                                  \/ (D[j] \subseteq D[i] /\ i \notin D[j])
  PROVE  /\ \A k \in 1..Cardinality(S) : \E i \in S : Cardinality(D[i]) = k
         /\ \A i \in S : IsFiniteSet(D[i]) /\ Cardinality(D[i]) \in 1..Cardinality(S)
         /\ \A i, j \in S : Cardinality(D[i]) = Cardinality(D[j]) => i = j
<1> DEFINE N == Cardinality(S)
           r == [i \in S |-> Cardinality(D[i])]
<1>1. N \in Nat /\ IsFiniteSet(1..N) /\ Cardinality(1..N) = N
  BY FS_CardinalityType, FS_Interval
<1>2. ASSUME NEW i \in S
      PROVE  IsFiniteSet(D[i]) /\ Cardinality(D[i]) \in 1..N
  <2>1. IsFiniteSet(D[i]) /\ Cardinality(D[i]) <= N /\ Cardinality(D[i]) \in Nat
    BY FS_Subset, FS_CardinalityType
  <2>2. Cardinality(D[i]) # 0
    BY <2>1, FS_EmptySet
  <2> QED
    BY <1>1, <2>1, <2>2
<1>3. ASSUME NEW i \in S, NEW j \in S, D[i] \subseteq D[j], j \notin D[i]
      PROVE  Cardinality(D[i]) # Cardinality(D[j])
  BY <1>2, <1>3, FS_Subset
<1>4. r \in Injection(S, 1..N)
  <2>1. r \in [S -> 1..N]
    BY <1>2
  <2>2. ASSUME NEW i \in S, NEW j \in S, r[i] = r[j] PROVE i = j
    BY <1>3, <2>2
  <2> QED
    BY <2>1, <2>2 DEF Injection, IsInjective
<1>5. r \in Surjection(S, 1..N)
  BY <1>1, <1>4, FS_Injection
<1>6. \A k \in 1..N : \E i \in S : r[i] = k
  BY <1>5 DEF Surjection
<1>7. \A i, j \in S : Cardinality(D[i]) = Cardinality(D[j]) => i = j
  BY <1>3
<1> QED
  BY <1>2, <1>6, <1>7

\* The elements at some places of a sequence are elements of it, one for each
\* place.
LEMMA AtPicks ==
  ASSUME NEW X, NEW s \in Seq(X), NEW S \in SUBSET (1..Len(s))
  PROVE  /\ At(s, S) \in Seq(X)
         /\ IsFiniteSet(S) /\ Len(At(s, S)) = Cardinality(S) /\ Cardinality(S) \in Nat
         /\ \A n \in 1..Len(At(s, S)) : \E i \in S : At(s, S)[n] = s[i]
         /\ \A i \in S : \E n \in 1..Len(At(s, S)) : At(s, S)[n] = s[i]
<1> DEFINE D == [i \in S |-> {j \in S : j <= i}]
           pick(n) == CHOOSE i \in S : Cardinality({j \in S : j <= i}) = n
<1>1. Len(s) \in Nat /\ S \subseteq Int
  OBVIOUS
<1>2. IsFiniteSet(S) /\ Cardinality(S) \in Nat
  <2>1. IsFiniteSet(1..Len(s))
    BY <1>1, FS_Interval
  <2>2. IsFiniteSet(S)
    BY <2>1, FS_Subset
  <2> QED
    BY <2>2, FS_CardinalityType
<1>3. D \in [S -> SUBSET S] /\ \A i \in S : i \in D[i]
  BY <1>1
<1>4. \A i, j \in S : i # j => (D[i] \subseteq D[j] /\ j \notin D[i])
                               \/ (D[j] \subseteq D[i] /\ i \notin D[j])
  <2> TAKE i, j \in S
  <2> HAVE i # j
  <2>1. \A a, b \in S : b \in D[a] <=> b <= a
    OBVIOUS
  <2>2. D[i] \subseteq S /\ D[j] \subseteq S /\ \A a \in S : a \in Int
    BY <1>1, <1>3
  <2> HIDE DEF D
  <2>3. CASE i < j
    <3>1. j \notin D[i]
      BY <2>1, <2>2, <2>3
    <3>2. ASSUME NEW a \in D[i] PROVE a \in D[j]
      <4>1. a \in S /\ a \in Int /\ a <= i
        BY <2>1, <2>2
      <4>2. a <= j
        BY <2>2, <2>3, <4>1
      <4> QED
        BY <2>1, <4>1, <4>2
    <3> QED
      BY <3>1, <3>2
  <2>4. CASE j < i
    <3>1. i \notin D[j]
      BY <2>1, <2>2, <2>4
    <3>2. ASSUME NEW a \in D[j] PROVE a \in D[i]
      <4>1. a \in S /\ a \in Int /\ a <= j
        BY <2>1, <2>2
      <4>2. a <= i
        BY <2>2, <2>4, <4>1
      <4> QED
        BY <2>1, <4>1, <4>2
    <3> QED
      BY <3>1, <3>2
  <2> QED
    BY <2>2, <2>3, <2>4
<1>5. /\ \A n \in 1..Cardinality(S) : \E i \in S : Cardinality(D[i]) = n
      /\ \A i \in S : Cardinality(D[i]) \in 1..Cardinality(S)
      /\ \A i, j \in S : Cardinality(D[i]) = Cardinality(D[j]) => i = j
  <2> HIDE DEF D
  <2> QED
    BY <1>2, <1>3, <1>4, RanksFill
<1>6. \A n \in 1..Cardinality(S) : \E i \in S : Cardinality({j \in S : j <= i}) = n
  BY <1>5
<1>7. \A n \in 1..Cardinality(S) : pick(n) \in S /\ Cardinality({j \in S : j <= pick(n)}) = n
  BY <1>6
<1>8. At(s, S) = [n \in 1..Cardinality(S) |-> s[pick(n)]]
  BY DEF At
<1>10. \A i \in S : Cardinality(D[i]) \in 1..Cardinality(S) /\ pick(Cardinality(D[i])) = i
  <2> TAKE i \in S
  <2> DEFINE n == Cardinality(D[i])  k == pick(n)
  <2>1. n \in 1..Cardinality(S)
    BY <1>5
  <2>2. k \in S /\ Cardinality({j \in S : j <= k}) = n
    <3> HIDE DEF n
    <3> QED
      BY <1>7, <2>1
  <2>3. D[k] = {j \in S : j <= k}
    <3> HIDE DEF k
    <3> QED
      BY <2>2
  <2>4. Cardinality(D[k]) = Cardinality(D[i])
    BY <2>2, <2>3
  <2>5. k = i
    <3> HIDE DEF k, D, n
    <3> QED
      BY <1>5, <2>2, <2>4
  <2> QED
    BY <2>1, <2>5
<1> HIDE DEF pick
<1>9. \A n \in 1..Cardinality(S) : s[pick(n)] \in X
  <2>1. \A i \in S : s[i] \in X
    OBVIOUS
  <2> QED
    BY <1>7, <2>1
<1>11. At(s, S) \in Seq(X) /\ Len(At(s, S)) = Cardinality(S)
  BY <1>2, <1>8, <1>9
<1>12. \A n \in 1..Cardinality(S) : \E i \in S : At(s, S)[n] = s[i]
  BY <1>7, <1>8
<1>13. \A i \in S : \E n \in 1..Cardinality(S) : At(s, S)[n] = s[i]
  <2> TAKE i \in S
  <2> DEFINE n == Cardinality(D[i])
  <2>1. n \in 1..Cardinality(S) /\ pick(n) = i
    BY <1>10
  <2> HIDE DEF n
  <2>2. At(s, S)[n] = s[i]
    BY <1>8, <2>1
  <2> QED
    BY <2>1, <2>2
<1> QED
  BY <1>2, <1>11, <1>12, <1>13

\* The places whose elements come before that of a place, the newest first.
AsNew(s, i) == {j \in 1..Len(s) : s[j].ts > s[i].ts \/ (s[j].ts = s[i].ts /\ j <= i)}

\* Sorting by time puts each element where its rank says.
LEMMA ByTimeRanks ==
  ASSUME NEW X, NEW s \in Seq(X), \A i \in 1..Len(s) : s[i].ts \in Int
  PROVE  /\ ByTime(s) \in Seq(X) /\ Len(ByTime(s)) = Len(s)
         /\ \A i \in 1..Len(s) : /\ IsFiniteSet(AsNew(s, i)) /\ i \in AsNew(s, i)
                                  /\ Cardinality(AsNew(s, i)) \in 1..Len(s)
                                  /\ ByTime(s)[Cardinality(AsNew(s, i))] = s[i]
         /\ \A n \in 1..Len(s) : \E i \in 1..Len(s) :
              Cardinality(AsNew(s, i)) = n /\ ByTime(s)[n] = s[i]
<1> DEFINE S == 1..Len(s)
           D == [i \in S |-> AsNew(s, i)]
           pick(n) == CHOOSE i \in S : Cardinality(AsNew(s, i)) = n
<1>1. Len(s) \in Nat
  OBVIOUS
<1>2. IsFiniteSet(S) /\ Cardinality(S) = Len(s)
  <2>1. IsFiniteSet(S) /\ Cardinality(S) = IF 1 > Len(s) THEN 0 ELSE Len(s) - 1 + 1
    BY <1>1, FS_Interval
  <2> QED
    BY <1>1, <2>1
<1>3. D \in [S -> SUBSET S] /\ \A i \in S : i \in D[i] /\ D[i] = AsNew(s, i)
  BY <1>1 DEF AsNew
<1>4. \A i, j \in S : i # j => (D[i] \subseteq D[j] /\ j \notin D[i])
                               \/ (D[j] \subseteq D[i] /\ i \notin D[j])
  <2> TAKE i, j \in S
  <2> HAVE i # j
  <2>1. CASE s[i].ts > s[j].ts \/ (s[i].ts = s[j].ts /\ i < j)
    BY <1>1, <2>1 DEF AsNew
  <2>2. CASE s[j].ts > s[i].ts \/ (s[i].ts = s[j].ts /\ j < i)
    BY <1>1, <2>2 DEF AsNew
  <2> QED
    BY <1>1, <2>1, <2>2
<1>5. /\ \A n \in S : \E i \in S : Cardinality(D[i]) = n
      /\ \A i \in S : IsFiniteSet(D[i]) /\ Cardinality(D[i]) \in S
      /\ \A i, j \in S : Cardinality(D[i]) = Cardinality(D[j]) => i = j
  <2> HIDE DEF D
  <2>1. /\ \A n \in 1..Cardinality(S) : \E i \in S : Cardinality(D[i]) = n
        /\ \A i \in S : IsFiniteSet(D[i]) /\ Cardinality(D[i]) \in 1..Cardinality(S)
        /\ \A i, j \in S : Cardinality(D[i]) = Cardinality(D[j]) => i = j
    <3> HIDE DEF S
    <3> QED
      BY <1>2, <1>3, <1>4, RanksFill
  <2> QED
    BY <1>2, <2>1
<1> HIDE DEF D
<1>6. \A i \in S : /\ IsFiniteSet(AsNew(s, i)) /\ i \in AsNew(s, i)
                   /\ Cardinality(AsNew(s, i)) \in S
  BY <1>3, <1>5
<1>7. ByTime(s) = [n \in S |-> s[pick(n)]]
  BY DEF ByTime, AsNew
<1>8. \A n \in S : pick(n) \in S /\ Cardinality(AsNew(s, pick(n))) = n
  <2> TAKE n \in S
  <2>1. \E i \in S : Cardinality(AsNew(s, i)) = n
    BY <1>3, <1>5
  <2> QED
    BY <2>1
<1> HIDE DEF pick
<1>9. \A n \in S : s[pick(n)] \in X
  BY <1>8
<1>10. ByTime(s) \in Seq(X) /\ Len(ByTime(s)) = Len(s) /\ \A n \in S : ByTime(s)[n] = s[pick(n)]
  BY <1>1, <1>7, <1>9
<1>11. ASSUME NEW i \in S PROVE ByTime(s)[Cardinality(AsNew(s, i))] = s[i]
  <2> DEFINE n == Cardinality(AsNew(s, i))
  <2>1. n \in S
    BY <1>6
  <2> HIDE DEF n
  <2>2. pick(n) \in S /\ Cardinality(AsNew(s, pick(n))) = n
    BY <1>8, <2>1
  <2>3. Cardinality(D[pick(n)]) = Cardinality(D[i])
    BY <1>3, <2>2 DEF n
  <2>4. pick(n) = i
    BY <1>5, <2>2, <2>3
  <2>5. ByTime(s)[n] = s[i]
    BY <1>10, <2>1, <2>4
  <2> QED
    BY <2>5 DEF n
<1>12. \A n \in S : \E i \in S : Cardinality(AsNew(s, i)) = n /\ ByTime(s)[n] = s[i]
  BY <1>8, <1>10
<1> QED
  BY <1>6, <1>10, <1>11, <1>12

\* What is read of a file are the records before its first torn line.
LEMMA ReadablesAreRecords ==
  ASSUME NEW R, NEW file \in Seq(R \cup {Torn})
  PROVE  ReadableLines(file) \in Seq(R)
<1> DEFINE bad == {i \in 1..Len(file) : file[i] = Torn}
<1>1. Len(file) \in Nat /\ \A i \in 1..Len(file) : file[i] \in R \cup {Torn}
  OBVIOUS
<1>2. CASE bad = {}
  <2>1. \A i \in 1..Len(file) : file[i] \in R
    BY <1>1, <1>2
  <2>2. file \in Seq(R)
    BY <1>1, <2>1
  <2> QED
    BY <1>2, <2>2 DEF ReadableLines
<1>3. CASE bad # {}
  <2> DEFINE first == CHOOSE i \in bad : \A j \in bad : i <= j
  <2>1. bad \in SUBSET Nat
    BY <1>1
  <2>2. \E i \in bad : \A j \in bad : i <= j
    <3> HIDE DEF bad
    <3> QED
      BY <1>3, <2>1, LeastNumber
  <2>3. first \in bad /\ \A j \in bad : first <= j
    <3> HIDE DEF bad
    <3> QED
      BY <2>2
  <2>4. ReadableLines(file) = SubSeq(file, 1, first - 1)
    BY <1>3 DEF ReadableLines
  <2>5. first \in 1..Len(file)
    BY <2>3
  <2> HIDE DEF first
  <2>6. \A i \in 1..(first - 1) : i \in 1..Len(file) /\ file[i] # Torn
    BY <1>1, <2>3, <2>5
  <2>7. \A i \in 1..(first - 1) : file[i] \in R
    BY <1>1, <2>6
  <2>8. SubSeq(file, 1, first - 1) = [i \in 1..(first - 1) |-> file[i]]
    BY <1>1, <2>5, <2>6
  <2>9. [i \in 1..(first - 1) |-> file[i]] \in Seq(R)
    BY <1>1, <2>5, <2>7
  <2> QED
    BY <2>4, <2>8, <2>9
<1> QED
  BY <1>2, <1>3

\* The files read one behind the other.
Joined(seqs) ==
  CHOOSE f : f = [i \in 1..Len(seqs) |-> IF i = 1 THEN seqs[i] ELSE f[i - 1] \o seqs[i]]

Joins(f, seqs, X, n) ==
  /\ f \in [1..n -> Seq(X)]
  /\ f[1] = seqs[1]
  /\ \A i \in 2..n : f[i] = f[i - 1] \o seqs[i]

\* What several sequences join to has their elements.
LEMMA FlattenKeeps ==
  ASSUME NEW X, NEW seqs \in Seq(Seq(X))
  PROVE  FlattenSeq(seqs) \in Seq(X)
<1> DEFINE L == Len(seqs)
<1>1. L \in Nat /\ \A i \in 1..L : seqs[i] \in Seq(X)
  OBVIOUS
<1>2. CASE L = 0
  <2>1. seqs = <<>> /\ <<>> \in Seq(X)
    BY <1>2
  <2> QED
    BY <1>2, <2>1 DEF FlattenSeq
<1>3. CASE L # 0
  <2> DEFINE P == {n \in 1..L : \E f : Joins(f, seqs, X, n)}
  <2>1. 1 \in P
    <3>1. Joins([i \in 1..1 |-> seqs[1]], seqs, X, 1)
      BY <1>1, <1>3 DEF Joins
    <3> QED
      BY <1>1, <1>3, <3>1
  <2>2. ASSUME NEW n \in 1..L, n \in P, n < L
        PROVE  n + 1 \in P
    <3>1. PICK f : Joins(f, seqs, X, n)
      BY <2>2
    <3> DEFINE g == [i \in 1..(n + 1) |-> IF i = n + 1 THEN f[n] \o seqs[n + 1] ELSE f[i]]
    <3>2. n \in Nat /\ n + 1 \in 1..L /\ f[n] \in Seq(X) /\ seqs[n + 1] \in Seq(X)
      BY <1>1, <2>2, <3>1 DEF Joins
    <3>3. f[n] \o seqs[n + 1] \in Seq(X)
      BY <3>2
    <3>4. g \in [1..(n + 1) -> Seq(X)] /\ g[1] = seqs[1]
      BY <2>2, <3>1, <3>2, <3>3 DEF Joins
    <3>5. ASSUME NEW i \in 2..(n + 1) PROVE g[i] = g[i - 1] \o seqs[i]
      <4>0. i \in 1..(n + 1) /\ i - 1 \in 1..(n + 1) /\ i - 1 # n + 1
        BY <3>2
      <4>1. CASE i = n + 1
        <5>1. g[i] = f[n] \o seqs[n + 1]
          BY <4>0, <4>1
        <5>2. g[i - 1] = f[i - 1]
          BY <4>0
        <5>3. i - 1 = n
          BY <3>2, <4>1
        <5> QED
          BY <4>1, <5>1, <5>2, <5>3
      <4>2. CASE i # n + 1
        <5>1. g[i] = f[i] /\ g[i - 1] = f[i - 1] /\ i \in 2..n
          BY <3>2, <4>0, <4>2
        <5>2. f[i] = f[i - 1] \o seqs[i]
          BY <3>1, <5>1 DEF Joins
        <5> QED
          BY <5>1, <5>2
      <4> QED
        BY <4>1, <4>2
    <3>6. Joins(g, seqs, X, n + 1)
      BY <3>4, <3>5 DEF Joins
    <3> QED
      BY <3>2, <3>6
  <2> HIDE DEF P
  <2>3. \A n \in 1..L : n \in P
    BY <1>1, <2>1, <2>2, Induction
  <2>4. L \in 1..L
    BY <1>1, <1>3
  <2>5. PICK f : Joins(f, seqs, X, L)
    BY <2>3, <2>4 DEF P
  <2>6. f = [i \in 1..L |-> IF i = 1 THEN seqs[i] ELSE f[i - 1] \o seqs[i]]
    <3>1. ASSUME NEW i \in 1..L PROVE f[i] = IF i = 1 THEN seqs[i] ELSE f[i - 1] \o seqs[i]
      <4>1. i # 1 => i \in 2..L
        BY <1>1
      <4>2. f[1] = seqs[1] /\ (i \in 2..L => f[i] = f[i - 1] \o seqs[i])
        BY <2>5 DEF Joins
      <4> QED
        BY <4>1, <4>2
    <3> QED
      BY <2>5, <3>1 DEF Joins
  <2> DEFINE j == Joined(seqs)
  <2>7. j = [i \in 1..L |-> IF i = 1 THEN seqs[i] ELSE j[i - 1] \o seqs[i]]
    BY <2>6 DEF Joined
  <2> HIDE DEF j
  <2> DEFINE Q == {n \in 1..L : j[n] \in Seq(X)}
  <2>8. 1 \in Q
    BY <1>1, <2>4, <2>7
  <2>9. ASSUME NEW n \in 1..L, n \in Q, n < L
        PROVE  n + 1 \in Q
    <3>1. n + 1 \in 1..L /\ n + 1 # 1 /\ (n + 1) - 1 = n
      BY <1>1, <2>9
    <3>2. j[n + 1] = j[n] \o seqs[n + 1]
      BY <2>7, <3>1
    <3>3. j[n] \in Seq(X) /\ seqs[n + 1] \in Seq(X)
      BY <1>1, <2>9, <3>1
    <3>4. j[n] \o seqs[n + 1] \in Seq(X)
      BY <3>3
    <3> QED
      BY <3>1, <3>2, <3>4
  <2> HIDE DEF Q
  <2>10. \A n \in 1..L : n \in Q
    BY <1>1, <2>8, <2>9, Induction
  <2>11. j[L] \in Seq(X)
    BY <2>4, <2>10 DEF Q
  <2>12. FlattenSeq(seqs) = j[L]
    BY <1>3 DEF FlattenSeq, Joined, j
  <2> QED
    BY <2>11, <2>12
<1> QED
  BY <1>2, <1>3

\* load_recent_jsonl returns records of the files.
LEMMA LoadedAreRecords ==
  ASSUME NEW R, NEW files \in Seq(Seq(R \cup {Torn}))
  PROVE  LoadRecentJsonl(files) \in Seq(R)
<1> DEFINE from == Greatest(1, Len(files) - MaxFiles + 1)
           recent == SubSeq(files, from, Len(files))
           read == [i \in 1..Len(recent) |-> ReadableLines(recent[i])]
<1>1. Len(files) \in Nat /\ from \in Nat \ {0}
  BY ConsoleAssumption DEF ConsoleAssumption, Greatest
<1>2. recent \in Seq(Seq(R \cup {Torn}))
  <2> HIDE DEF from
  <2> QED
    BY <1>1
<1> HIDE DEF recent
<1>3. Len(recent) \in Nat /\ \A i \in 1..Len(recent) : ReadableLines(recent[i]) \in Seq(R)
  <2>1. Len(recent) \in Nat /\ \A i \in 1..Len(recent) : recent[i] \in Seq(R \cup {Torn})
    BY <1>2
  <2>2. ASSUME NEW i \in 1..Len(recent) PROVE ReadableLines(recent[i]) \in Seq(R)
    <3>1. recent[i] \in Seq(R \cup {Torn})
      BY <2>1
    <3> QED
      BY <3>1, ReadablesAreRecords
  <2> QED
    BY <2>1, <2>2
<1>4. read \in Seq(Seq(R))
  BY <1>3
<1>5. LoadRecentJsonl(files) = FlattenSeq(read)
  BY DEF LoadRecentJsonl, recent
<1> HIDE DEF read
<1> QED
  BY <1>4, <1>5, FlattenKeeps

-----------------------------------------------------------------------------
(* The approval boundary. *)

\* What the three stages of a suggestion promise together.
StagesOk(set, verdict, plan) ==
  /\ Len(set.items) \in Nat \ {0} /\ set.primary = set.items[1].id
  /\ verdict.approval = TRUE
  /\ verdict.issues # <<>> => verdict.disposition = "return_to_evidence_gather"
  /\ plan.hypothesis = set.primary
  /\ plan.approval = TRUE /\ plan.mode = "human_gated" /\ plan.write = FALSE
  /\ (plan.status = "needs_evidence") <=> (verdict.disposition = "return_to_evidence_gather")

\* build_hypothesis_set ranks at least one hypothesis, the first as primary.
LEMMA HypothesesRanked ==
  ASSUME NEW id, NEW scope, NEW pack, NEW answer, answer.hypotheses \in Seq(STRING)
  PROVE  LET set == BuildHypothesisSet(id, scope, pack, answer) IN
         /\ Len(set.items) \in Nat \ {0} /\ set.primary = set.items[1].id
         /\ PrimaryHypothesis(set).id = set.primary
<1> DEFINE statements == IF answer.hypotheses = <<>> THEN <<answer.summary>> ELSE answer.hypotheses
           set == BuildHypothesisSet(id, scope, pack, answer)
           Hypothesis(i) ==
             [id |-> <<id, scope, i>>, rank |-> i, statement |-> statements[i],
              score |-> Greatest(35, answer.confidence - 8 * (i - 1)),
              support |-> FirstOf(pack.direct, 3) \o FirstOf(pack.supporting, 4),
              against |-> FirstOf(pack.contradictory, 3), missing |-> FirstOf(pack.missing, 3),
              next |-> ActionForRank(answer.actions, i),
              state |-> IF i = 1 THEN "pending_review" ELSE "candidate"]
<1>1. Len(statements) \in Nat \ {0}
  <2>1. CASE answer.hypotheses = <<>>
    BY <2>1
  <2>2. CASE answer.hypotheses # <<>>
    <3>1. Len(answer.hypotheses) \in Nat /\ Len(answer.hypotheses) # 0
      BY <2>2
    <3> QED
      BY <2>2, <3>1
  <2> QED
    BY <2>1, <2>2
<1>2. /\ set.items = [i \in 1..Len(statements) |-> Hypothesis(i)]
      /\ set.primary = set.items[1].id
  BY DEF BuildHypothesisSet
<1> HIDE DEF Hypothesis, statements, set
<1>3. Len(set.items) = Len(statements)
  BY <1>1, <1>2
<1>4. PrimaryHypothesis(set).id = set.primary
  <2> DEFINE named == {i \in 1..Len(set.items) : set.items[i].id = set.primary}
             first == CHOOSE i \in named : \A j \in named : i <= j
  <2>1. named \in SUBSET Nat /\ 1 \in named
    BY <1>1, <1>2, <1>3
  <2>2. \A i \in named : set.items[i].id = set.primary
    OBVIOUS
  <2>3. PrimaryHypothesis(set) = set.items[first]
    BY <2>1 DEF PrimaryHypothesis
  <2> HIDE DEF named
  <2>4. first \in named
    BY <2>1, LeastNumber
  <2> QED
    BY <2>2, <2>3, <2>4
<1> QED
  BY <1>1, <1>2, <1>3, <1>4 DEF set

\* The agent and the migration build the three stages alike.
LEMMA StagesBuilt ==
  ASSUME NEW id, NEW scope, NEW b, NEW answer, answer.hypotheses \in Seq(STRING)
  PROVE  LET pack == EvidencePack(b)
             set == BuildHypothesisSet(id, scope, pack, answer)
             verdict == BuildReviewVerdict(scope, b, pack) IN
         StagesOk(set, verdict, BuildRunbookDraft(scope, b, pack, set, verdict, answer.actions))
<1> DEFINE pack == EvidencePack(b)
           set == BuildHypothesisSet(id, scope, pack, answer)
           verdict == BuildReviewVerdict(scope, b, pack)
           plan == BuildRunbookDraft(scope, b, pack, set, verdict, answer.actions)
<1>1. /\ Len(set.items) \in Nat \ {0} /\ set.primary = set.items[1].id
      /\ PrimaryHypothesis(set).id = set.primary
  BY HypothesesRanked
<1>2. /\ verdict.approval = TRUE
      /\ verdict.issues # <<>> => verdict.disposition = "return_to_evidence_gather"
  <2> DEFINE issues == BlockingIssues(b, pack)
  <2> HIDE DEF issues, pack
  <2> QED
    BY DEF BuildReviewVerdict, RunbookOutline, issues
<1> HIDE DEF set, verdict, pack
<1>3. /\ plan.hypothesis = PrimaryHypothesis(set).id
      /\ plan.approval = TRUE /\ plan.mode = "human_gated" /\ plan.write = FALSE
      /\ plan.status = IF verdict.disposition = "return_to_evidence_gather"
                       THEN "needs_evidence" ELSE "draft_ready"
  BY DEF BuildRunbookDraft, RunbookOutline
<1> HIDE DEF plan
<1>4. StagesOk(set, verdict, plan)
  BY <1>1, <1>2, <1>3 DEF StagesOk
<1> QED
  BY <1>4 DEF set, verdict, pack, plan

\* A suggestion with stages has all three, and they agree.
LEMMA StagedOk ==
  ASSUME NEW s \in Staged
  PROVE  StagesOk(s.set, s.verdict, s.plan) /\ None \notin {s.set, s.verdict, s.plan}
<1>1. None \notin {s.set, s.verdict, s.plan}
  BY PartsAssumption DEF PartsAssumption
<1>2. \A a \in Answers : a.hypotheses \in Seq(STRING)
  BY PartsAssumption DEF PartsAssumption
<1>3. CASE s \in Written
  <2>1. PICK h \in Heads, b \in Bundles, a \in Answers : s = Suggestion(h, b, a)
    BY <1>3 DEF Written
  <2> DEFINE pack == EvidencePack(b)
             set == BuildHypothesisSet(h.id, h.scope, pack, a)
             verdict == BuildReviewVerdict(h.scope, b, pack)
             plan == BuildRunbookDraft(h.scope, b, pack, set, verdict, a.actions)
  <2>2. s.set = set /\ s.verdict = verdict /\ s.plan = plan
    BY <2>1 DEF Suggestion
  <2>3. StagesOk(set, verdict, plan)
    BY <1>2, StagesBuilt
  <2> QED
    BY <1>1, <2>2, <2>3
<1>4. CASE s \in {Upgrade(l) : l \in Legacy}
  <2>1. PICK l \in Legacy : s = Upgrade(l)
    BY <1>4
  <2>2. PICK h \in Heads, c \in Contexts, bundle \in Bundles, a \in Answers :
          l = LegacySuggestion(h, c, bundle, a)
    BY DEF Legacy
  <2>3. /\ {"set", "verdict", "plan", "bundle", "staged"} \subseteq DOMAIN l
        /\ l.staged = FALSE /\ l.answer = a
    BY <2>2 DEF LegacySuggestion
  <2> DEFINE b == UpgradeBundle(l.bundle, l.context)
             pack == EvidencePack(b)
             set == BuildHypothesisSet(l.id, l.scope, pack, l.answer)
             verdict == BuildReviewVerdict(l.scope, b, pack)
             plan == BuildRunbookDraft(l.scope, b, pack, set, verdict, l.answer.actions)
  <2>4. s = [l EXCEPT !.bundle = b, !.set = set, !.verdict = verdict, !.staged = TRUE,
                      !.plan = plan]
    BY <2>1, <2>3 DEF Upgrade
  <2>5. StagesOk(set, verdict, plan)
    BY <1>2, <2>3, StagesBuilt
  <2> HIDE DEF b, set, verdict, plan
  <2>6. s.set = set /\ s.verdict = verdict /\ s.plan = plan
    BY <2>3, <2>4
  <2> QED
    BY <1>1, <2>5, <2>6
<1> QED
  BY <1>3, <1>4 DEF Staged

\* What the gateway shows of the stages is what they promise.
ShownOk(r) ==
  /\ {"set", "verdict", "plan"} \subseteq DOMAIN r
  /\ {"approval", "issues", "disposition"} \subseteq DOMAIN r.verdict
  /\ r.verdict.approval = TRUE
  /\ r.verdict.issues # <<>> => r.verdict.disposition = "return_to_evidence_gather"
  /\ {"approval", "write", "actions", "boundaries", "mode", "status", "hypothesis"}
       \subseteq DOMAIN r.plan
  /\ r.plan.approval = TRUE /\ r.plan.write = FALSE /\ r.plan.mode = "human_gated"
  /\ (r.plan.status = "needs_evidence")
       <=> (r.verdict.disposition = "return_to_evidence_gather")
  /\ r.set.items # <<>> => r.set.primary \in {i.id : i \in Items(r.set.items)}
  /\ r.plan.hypothesis \in {None, r.set.primary}

\* The primary hypothesis is one of those shown, with a set or without.
LEMMA PrimaryIsShown ==
  ASSUME NEW s,
         \/ s.set = None /\ s.answer.hypotheses \in Seq(STRING)
         \/ s.set # None /\ Len(s.set.items) \in Nat \ {0} /\ s.set.primary = s.set.items[1].id
  PROVE  LET set == NormalizeHypothesisSet(s) IN
         /\ set.items # <<>> => set.primary \in {i.id : i \in Items(set.items)}
         /\ s.set # None => set.primary = s.set.primary
<1> DEFINE set == NormalizeHypothesisSet(s)
<1>0. \A q, x : x \in {i.id : i \in Items(q)} <=> \E i \in 1..Len(q) : x = q[i].id
  BY DEF Items
<1>1. CASE s.set = None /\ s.answer.hypotheses \in Seq(STRING)
  <2> DEFINE list == FirstOf(s.answer.hypotheses, 3)
             One(i) == [id |-> <<"fallback", i>>,
                        score |-> Greatest(35, s.answer.confidence - 8 * (i - 1)),
                        next |-> ActionForRank(s.answer.actions, i)]
  <2>1. set = [primary |-> IF list = <<>> THEN None ELSE <<"fallback", 1>>, scope |-> s.scope,
               items |-> [i \in 1..Len(list) |-> One(i)]]
    BY <1>1 DEF NormalizeHypothesisSet
  <2>2. list \in Seq(STRING)
    BY <1>1 DEF FirstOf, Least
  <2>3. \A i : One(i).id = <<"fallback", i>>
    OBVIOUS
  <2> HIDE DEF list, One
  <2>4. CASE list = <<>>
    <3>1. set.items = <<>>
      BY <2>1, <2>4
    <3> QED
      BY <1>1, <3>1
  <2>5. CASE list # <<>>
    <3>1. Len(list) \in Nat /\ 1 \in 1..Len(list)
      BY <2>2, <2>5
    <3>2. /\ set.items = [i \in 1..Len(list) |-> One(i)] /\ set.primary = <<"fallback", 1>>
      BY <2>1, <2>5
    <3> HIDE DEF set
    <3>3. Len(set.items) = Len(list) /\ set.items[1].id = set.primary
      BY <2>3, <3>1, <3>2
    <3>4. set.primary \in {i.id : i \in Items(set.items)}
      BY <1>0, <3>1, <3>3
    <3> QED
      BY <1>1, <3>4 DEF set
  <2> QED
    BY <2>4, <2>5
<1>2. CASE /\ s.set # None /\ Len(s.set.items) \in Nat \ {0}
           /\ s.set.primary = s.set.items[1].id
  <2> DEFINE list == s.set.items
             One(i) == [id |-> list[i].id, score |-> list[i].score, next |-> list[i].next]
  <2>1. list # <<>> /\ Len(list) \in Nat /\ 1 \in 1..Len(list)
    BY <1>2
  <2>2. set = [primary |-> s.set.primary, scope |-> s.set.scope,
               items |-> [i \in 1..Len(list) |-> One(i)]]
    BY <1>2, <2>1 DEF NormalizeHypothesisSet
  <2>3. One(1).id = s.set.primary
    BY <1>2
  <2> HIDE DEF list, One
  <2>4. set.items = [i \in 1..Len(list) |-> One(i)] /\ set.primary = s.set.primary
    BY <2>2
  <2> HIDE DEF set
  <2>5. Len(set.items) = Len(list) /\ set.items[1].id = set.primary
    BY <2>1, <2>3, <2>4
  <2>6. set.primary \in {i.id : i \in Items(set.items)}
    BY <1>0, <2>1, <2>5
  <2> QED
    BY <2>4, <2>6 DEF set
<1> QED
  BY <1>1, <1>2

\* Every record of the files is shown behind the boundary.
LEMMA RecordsShown ==
  ASSUME NEW s \in Records, NEW alerts
  PROVE  ShownOk(SuggestionRecord(s, alerts))
<1> DEFINE r == SuggestionRecord(s, alerts)
<1>1. /\ {"set", "verdict", "plan"} \subseteq DOMAIN r
      /\ r.set = NormalizeHypothesisSet(s) /\ r.verdict = NormalizeReviewVerdict(s)
      /\ r.plan = NormalizeRunbookDraft(s)
  BY DEF SuggestionRecord
<1> HIDE DEF r
<1>2. CASE s \in Staged
  <2>1. StagesOk(s.set, s.verdict, s.plan) /\ None \notin {s.set, s.verdict, s.plan}
    BY <1>2, StagedOk
  <2>2. /\ r.set.items # <<>> => r.set.primary \in {i.id : i \in Items(r.set.items)}
        /\ r.set.primary = s.set.primary
    BY <1>1, <2>1, PrimaryIsShown DEF StagesOk
  <2>3. /\ {"approval", "issues", "disposition"} \subseteq DOMAIN r.verdict
        /\ r.verdict.approval = TRUE
        /\ r.verdict.issues = s.verdict.issues
        /\ r.verdict.disposition = s.verdict.disposition
    <3>1. (s.verdict.approval # FALSE) = TRUE
      BY <2>1 DEF StagesOk
    <3>2. r.verdict = [status |-> s.verdict.status, disposition |-> s.verdict.disposition,
                       approval |-> s.verdict.approval # FALSE, issues |-> s.verdict.issues,
                       checks |-> s.verdict.checks]
      BY <1>1, <2>1 DEF NormalizeReviewVerdict
    <3>3. r.verdict = [status |-> s.verdict.status, disposition |-> s.verdict.disposition,
                       approval |-> TRUE, issues |-> s.verdict.issues,
                       checks |-> s.verdict.checks]
      BY <3>1, <3>2
    <3> QED
      BY <3>3
  <2>4. /\ {"approval", "write", "actions", "boundaries", "mode", "status", "hypothesis"}
             \subseteq DOMAIN r.plan
        /\ r.plan.approval = TRUE /\ r.plan.write = FALSE /\ r.plan.mode = "human_gated"
        /\ r.plan.status = s.plan.status /\ r.plan.hypothesis = s.plan.hypothesis
    <3>1. (s.plan.approval = TRUE) = TRUE /\ (s.plan.write = TRUE) = FALSE
          /\ s.plan.mode = "human_gated"
      BY <2>1 DEF StagesOk
    <3>2. r.plan = [status |-> s.plan.status, hypothesis |-> s.plan.hypothesis,
                    actions |-> s.plan.actions, boundaries |-> s.plan.boundaries,
                    approval |-> s.plan.approval = TRUE, mode |-> s.plan.mode,
                    write |-> s.plan.write = TRUE]
      BY <1>1, <2>1 DEF NormalizeRunbookDraft
    <3>3. r.plan = [status |-> s.plan.status, hypothesis |-> s.plan.hypothesis,
                    actions |-> s.plan.actions, boundaries |-> s.plan.boundaries,
                    approval |-> TRUE, mode |-> "human_gated", write |-> FALSE]
      BY <3>1, <3>2
    <3> QED
      BY <3>3
  <2> QED
    BY <1>1, <2>1, <2>2, <2>3, <2>4 DEF ShownOk, StagesOk, r
<1>3. CASE s \in Legacy
  <2>1. PICK h \in Heads, c \in Contexts, b \in Bundles, a \in Answers :
          s = LegacySuggestion(h, c, b, a)
    BY <1>3 DEF Legacy
  <2>2. s.set = None /\ s.verdict = None /\ s.plan = None /\ s.answer = a
    BY <2>1 DEF LegacySuggestion
  <2>3. s.answer.hypotheses \in Seq(STRING)
    BY <2>2, PartsAssumption DEF PartsAssumption
  <2>4. r.set.items # <<>> => r.set.primary \in {i.id : i \in Items(r.set.items)}
    BY <1>1, <2>2, <2>3, PrimaryIsShown
  <2>5. /\ {"approval", "issues", "disposition"} \subseteq DOMAIN r.verdict
        /\ r.verdict.approval = TRUE
        /\ r.verdict.issues = <<>>
        /\ r.verdict.disposition = "project_with_operator_boundary"
    BY <1>1, <2>2 DEF NormalizeReviewVerdict
  <2>6. /\ {"approval", "write", "actions", "boundaries", "mode", "status", "hypothesis"}
             \subseteq DOMAIN r.plan
        /\ r.plan.approval = TRUE /\ r.plan.write = FALSE /\ r.plan.mode = "human_gated"
        /\ r.plan.status = "draft_ready" /\ r.plan.hypothesis = None
    <3>1. PICK limits : limits = <<"guidance only">>
      OBVIOUS
    <3>2. r.plan = [status |-> "draft_ready", hypothesis |-> None, actions |-> s.answer.actions,
                    boundaries |-> limits, approval |-> TRUE,
                    mode |-> "human_gated", write |-> FALSE]
      BY <1>1, <2>2, <3>1 DEF NormalizeRunbookDraft, FallbackDraft
    <3> QED
      BY <3>2
  <2> QED
    BY <1>1, <2>4, <2>5, <2>6 DEF ShownOk, r
<1> QED
  BY <1>2, <1>3 DEF Records

\* The hook keeps the boundary.
LEMMA HookGuards ==
  ASSUME NEW r, ShownOk(r)
  PROVE  Guarded(HookRecord(r))
<1> DEFINE verdict == [r.verdict EXCEPT !.approval = (@ = TRUE)]
           plan == [r.plan EXCEPT
                      !.approval = (@ = TRUE), !.write = (@ = TRUE),
                      !.actions = IF @ # <<>> THEN @ ELSE r.actions,
                      !.boundaries = IF @ # <<>> THEN @ ELSE <<"guidance only">>]
           h == HookRecord(r)
<1>1. h.set = r.set /\ h.verdict = verdict /\ h.plan = plan
  <2>1. h = [r EXCEPT !.verdict = verdict, !.plan = plan]
    BY DEF HookRecord
  <2> HIDE DEF verdict, plan, h
  <2> QED
    BY <2>1 DEF ShownOk
<1>2. /\ verdict.approval = TRUE /\ verdict.issues = r.verdict.issues
      /\ verdict.disposition = r.verdict.disposition
  BY DEF ShownOk
<1>3. /\ plan.approval = TRUE /\ plan.write = FALSE /\ plan.mode = r.plan.mode
      /\ plan.status = r.plan.status /\ plan.hypothesis = r.plan.hypothesis
  BY DEF ShownOk
<1> HIDE DEF verdict, plan, h
<1> QED
  BY <1>1, <1>2, <1>3 DEF Guarded, ShownOk, h

RowsOk(rows) == Len(rows) \in Nat /\ \A i \in 1..Len(rows) : ShownOk(rows[i])
ShotOk(s) == "suggestions" \in DOMAIN s /\ RowsOk(s.suggestions)

\* Every record of the files has a time, known or not.
LEMMA RecordsAreTimed ==
  ASSUME NEW s \in Records
  PROVE  s.ts \in Nat \cup {Unparsed}
<1>0. \A h \in Heads : h.ts \in Nat \cup {Unparsed}
  BY FeedAssumption DEF FeedAssumption
<1>1. CASE s \in Written
  BY <1>0, <1>1 DEF Written, Suggestion
<1>2. ASSUME NEW l \in Legacy
      PROVE  l.ts \in Nat \cup {Unparsed} /\ Upgrade(l).ts = l.ts
  <2>1. PICK h \in Heads, c \in Contexts, b \in Bundles, a \in Answers :
          l = LegacySuggestion(h, c, b, a)
    BY DEF Legacy
  <2>2. /\ {"ts", "staged", "bundle", "set", "verdict", "plan"} \subseteq DOMAIN l
        /\ l.staged = FALSE /\ l.ts = h.ts
    BY <2>1 DEF LegacySuggestion
  <2>3. Upgrade(l).ts = l.ts
    BY <2>2 DEF Upgrade
  <2> QED
    BY <1>0, <2>2, <2>3
<1>3. CASE s \in Legacy
  BY <1>2, <1>3
<1>4. CASE s \in {Upgrade(l) : l \in Legacy}
  BY <1>2, <1>4
<1> QED
  BY <1>1, <1>3, <1>4 DEF Records, Staged

\* The rows shown for any records of the files.
LEMMA RowsShown ==
  ASSUME NEW suggestions \in Seq(Records), NEW alerts, NEW limit \in Nat
  PROVE  RowsOk(SuggestionRecords(suggestions, alerts, limit))
<1> DEFINE newest == FirstOf(ByTime(suggestions), limit)
<1>1. \A i \in 1..Len(suggestions) : suggestions[i].ts \in Int
  BY RecordsAreTimed DEF Unparsed
<1>2. ByTime(suggestions) \in Seq(Records)
  BY <1>1, ByTimeRanks
<1>3. newest \in Seq(Records)
  <2> DEFINE sorted == ByTime(suggestions)
  <2>1. sorted \in Seq(Records) /\ Len(sorted) \in Nat
    BY <1>2
  <2> HIDE DEF sorted
  <2>2. FirstOf(sorted, limit) \in Seq(Records)
    BY <2>1 DEF FirstOf, Least
  <2> QED
    BY <2>2 DEF sorted
<1>4. SuggestionRecords(suggestions, alerts, limit)
        = [i \in 1..Len(newest) |-> SuggestionRecord(newest[i], alerts)]
  BY DEF SuggestionRecords
<1> HIDE DEF newest
<1>5. Len(newest) \in Nat /\ \A i \in 1..Len(newest) : newest[i] \in Records
  BY <1>3
<1>6. \A i \in 1..Len(newest) : ShownOk(SuggestionRecord(newest[i], alerts))
  BY <1>5, RecordsShown
<1> QED
  BY <1>4, <1>5, <1>6 DEF RowsOk

\* A snapshot shows every suggestion behind the boundary.
LEMMA SnapshotsOk ==
  ASSUME NEW suggestions \in Seq(Records), NEW alerts, NEW rep, NEW clock
  PROVE  ShotOk(LoadSnapshot(alerts, suggestions, rep, clock))
<1> DEFINE day == ReferenceDay(alerts, suggestions, rep, clock)
           newestOne == LatestByTs(suggestions)
           ofDay == FilterByDate(suggestions, day)
           today == SuggestionRecords(ofDay, alerts, RecordLimit)
           records == IF today = <<>> /\ newestOne # None
                      THEN SuggestionRecords(<<newestOne>>, alerts, 1) ELSE today
           shot == LoadSnapshot(alerts, suggestions, rep, clock)
<1>1. "suggestions" \in DOMAIN shot /\ shot.suggestions = records
  BY DEF LoadSnapshot
<1>2. ofDay \in Seq(Records)
  <2> DEFINE there == {i \in 1..Len(suggestions) :
                         suggestions[i].ts # Unparsed /\ DayOf(suggestions[i].ts) = day}
  <2>1. there \in SUBSET (1..Len(suggestions)) /\ ofDay = At(suggestions, there)
    BY DEF FilterByDate, Picked
  <2> HIDE DEF there, ofDay
  <2> QED
    BY <2>1, AtPicks
<1>3. RowsOk(today)
  <2> HIDE DEF ofDay
  <2> QED
    BY <1>2, RowsShown, ConsoleAssumption DEF ConsoleAssumption
<1>4. ASSUME newestOne # None PROVE newestOne \in Records
  <2>1. suggestions # <<>> /\ newestOne = ByTime(suggestions)[1]
    BY <1>4 DEF LatestByTs
  <2>2. 1 \in 1..Len(suggestions)
    BY <2>1
  <2>3. ByTime(suggestions) \in Seq(Records) /\ Len(ByTime(suggestions)) = Len(suggestions)
    BY RecordsAreTimed, ByTimeRanks DEF Unparsed
  <2> QED
    BY <2>1, <2>2, <2>3
<1>5. ASSUME newestOne # None PROVE RowsOk(SuggestionRecords(<<newestOne>>, alerts, 1))
  <2> HIDE DEF newestOne
  <2>0. newestOne \in Records
    BY <1>4, <1>5
  <2>1. PICK one \in Seq(Records) : one = <<newestOne>>
    <3>1. <<newestOne>> \in Seq(Records)
      BY <2>0
    <3> QED
      BY <3>1
  <2>2. RowsOk(SuggestionRecords(one, alerts, 1))
    BY RowsShown
  <2> QED
    BY <2>1, <2>2
<1> HIDE DEF today, newestOne, shot
<1>6. RowsOk(records)
  BY <1>3, <1>5
<1> QED
  BY <1>1, <1>6 DEF ShotOk, shot

\* The hook shows a snapshot behind the boundary.
LEMMA HookShows ==
  ASSUME NEW s, ShotOk(s)
  PROVE  \A r \in Items(NormalizeSnapshot(s).suggestions) : Guarded(r)
<1> DEFINE rows == s.suggestions
           new == [i \in 1..Len(rows) |-> HookRecord(rows[i])]
<1>1. NormalizeSnapshot(s).suggestions = new
  <2>1. NormalizeSnapshot(s) = [s EXCEPT !.suggestions = new]
    BY DEF NormalizeSnapshot
  <2> HIDE DEF new
  <2> QED
    BY <2>1 DEF ShotOk
<1>2. Len(rows) \in Nat /\ \A i \in 1..Len(rows) : Guarded(HookRecord(rows[i]))
  BY HookGuards DEF ShotOk, RowsOk
<1> HIDE DEF rows
<1>3. Len(new) = Len(rows) /\ \A i \in 1..Len(rows) : new[i] = HookRecord(rows[i])
  BY <1>2
<1> HIDE DEF new
<1> QED
  BY <1>1, <1>2, <1>3 DEF Items

\* What is on the wire: heartbeats, and snapshots behind the boundary.
EnvelopeOk(e) == e.type = "heartbeat" \/ ShotOk(e.snapshot)
WireOk(w) == \E S : w \in Seq(S) /\ \A e \in S : EnvelopeOk(e)

\* Nothing, one envelope more, and one less.
LEMMA WireSteps ==
  /\ WireOk(<<>>) /\ WireOk(<<Heartbeat>>)
  /\ \A w, e : WireOk(w) /\ EnvelopeOk(e) => WireOk(Append(w, e))
  /\ \A w : WireOk(w) /\ w # <<>> => WireOk(Tail(w)) /\ EnvelopeOk(Head(w))
<1>1. WireOk(<<>>)
  <2>1. PICK S : S = {}
    OBVIOUS
  <2>2. <<>> \in Seq(S) /\ \A x \in S : EnvelopeOk(x)
    BY <2>1
  <2> QED
    BY <2>2 DEF WireOk
<1>2. EnvelopeOk(Heartbeat)
  BY DEF EnvelopeOk, Heartbeat
<1>3. ASSUME NEW w, NEW e, WireOk(w), EnvelopeOk(e) PROVE WireOk(Append(w, e))
  <2>1. PICK S : w \in Seq(S) /\ \A x \in S : EnvelopeOk(x)
    BY <1>3 DEF WireOk
  <2> DEFINE T == S \cup {e}
  <2>2. \A x \in T : EnvelopeOk(x)
    BY <1>3, <2>1
  <2>3. Append(w, e) \in Seq(T)
    <3>1. w \in Seq(T) /\ e \in T
      BY <2>1
    <3> HIDE DEF T
    <3> QED
      BY <3>1
  <2> HIDE DEF T
  <2> QED
    BY <2>2, <2>3 DEF WireOk
<1>4. ASSUME NEW w, WireOk(w), w # <<>> PROVE WireOk(Tail(w)) /\ EnvelopeOk(Head(w))
  <2>1. PICK S : w \in Seq(S) /\ \A x \in S : EnvelopeOk(x)
    BY <1>4 DEF WireOk
  <2>2. Tail(w) \in Seq(S) /\ Head(w) \in S
    BY <1>4, <2>1
  <2> QED
    BY <2>1, <2>2 DEF WireOk
<1>5. WireOk(<<Heartbeat>>)
  <2>1. PICK S : S = {Heartbeat}
    OBVIOUS
  <2>2. <<Heartbeat>> \in Seq(S) /\ \A x \in S : EnvelopeOk(x)
    BY <1>2, <2>1
  <2> QED
    BY <2>2 DEF WireOk
<1> QED
  BY <1>1, <1>3, <1>4, <1>5

\* Every snapshot that is kept or under way.
BoundaryInv ==
  /\ cache # None => ShotOk(cache)
  /\ fetch = "answered" => ShotOk(response)
  /\ WireOk(wire)
  /\ GuardedRecords

\* The generator passes on what is behind the boundary.
LEMMA OfferKeeps ==
  ASSUME NEW payload, WireOk(wire), ShotOk(payload), Offer(payload)
  PROVE  WireOk(wire') /\ fetch' = fetch /\ response' = response
<1>1. fetch' = fetch /\ response' = response
  BY DEF Offer, fetchVars
<1>2. EnvelopeOk(Heartbeat)
  BY DEF EnvelopeOk, Heartbeat
<1>3. PICK type, delta :
        wire' \in {wire, Append(wire, Heartbeat),
                   Append(wire, [type |-> type, snapshot |-> payload, delta |-> delta])}
  BY DEF Offer
<1>4. EnvelopeOk([type |-> type, snapshot |-> payload, delta |-> delta])
  BY DEF EnvelopeOk
<1>5. WireOk(Append(wire, Heartbeat))
      /\ WireOk(Append(wire, [type |-> type, snapshot |-> payload, delta |-> delta]))
  <2> DEFINE e == [type |-> type, snapshot |-> payload, delta |-> delta]
  <2> HIDE DEF e
  <2>1. EnvelopeOk(e)
    BY <1>4 DEF e
  <2>2. WireOk(Append(wire, Heartbeat)) /\ WireOk(Append(wire, e))
    BY <1>2, <2>1, WireSteps
  <2> QED
    BY <2>2 DEF e
<1> QED
  BY <1>1, <1>3, <1>5

\* So does the answer to a request, whoever asked.
LEMMA HandKeeps ==
  ASSUME BoundaryInv, NEW r, NEW payload, ShotOk(payload), Hand(r, payload)
  PROVE  WireOk(wire') /\ (fetch' = "answered" => ShotOk(response'))
<1>1. CASE Answer(payload)
  BY <1>1 DEF Answer, streamVars, BoundaryInv
<1>2. CASE Offer(payload)
  BY <1>2, OfferKeeps DEF BoundaryInv
<1> QED
  BY <1>1, <1>2 DEF Hand

\* What the hook shows is behind the boundary, or what it was.
LEMMA ShowKeeps ==
  ASSUME GuardedRecords, NEW s, ShotOk(s), Show(s)
  PROVE  GuardedRecords'
<1>1. CASE shown' = shown
  BY <1>1 DEF GuardedRecords
<1>2. CASE shown' = NormalizeSnapshot(s)
  <2>1. \A r \in Items(NormalizeSnapshot(s).suggestions) : Guarded(r)
    BY HookShows
  <2> QED
    BY <1>2, <2>1 DEF GuardedRecords
<1> QED
  BY <1>1, <1>2 DEF Show

\* Each step of gateway, stream and hook keeps the boundary.
LEMMA BoundaryStep ==
  ASSUME MigrationInv, BoundaryInv, [Next]_vars
  PROVE  BoundaryInv'
<1>1. ASSUME shown' = shown PROVE GuardedRecords'
  BY <1>1 DEF BoundaryInv, GuardedRecords
<1>2. CASE UNCHANGED <<cacheVars, streamVars, fetchVars, viewVars>>
  BY <1>1, <1>2 DEF BoundaryInv, cacheVars, streamVars, fetchVars, viewVars
<1>3. CASE Writers
  BY <1>2, <1>3 DEF Writers, AppendAlert, AppendSuggestion, TearLine, Midnight, MigrationStarts,
     MigrateRead, MigrateTruncate, MigrateWrite, MigrationDies
<1>4. ASSUME NEW r, AnswerFromCache(r) PROVE BoundaryInv'
  <2>1. ShotOk(cache) /\ Hand(r, cache) /\ cache' = cache /\ shown' = shown
    BY <1>4 DEF AnswerFromCache, Fresh, BoundaryInv, cacheVars, viewVars
  <2> QED
    BY <1>1, <2>1, HandKeeps DEF BoundaryInv
<1>5. CASE (\E r \in {"fetch", "stream"} : TakeLock(r)) \/ LoadAlerts \/ Expire \/ GatewayStarts
  <2>1. UNCHANGED <<cache, wire, fetch, response, shown>>
    BY <1>5 DEF TakeLock, LoadAlerts, Expire, GatewayStarts, streamVars, fetchVars, viewVars
  <2> QED
    BY <1>1, <2>1 DEF BoundaryInv
<1>6. CASE LoadRest
  <2>1. suggestionFiles \in Seq(Seq(Lines))
    BY DEF MigrationInv, MigrationOk
  <2>2. LoadRecentJsonl(suggestionFiles) \in Seq(Records)
    BY <2>1, LoadedAreRecords DEF Lines
  <2>3. ShotOk(Snapshot(seen))
    BY <2>2, SnapshotsOk DEF Snapshot
  <2>4. cache' = Snapshot(seen) /\ shown' = shown
    BY <1>6 DEF LoadRest, viewVars
  <2>5. CASE holder = "warm"
    BY <1>1, <1>6, <2>3, <2>4, <2>5 DEF LoadRest, streamVars, fetchVars, BoundaryInv
  <2>6. CASE holder # "warm"
    <3>1. Hand(holder, cache')
      BY <1>6, <2>6 DEF LoadRest
    <3>2. WireOk(wire') /\ (fetch' = "answered" => ShotOk(response'))
      BY <2>3, <2>4, <3>1, HandKeeps
    <3> QED
      BY <1>1, <2>3, <2>4, <3>2 DEF BoundaryInv
  <2> QED
    BY <2>5, <2>6
<1>7. CASE StreamWakes
  BY <1>1, <1>7 DEF StreamWakes, cacheVars, fetchVars, viewVars, BoundaryInv
<1>8. CASE ConnectionBreaks \/ GatewayDies
  <2>1. wire' = <<>> /\ response' = response /\ shown' = shown
        /\ (fetch' = "answered" => fetch = "answered") /\ (cache' = cache \/ cache' = None)
    BY <1>8 DEF ConnectionBreaks, GatewayDies, CancelStream, fetchVars, viewVars
  <2> QED
    BY <1>1, <2>1, WireSteps DEF BoundaryInv
<1>9. CASE Mount \/ RetryFires
  <2>1. /\ cache' = cache /\ response' = response /\ shown' = shown
        /\ (fetch' = "answered" => fetch = "answered")
        /\ wire' \in {<<>>, <<Heartbeat>>}
    BY <1>9 DEF Mount, RetryFires, Connect, cacheVars, fetchVars, viewVars
  <2> QED
    BY <1>1, <2>1, WireSteps DEF BoundaryInv
<1>10. CASE FetchArrives
  <2>1. /\ ShotOk(response) /\ Show(response) /\ fetch' = "done"
        /\ cache' = cache /\ wire' = wire
    BY <1>10 DEF FetchArrives, BoundaryInv, cacheVars, streamVars
  <2>2. GuardedRecords'
    BY <2>1, ShowKeeps DEF BoundaryInv
  <2> QED
    BY <2>1, <2>2 DEF BoundaryInv
<1>11. CASE FetchFails
  <2>1. fetch' = "done" /\ cache' = cache /\ wire' = wire /\ shown' = shown
    BY <1>11 DEF FetchFails, streamVars
  <2> QED
    BY <1>1, <2>1 DEF BoundaryInv
<1>12. CASE EnvelopeArrives
  <2> DEFINE e == Head(wire)
  <2>1. /\ wire # <<>> /\ wire' = Tail(wire) /\ cache' = cache
        /\ fetch' = fetch /\ response' = response
    BY <1>12 DEF EnvelopeArrives, cacheVars, fetchVars
  <2>2. WireOk(wire') /\ EnvelopeOk(e)
    BY <2>1, WireSteps DEF BoundaryInv
  <2>3. CASE e.type = "heartbeat"
    BY <1>1, <1>12, <2>1, <2>2, <2>3 DEF EnvelopeArrives, viewVars, BoundaryInv
  <2>4. CASE e.type # "heartbeat"
    <3>1. Show(e.snapshot) /\ ShotOk(e.snapshot)
      BY <1>12, <2>2, <2>4 DEF EnvelopeArrives, EnvelopeOk
    <3>2. GuardedRecords'
      BY <3>1, ShowKeeps DEF BoundaryInv
    <3> QED
      BY <2>1, <2>2, <3>2 DEF BoundaryInv
  <2> QED
    BY <2>3, <2>4
<1>13. CASE OnError
  BY <1>1, <1>13 DEF OnError, Degrade, cacheVars, fetchVars, BoundaryInv
<1>14. CASE HandshakeFires
  <2>1. wire' = <<>> /\ cache' = cache /\ fetch' = fetch /\ response' = response /\ shown' = shown
    BY <1>14 DEF HandshakeFires, CancelStream, Degrade, fetchVars
  <2> QED
    BY <1>1, <2>1, WireSteps DEF BoundaryInv
<1>15. CASE Unmount
  <2>1. wire' = <<>> /\ cache' = cache /\ fetch' = "done" /\ shown' = shown
    BY <1>15 DEF Unmount, CancelStream, viewVars
  <2> QED
    BY <1>1, <2>1, WireSteps DEF BoundaryInv
<1>16. CASE UNCHANGED vars
  BY <1>2, <1>16 DEF vars
<1> QED
  BY <1>3, <1>4, <1>5, <1>6, <1>7, <1>8, <1>9, <1>10, <1>11, <1>12, <1>13, <1>14, <1>15, <1>16
     DEF Next, Gateway, Hook

\* The approval boundary: whatever agent, old or new, or migration wrote a
\* suggestion, and by whatever cache, stream, answer or retry its snapshot came,
\* the console shows it with approval required by verdict and draft, without a
\* write path, with the draft waiting when the verdict sends it back, and with a
\* primary hypothesis that is listed.
THEOREM BoundaryHolds == Spec => []GuardedRecords
<1>1. Init => MigrationInv
  BY MigrationInit
<1>2. Init => BoundaryInv
  BY WireSteps DEF Init, BoundaryInv, GuardedRecords
<1>3. MigrationInv /\ BoundaryInv /\ [Next]_vars => (MigrationInv /\ BoundaryInv)'
  BY MigrationStep, BoundaryStep
<1>4. BoundaryInv => GuardedRecords
  BY DEF BoundaryInv
<1> QED
  BY <1>1, <1>2, <1>3, <1>4, PTL DEF Spec

-----------------------------------------------------------------------------
(* The newest first. *)

\* The first elements of a sequence.
LEMMA FirstAre ==
  ASSUME NEW X, NEW q \in Seq(X), NEW n \in Nat
  PROVE  /\ FirstOf(q, n) \in Seq(X)
         /\ Len(FirstOf(q, n)) = (IF n <= Len(q) THEN n ELSE Len(q))
         /\ \A m \in 1..Len(q) : m <= n => m \in 1..Len(FirstOf(q, n)) /\ FirstOf(q, n)[m] = q[m]
<1> DEFINE l == IF n <= Len(q) THEN n ELSE Len(q)
<1>1. FirstOf(q, n) = SubSeq(q, 1, l) /\ l \in 0..Len(q) /\ Len(q) \in Nat
  BY DEF FirstOf, Least
<1>2. \A m \in 1..Len(q) : m <= n => m \in 1..l
  BY <1>1
<1> HIDE DEF l
<1>3. SubSeq(q, 1, l) \in Seq(X) /\ Len(SubSeq(q, 1, l)) = l
      /\ \A m \in 1..l : SubSeq(q, 1, l)[m] = q[m]
  BY <1>1
<1> QED
  BY <1>1, <1>2, <1>3 DEF l

\* The latest of some records is the first of those sorted, and none is later.
LEMMA LatestIs ==
  ASSUME NEW X, NEW s \in Seq(X), s # <<>>, \A i \in 1..Len(s) : s[i].ts \in Int
  PROVE  /\ LatestByTs(s) = ByTime(s)[1]
         /\ \E i \in 1..Len(s) : ByTime(s)[1] = s[i] /\ \A j \in 1..Len(s) : s[j].ts <= s[i].ts
<1>1. LatestByTs(s) = ByTime(s)[1]
  BY DEF LatestByTs
<1>2. 1 \in 1..Len(s)
  OBVIOUS
<1>3. PICK i \in 1..Len(s) : Cardinality(AsNew(s, i)) = 1 /\ ByTime(s)[1] = s[i]
  BY <1>2, ByTimeRanks
<1>4. IsFiniteSet(AsNew(s, i)) /\ i \in AsNew(s, i)
  BY ByTimeRanks
<1>5. PICK x : AsNew(s, i) = {x}
  BY <1>3, <1>4, FS_Singleton
<1>6. ASSUME NEW j \in 1..Len(s) PROVE s[j].ts <= s[i].ts
  <2>1. s[j].ts \in Int /\ s[i].ts \in Int
    OBVIOUS
  <2>2. CASE s[j].ts > s[i].ts
    <3>1. j \in AsNew(s, i)
      BY <2>2 DEF AsNew
    <3>2. j = i
      BY <1>4, <1>5, <3>1
    <3> QED
      BY <2>1, <2>2, <3>2
  <2> QED
    BY <2>1, <2>2
<1> QED
  BY <1>1, <1>3, <1>6

\* An element with a rank up to n is among the first n.
LEMMA RankedFirst ==
  ASSUME NEW X, NEW s \in Seq(X), \A i \in 1..Len(s) : s[i].ts \in Int,
         NEW n \in Nat, NEW i \in 1..Len(s), Cardinality(AsNew(s, i)) <= n
  PROVE  LET k == Cardinality(AsNew(s, i)) IN
         /\ k \in 1..Len(FirstOf(ByTime(s), n)) /\ FirstOf(ByTime(s), n)[k] = s[i]
         /\ s[i] \in Items(FirstOf(ByTime(s), n))
<1> DEFINE k == Cardinality(AsNew(s, i))  sorted == ByTime(s)
<1>1. sorted \in Seq(X) /\ Len(sorted) = Len(s) /\ k \in 1..Len(s) /\ sorted[k] = s[i]
  BY ByTimeRanks
<1>2. k <= n
  OBVIOUS
<1> HIDE DEF k, sorted
<1>3. k \in 1..Len(FirstOf(sorted, n)) /\ FirstOf(sorted, n)[k] = sorted[k]
  BY <1>1, <1>2, FirstAre
<1>4. s[i] \in Items(FirstOf(sorted, n))
  BY <1>1, <1>3 DEF Items
<1> QED
  BY <1>1, <1>3, <1>4 DEF k, sorted

\* The numbers up to a bound and one more.
LEMMA OneMore ==
  ASSUME NEW K, IsFiniteSet(K), NEW x
  PROVE  /\ IsFiniteSet(K \cup {x}) /\ Cardinality(K \cup {x}) <= Cardinality(K) + 1
         /\ Cardinality(K) \in Nat /\ Cardinality(K \cup {x}) \in Nat
<1>1. IsFiniteSet(K \cup {x}) /\ Cardinality(K \cup {x}) \in Nat /\ Cardinality(K) \in Nat
      /\ Cardinality(K \cup {x}) = IF x \in K THEN Cardinality(K) ELSE Cardinality(K) + 1
  BY FS_AddElement, FS_CardinalityType
<1> QED
  BY <1>1

\* The raw sample is in the feed, and so is an element that only PerKind others
\* and the raw sample come before.
LEMMA FeedHas ==
  ASSUME NEW X, NEW list \in Seq(X), \A i \in 1..Len(list) : list[i].ts \in Int,
         NEW raw, raw = <<>> \/ (list # <<>> /\ raw = <<list[1]>>),
         NEW i \in 1..Len(list), NEW K, IsFiniteSet(K), Cardinality(K) <= PerKind,
         AsNew(list, i) \subseteq K \cup {i} \cup (IF raw = <<>> THEN {} ELSE {1})
  PROVE  list[i] \in Items(WithRaw(FirstOf(ByTime(list), FeedLimit), raw))
<1> DEFINE top == FirstOf(ByTime(list), FeedLimit)  B == AsNew(list, i)
<1>0. /\ PerKind \in Nat \ {0} /\ FeedLimit \in Nat /\ FeedLimit >= PerKind + 2
  BY FeedAssumption DEF FeedAssumption
<1>1. /\ IsFiniteSet(K \cup {i}) /\ Cardinality(K \cup {i}) <= PerKind + 1
      /\ IsFiniteSet(K \cup {i} \cup {1}) /\ Cardinality(K \cup {i} \cup {1}) <= PerKind + 2
      /\ Cardinality(K \cup {i}) \in Nat /\ Cardinality(K \cup {i} \cup {1}) \in Nat
  <2>1. /\ IsFiniteSet(K \cup {i}) /\ Cardinality(K \cup {i}) <= Cardinality(K) + 1
        /\ Cardinality(K) \in Nat /\ Cardinality(K \cup {i}) \in Nat
    BY OneMore
  <2>2. /\ IsFiniteSet((K \cup {i}) \cup {1})
        /\ Cardinality((K \cup {i}) \cup {1}) <= Cardinality(K \cup {i}) + 1
        /\ Cardinality((K \cup {i}) \cup {1}) \in Nat
    BY <2>1, OneMore
  <2> QED
    BY <1>0, <2>1, <2>2
<1>2. IsFiniteSet(B) /\ Cardinality(B) \in 1..Len(list)
  BY ByTimeRanks
<1>3. B \subseteq K \cup {i} \cup {1}
  OBVIOUS
<1>4. Cardinality(B) <= FeedLimit
  <2>1. Cardinality(B) <= Cardinality(K \cup {i} \cup {1})
    BY <1>1, <1>3, FS_Subset
  <2> QED
    BY <1>0, <1>1, <1>2, <2>1
<1>5. list[i] \in Items(top)
  BY <1>0, <1>4, RankedFirst
<1>6. CASE raw = <<>> \/ raw[1] \in Items(top)
  <2>1. WithRaw(top, raw) = top
    BY <1>6 DEF WithRaw
  <2> QED
    BY <1>5, <2>1
<1>7. CASE raw # <<>> /\ raw[1] \notin Items(top)
  <2>1. raw = <<list[1]>> /\ raw[1] = list[1] /\ 1 \in 1..Len(list)
    BY <1>7
  <2>2. IsFiniteSet(AsNew(list, 1)) /\ Cardinality(AsNew(list, 1)) \in Nat
    <3>1. IsFiniteSet(AsNew(list, 1))
      BY <2>1, ByTimeRanks
    <3> QED
      BY <3>1, FS_CardinalityType
  <2>3. ~(Cardinality(AsNew(list, 1)) <= FeedLimit)
    BY <1>0, <1>7, <2>1, RankedFirst
  <2>4. 1 \notin B
    <3> SUFFICES ASSUME 1 \in B PROVE FALSE
      OBVIOUS
    <3>1. AsNew(list, 1) \subseteq B
      <4> SUFFICES ASSUME NEW j \in AsNew(list, 1) PROVE j \in B
        OBVIOUS
      <4>1. j \in 1..Len(list) /\ (list[j].ts > list[1].ts \/ (list[j].ts = list[1].ts /\ j <= 1))
        BY DEF AsNew
      <4>2. list[1].ts > list[i].ts \/ (list[1].ts = list[i].ts /\ 1 <= i)
        BY DEF AsNew
      <4>3. /\ list[j].ts \in Int /\ list[1].ts \in Int /\ list[i].ts \in Int
            /\ j \in Int /\ i \in Int
        BY <2>1, <4>1
      <4>4. list[j].ts > list[i].ts \/ (list[j].ts = list[i].ts /\ j <= i)
        BY <4>1, <4>2, <4>3
      <4> QED
        BY <4>1, <4>4 DEF AsNew
    <3>2. Cardinality(AsNew(list, 1)) <= Cardinality(B)
      BY <1>2, <3>1, FS_Subset
    <3> QED
      BY <1>0, <1>2, <1>4, <2>2, <2>3, <3>2
  <2>5. B \subseteq K \cup {i}
    BY <1>3, <2>4
  <2>6. Cardinality(B) <= Cardinality(K \cup {i})
    BY <1>1, <2>5, FS_Subset
  <2>7. Cardinality(B) <= FeedLimit - 1 /\ FeedLimit - 1 \in Nat
    BY <1>0, <1>1, <1>2, <2>6
  <2> DEFINE k == Cardinality(B)
  <2>8. k \in 1..Len(top) /\ top[k] = list[i]
    BY <1>0, <1>4, RankedFirst
  <2>9. top \in Seq(X) /\ k <= FeedLimit - 1
    <3>1. ByTime(list) \in Seq(X)
      BY ByTimeRanks
    <3>2. top \in Seq(X)
      BY <1>0, <3>1, FirstAre
    <3> QED
      BY <2>7, <3>2
  <2>10. WithRaw(top, raw) = FirstOf(top, FeedLimit - 1) \o raw
    BY <1>7 DEF WithRaw
  <2> HIDE DEF top, k, B
  <2> DEFINE some == FirstOf(top, FeedLimit - 1)
  <2>11. some \in Seq(X) /\ k \in 1..Len(some) /\ some[k] = list[i]
    BY <2>7, <2>8, <2>9, FirstAre
  <2>12. raw \in Seq(X)
    BY <2>1
  <2> HIDE DEF some
  <2>13. k \in 1..Len(some \o raw) /\ (some \o raw)[k] = list[i]
    BY <2>11, <2>12
  <2>14. list[i] \in Items(some \o raw)
    BY <2>13 DEF Items
  <2> QED
    BY <2>10, <2>14 DEF some, top
<1> QED
  BY <1>6, <1>7

\* The raw sample is in the feed when there is one.
LEMMA RawIsShown ==
  ASSUME NEW X, NEW top \in Seq(X), NEW r \in X
  PROVE  r \in Items(WithRaw(top, <<r>>))
<1>0. FeedLimit - 1 \in Nat
  BY FeedAssumption DEF FeedAssumption
<1> DEFINE some == FirstOf(top, FeedLimit - 1)
<1>1. some \in Seq(X)
  BY <1>0, FirstAre
<1> HIDE DEF some
<1>2. (some \o <<r>>)[Len(some) + 1] = r /\ Len(some) + 1 \in 1..Len(some \o <<r>>)
  BY <1>1
<1>3. r \in Items(some \o <<r>>)
  BY <1>2 DEF Items
<1>4. <<r>>[1] = r /\ <<r>> # <<>>
  OBVIOUS
<1>5. CASE r \in Items(top)
  BY <1>4, <1>5 DEF WithRaw
<1>6. CASE r \notin Items(top)
  <2>1. WithRaw(top, <<r>>) = some \o <<r>>
    BY <1>4, <1>6 DEF WithRaw, some
  <2> QED
    BY <1>3, <2>1
<1> QED
  BY <1>5, <1>6

\* The newest records of one kind that the feed takes: they are records of that
\* kind with a time, no more than PerKind, and the newest of all is one of them.
LEMMA KindTaken ==
  ASSUME NEW X, NEW s \in Seq(X), \A x \in X : x.ts \in Nat \cup {Unparsed},
         NEW taken, taken = Parsed(FirstOf(ByTime(s), PerKind))
  PROVE  /\ taken \in Seq(X) /\ Len(taken) \in Nat /\ Len(taken) <= PerKind
         /\ \A n \in 1..Len(taken) : \E i \in 1..Len(s) : taken[n] = s[i]
         /\ s # <<>> /\ LatestByTs(s).ts # Unparsed =>
              /\ \E n \in 1..Len(taken) : taken[n].ts = LatestByTs(s).ts
              /\ \A n \in 1..Len(taken) : taken[n].ts <= LatestByTs(s).ts
<1>0. PerKind \in Nat \ {0}
  BY FeedAssumption DEF FeedAssumption
<1>1. \A i \in 1..Len(s) : s[i].ts \in Int
  BY DEF Unparsed
<1> DEFINE sorted == ByTime(s)  first == FirstOf(sorted, PerKind)
           P == {n \in 1..Len(first) : first[n].ts # Unparsed}
<1>2. /\ sorted \in Seq(X) /\ Len(sorted) = Len(s)
      /\ \A n \in 1..Len(s) : \E i \in 1..Len(s) : sorted[n] = s[i]
  BY <1>1, ByTimeRanks
<1>3. taken = At(first, P)
  BY DEF Parsed, Picked
<1> HIDE DEF sorted
<1>4. /\ first \in Seq(X) /\ Len(first) <= PerKind /\ Len(first) <= Len(sorted)
      /\ \A n \in 1..Len(sorted) : n <= PerKind => n \in 1..Len(first) /\ first[n] = sorted[n]
  <2>1. /\ first \in Seq(X)
        /\ Len(first) = IF PerKind <= Len(sorted) THEN PerKind ELSE Len(sorted)
        /\ \A n \in 1..Len(sorted) : n <= PerKind => n \in 1..Len(first) /\ first[n] = sorted[n]
    BY <1>0, <1>2, FirstAre
  <2>2. Len(sorted) \in Nat
    BY <1>2
  <2> QED
    BY <1>0, <2>1, <2>2
<1>5. \A n \in 1..Len(first) : n \in 1..Len(s) /\ first[n] = sorted[n]
  <2> TAKE n \in 1..Len(first)
  <2>1. n \in 1..Len(sorted) /\ n <= PerKind
    BY <1>0, <1>2, <1>4
  <2> QED
    BY <1>2, <1>4, <2>1
<1> HIDE DEF first
<1>6. P \in SUBSET (1..Len(first))
  OBVIOUS
<1>7. Cardinality(P) <= Len(first)
  <2>1. Len(first) \in Nat /\ IsFiniteSet(1..Len(first)) /\ Cardinality(1..Len(first)) = Len(first)
    BY <1>4, FS_Interval
  <2> QED
    BY <1>6, <2>1, FS_Subset
<1>8. /\ taken \in Seq(X) /\ Len(taken) = Cardinality(P) /\ Cardinality(P) \in Nat
      /\ \A n \in 1..Len(taken) : \E m \in P : taken[n] = first[m]
      /\ \A m \in P : \E n \in 1..Len(taken) : taken[n] = first[m]
  <2> HIDE DEF P
  <2>1. first \in Seq(X) /\ P \in SUBSET (1..Len(first))
    BY <1>4, <1>6
  <2>2. /\ At(first, P) \in Seq(X) /\ Len(At(first, P)) = Cardinality(P)
        /\ IsFiniteSet(P) /\ Cardinality(P) \in Nat
        /\ \A n \in 1..Len(At(first, P)) : \E m \in P : At(first, P)[n] = first[m]
        /\ \A m \in P : \E n \in 1..Len(At(first, P)) : At(first, P)[n] = first[m]
    BY <2>1, AtPicks
  <2> QED
    BY <1>3, <2>2
<1>9. \A n \in 1..Len(taken) : \E i \in 1..Len(s) : taken[n] = s[i]
  <2> TAKE n \in 1..Len(taken)
  <2>1. PICK m \in 1..Len(first) : taken[n] = first[m]
    BY <1>6, <1>8
  <2> QED
    BY <1>2, <1>5, <2>1
<1>10. ASSUME s # <<>>, LatestByTs(s).ts # Unparsed
       PROVE  /\ \E n \in 1..Len(taken) : taken[n].ts = LatestByTs(s).ts
              /\ \A n \in 1..Len(taken) : taken[n].ts <= LatestByTs(s).ts
  <2>1. LatestByTs(s) = sorted[1]
        /\ \E i \in 1..Len(s) : sorted[1] = s[i] /\ \A j \in 1..Len(s) : s[j].ts <= s[i].ts
    BY <1>1, <1>10, LatestIs DEF sorted
  <2>2. 1 \in 1..Len(first) /\ first[1] = sorted[1]
    <3>1. 1 \in 1..Len(sorted) /\ 1 <= PerKind
      BY <1>0, <1>2, <1>10
    <3> QED
      BY <1>4, <3>1
  <2>3. 1 \in P
    BY <1>10, <2>1, <2>2
  <2>4. \E n \in 1..Len(taken) : taken[n] = first[1]
    BY <1>8, <2>3
  <2> QED
    BY <1>9, <2>1, <2>2, <2>4
<1>11. Len(taken) \in Nat /\ Len(taken) <= PerKind
  <2>1. Len(first) \in Nat /\ Len(first) <= PerKind
    BY <1>4
  <2> HIDE DEF P
  <2> QED
    BY <1>0, <1>7, <1>8, <2>1
<1> QED
  BY <1>8, <1>9, <1>10, <1>11

\* Of the elements at some places, all others being the raw sample or at most
\* PerKind, the feed has one of the newest.
LEMMA PlacesShown ==
  ASSUME NEW X, NEW list \in Seq(X), \A i \in 1..Len(list) : list[i].ts \in Int,
         NEW raw, raw = <<>> \/ (list # <<>> /\ raw = <<list[1]>>),
         NEW K, IsFiniteSet(K), Cardinality(K) <= PerKind,
         NEW S \in SUBSET (1..Len(list)),
         1..Len(list) \subseteq K \cup S \cup (IF raw = <<>> THEN {} ELSE {1}),
         NEW n \in S, \A m \in S : list[m].ts <= list[n].ts
  PROVE  \E m \in S : /\ list[m].ts = list[n].ts
                      /\ list[m] \in Items(WithRaw(FirstOf(ByTime(list), FeedLimit), raw))
<1> DEFINE N == {m \in S : list[m].ts = list[n].ts}
<1>1. N \in SUBSET Nat /\ n \in N
  <2>1. Len(list) \in Nat /\ \A m \in S : m \in 1..Len(list)
    OBVIOUS
  <2>2. \A m \in S : m \in Nat
    BY <2>1
  <2> QED
    BY <2>2
<1>2. PICK i \in N : \A m \in N : i <= m
  <2> HIDE DEF N
  <2> QED
    BY <1>1, LeastNumber
<1>3. i \in S /\ i \in 1..Len(list) /\ list[i].ts = list[n].ts
  BY <1>2
<1>4. ASSUME NEW j \in AsNew(list, i), j \in S PROVE j = i
  <2>1. /\ j \in 1..Len(list) /\ n \in 1..Len(list)
        /\ list[j].ts > list[i].ts \/ (list[j].ts = list[i].ts /\ j <= i)
    BY DEF AsNew
  <2>2. list[j].ts \in Int /\ list[n].ts \in Int /\ list[j].ts <= list[n].ts
    BY <1>4, <2>1
  <2>3. list[j].ts = list[n].ts /\ j <= i
    BY <1>3, <2>1, <2>2
  <2>4. i <= j
    BY <1>2, <1>4, <2>3
  <2> QED
    BY <1>3, <2>1, <2>3, <2>4
<1>5. AsNew(list, i) \subseteq K \cup {i} \cup (IF raw = <<>> THEN {} ELSE {1})
  BY <1>4 DEF AsNew
<1>6. list[i] \in Items(WithRaw(FirstOf(ByTime(list), FeedLimit), raw))
  BY <1>3, <1>5, FeedHas
<1> QED
  BY <1>3, <1>6

\* The feed of two kinds of at most PerKind items each and the raw sample has
\* one of the newest of either kind.
LEMMA BothShown ==
  ASSUME NEW X, \A x \in X : x.ts \in Int,
         NEW raw \in Seq(X), Len(raw) <= 1,
         NEW a \in Seq(X), Len(a) <= PerKind, NEW s \in Seq(X), Len(s) <= PerKind
  PROVE  LET feed == WithRaw(FirstOf(ByTime(raw \o a \o s), FeedLimit), raw) IN
         /\ \A n \in 1..Len(a) : (\A m \in 1..Len(a) : a[m].ts <= a[n].ts) =>
              \E m \in 1..Len(a) : a[m].ts = a[n].ts /\ a[m] \in Items(feed)
         /\ \A n \in 1..Len(s) : (\A m \in 1..Len(s) : s[m].ts <= s[n].ts) =>
              \E m \in 1..Len(s) : s[m].ts = s[n].ts /\ s[m] \in Items(feed)
<1> DEFINE list == raw \o a \o s
           R == Len(raw)  A == Len(a)  S == Len(s)
           feed == WithRaw(FirstOf(ByTime(list), FeedLimit), raw)
           PA == (R + 1)..(R + A)
           PS == (R + A + 1)..(R + A + S)
<1>1. /\ R \in 0..1 /\ A \in Nat /\ S \in Nat /\ A <= PerKind /\ S <= PerKind
      /\ (raw = <<>> <=> R = 0)
  <2>1. Len(raw) \in Nat /\ Len(a) \in Nat /\ Len(s) \in Nat
    OBVIOUS
  <2>2. raw = <<>> <=> R = 0
    OBVIOUS
  <2>3. R \in 0..1
    <3>1. R \in Nat /\ R <= 1
      BY <2>1
    <3> HIDE DEF R
    <3> QED
      BY <3>1
  <2>4. A <= PerKind /\ S <= PerKind
    OBVIOUS
  <2> HIDE DEF R, A, S
  <2>5. A \in Nat /\ S \in Nat
    BY <2>1 DEF A, S
  <2> QED
    BY <2>2, <2>3, <2>4, <2>5
<1>2. list \in Seq(X) /\ Len(list) = R + A + S
  OBVIOUS
<1>3. \A m \in 1..R : list[m] = raw[m]
  OBVIOUS
<1>4. \A m \in 1..A : list[R + m] = a[m]
  OBVIOUS
<1>5. \A m \in 1..S : list[R + A + m] = s[m]
  OBVIOUS
<1>6. raw = <<>> \/ (list # <<>> /\ raw = <<list[1]>>)
  <2>1. CASE R = 0
    BY <1>1, <2>1
  <2>2. CASE R = 1
    <3>1. raw = <<raw[1]>> /\ list[1] = raw[1]
      BY <1>3, <2>2
    <3>2. list # <<>>
      BY <1>1, <1>2, <2>2
    <3> QED
      BY <3>1, <3>2
  <2> QED
    BY <1>1, <2>1, <2>2
<1> HIDE DEF list
<1>7. \A m \in 1..Len(list) : list[m].ts \in Int
  BY <1>2
<1>8. /\ PA \in SUBSET (1..Len(list)) /\ PS \in SUBSET (1..Len(list))
      /\ 1..Len(list) \subseteq PS \cup PA \cup (IF raw = <<>> THEN {} ELSE {1})
  BY <1>1, <1>2
<1>9. /\ IsFiniteSet(PA) /\ Cardinality(PA) <= PerKind
      /\ IsFiniteSet(PS) /\ Cardinality(PS) <= PerKind
  <2>0. PerKind \in Nat
    BY FeedAssumption DEF FeedAssumption
  <2>1. /\ IsFiniteSet(PA)
        /\ Cardinality(PA) = IF R + 1 > R + A THEN 0 ELSE (R + A) - (R + 1) + 1
    <3>1. R + 1 \in Int /\ R + A \in Int
      BY <1>1
    <3> HIDE DEF R, A
    <3> QED
      BY <3>1, FS_Interval
  <2>2. /\ IsFiniteSet(PS)
        /\ Cardinality(PS) = IF R + A + 1 > R + A + S THEN 0
                              ELSE (R + A + S) - (R + A + 1) + 1
    <3>1. R + A + 1 \in Int /\ R + A + S \in Int
      BY <1>1
    <3> HIDE DEF R, A, S
    <3> QED
      BY <3>1, FS_Interval
  <2> QED
    BY <1>1, <2>0, <2>1, <2>2
<1>10. /\ \A m \in 1..A : R + m \in PA
       /\ \A k \in PA : k - R \in 1..A /\ R + (k - R) = k
       /\ \A m \in 1..S : R + A + m \in PS
       /\ \A k \in PS : k - (R + A) \in 1..S /\ R + A + (k - (R + A)) = k
  BY <1>1
<1>11. \A k \in PA : list[k] = a[k - R]
  <2> TAKE k \in PA
  <2>1. k - R \in 1..A /\ R + (k - R) = k
    BY <1>10
  <2> QED
    BY <1>4, <2>1
<1>12. \A k \in PS : list[k] = s[k - (R + A)]
  <2> TAKE k \in PS
  <2>1. k - (R + A) \in 1..S /\ R + A + (k - (R + A)) = k
    BY <1>10
  <2> QED
    BY <1>5, <2>1
<1> HIDE DEF PA, PS, R, A, S
<1>13. ASSUME NEW n \in 1..A, \A m \in 1..A : a[m].ts <= a[n].ts
       PROVE  \E m \in 1..A : a[m].ts = a[n].ts /\ a[m] \in Items(feed)
  <2>1. R + n \in PA /\ list[R + n] = a[n]
    BY <1>4, <1>10
  <2>2. \A k \in PA : list[k].ts <= list[R + n].ts
    BY <1>10, <1>11, <1>13, <2>1
  <2>3. PICK k \in PA : list[k].ts = list[R + n].ts /\ list[k] \in Items(feed)
    BY <1>2, <1>6, <1>7, <1>8, <1>9, <2>1, <2>2, PlacesShown
  <2> QED
    BY <1>10, <1>11, <2>1, <2>3
<1>14. ASSUME NEW n \in 1..S, \A m \in 1..S : s[m].ts <= s[n].ts
       PROVE  \E m \in 1..S : s[m].ts = s[n].ts /\ s[m] \in Items(feed)
  <2>1. R + A + n \in PS /\ list[R + A + n] = s[n]
    BY <1>5, <1>10
  <2>2. \A k \in PS : list[k].ts <= list[R + A + n].ts
    BY <1>10, <1>12, <1>14, <2>1
  <2>3. 1..Len(list) \subseteq PA \cup PS \cup (IF raw = <<>> THEN {} ELSE {1})
    BY <1>8
  <2>4. PICK k \in PS : list[k].ts = list[R + A + n].ts /\ list[k] \in Items(feed)
    BY <1>2, <1>6, <1>7, <1>8, <1>9, <2>1, <2>2, <2>3, PlacesShown
  <2> QED
    BY <1>10, <1>12, <2>1, <2>4
<1> QED
  BY <1>13, <1>14 DEF list, A, S

\* Between two times of one day it is that day.
LEMMA DaysFollow ==
  ASSUME NEW x \in Int, NEW y \in Int, x <= y
  PROVE  DayOf(x) \in Int /\ DayOf(x) <= DayOf(y)
<1> DEFINE D == DayLength  q == x \div D  p == y \div D
<1>1. D \in Nat /\ D >= 1
  BY FeedAssumption DEF FeedAssumption
<1>2. /\ q \in Int /\ p \in Int
      /\ D * q <= x /\ x < D * q + D /\ D * p <= y /\ y < D * p + D
  <2> HIDE DEF D
  <2> QED
    BY <1>1
<1> HIDE DEF q, p, D
<1>3. q <= p
  <2> SUFFICES ASSUME q >= p + 1 PROVE FALSE
    BY <1>2
  <2>1. D * (q - p - 1) >= 0
    BY <1>1, <1>2
  <2>2. D * q >= D * p + D
    BY <1>1, <1>2, <2>1
  <2> QED
    BY <1>1, <1>2, <2>2
<1> QED
  BY <1>2, <1>3 DEF DayOf, q, p, D

\* The day that is shown is that of a time that no known time is after.
LEMMA DayIsLast ==
  ASSUME NEW alerts, NEW suggestions, NEW rep, NEW clock,
         {TimeOf(LatestByTs(alerts)), TimeOf(LatestByTs(suggestions)), rep.ts, clock} \subseteq Int
  PROVE  \E t \in Int : /\ ReferenceDay(alerts, suggestions, rep, clock) = DayOf(t)
                        /\ TimeOf(LatestByTs(suggestions)) <= t
<1> DEFINE a == TimeOf(LatestByTs(alerts))  s == TimeOf(LatestByTs(suggestions))
           times == {a, s, rep.ts, clock}
           last == CHOOSE t \in times : \A u \in times : u <= t
<1>1. ReferenceDay(alerts, suggestions, rep, clock) = DayOf(last)
  BY DEF ReferenceDay
<1>2. a \in Int /\ s \in Int /\ rep.ts \in Int /\ clock \in Int
  OBVIOUS
<1> HIDE DEF a
<1>3. \E t \in times : \A u \in times : u <= t
  <2> DEFINE b == IF a <= s THEN s ELSE a
             c == IF rep.ts <= clock THEN clock ELSE rep.ts
             d == IF b <= c THEN c ELSE b
  <2>1. d \in times /\ a <= d /\ s <= d /\ rep.ts <= d /\ clock <= d
    <3> HIDE DEF s
    <3> QED
      BY <1>2
  <2> HIDE DEF d
  <2> QED
    BY <2>1
<1>4. last \in times /\ \A u \in times : u <= last
  BY <1>3
<1> HIDE DEF last
<1>5. last \in Int /\ s <= last
  BY <1>2, <1>4
<1> QED
  BY <1>1, <1>5

\* The rows are the newest suggestions in their order.
LEMMA RowsAre ==
  ASSUME NEW s \in Seq(Records), NEW alerts, NEW limit \in Nat
  PROVE  LET rows == SuggestionRecords(s, alerts, limit) IN
         /\ Len(rows) = (IF limit <= Len(s) THEN limit ELSE Len(s))
         /\ \A m \in 1..Len(rows) :
              /\ rows[m].ts = ByTime(s)[m].ts
              /\ rows[m].scope = ByTime(s)[m].scope
<1> DEFINE sorted == ByTime(s)  newest == FirstOf(sorted, limit)
           rows == SuggestionRecords(s, alerts, limit)
<1>1. \A i \in 1..Len(s) : s[i].ts \in Int
  BY RecordsAreTimed DEF Unparsed
<1>2. sorted \in Seq(Records) /\ Len(sorted) = Len(s) /\ Len(s) \in Nat
  BY <1>1, ByTimeRanks
<1>3. rows = [i \in 1..Len(newest) |-> SuggestionRecord(newest[i], alerts)]
  BY DEF SuggestionRecords
<1> HIDE DEF sorted
<1>4. /\ newest \in Seq(Records)
      /\ Len(newest) = IF limit <= Len(s) THEN limit ELSE Len(s)
      /\ \A m \in 1..Len(sorted) : m <= limit => newest[m] = sorted[m]
  BY <1>2, FirstAre
<1>5. Len(newest) \in Nat /\ \A m \in 1..Len(newest) : newest[m] = sorted[m]
  <2>1. \A m \in 1..Len(newest) : m \in 1..Len(sorted) /\ m <= limit
    BY <1>2, <1>4
  <2> QED
    BY <1>4, <2>1
<1> HIDE DEF newest, rows
<1>6. \A r : /\ SuggestionRecord(r, alerts).ts = r.ts
             /\ SuggestionRecord(r, alerts).scope = r.scope
  BY DEF SuggestionRecord
<1>7. Len(rows) = Len(newest)
      /\ \A m \in 1..Len(newest) : rows[m] = SuggestionRecord(newest[m], alerts)
  BY <1>3, <1>5
<1>8. \A m \in 1..Len(rows) : rows[m].ts = sorted[m].ts /\ rows[m].scope = sorted[m].scope
  BY <1>5, <1>6, <1>7
<1> QED
  BY <1>4, <1>7, <1>8 DEF rows, sorted

\* When the day has a suggestion it has the latest of all.
LEMMA DayHasLatest ==
  ASSUME NEW s \in Seq(Records), NEW t \in Int, TimeOf(LatestByTs(s)) <= t,
         NEW ofDay, ofDay = FilterByDate(s, DayOf(t)), ofDay # <<>>
  PROVE  /\ s # <<>> /\ ofDay \in Seq(Records)
         /\ LatestByTs(ofDay).ts = LatestByTs(s).ts
         /\ LatestByTs(s) # None
<1> DEFINE P == {i \in 1..Len(s) : s[i].ts # Unparsed /\ DayOf(s[i].ts) = DayOf(t)}
<1>1. P \in SUBSET (1..Len(s)) /\ ofDay = At(s, P)
  BY DEF FilterByDate, Picked
<1>2. /\ \A i \in 1..Len(s) : i \in P <=> s[i].ts # Unparsed /\ DayOf(s[i].ts) = DayOf(t)
      /\ \A i \in P : i \in 1..Len(s)
  OBVIOUS
<1> HIDE DEF P
<1>3. /\ ofDay \in Seq(Records)
      /\ \A n \in 1..Len(ofDay) : \E i \in P : ofDay[n] = s[i]
      /\ \A i \in P : \E n \in 1..Len(ofDay) : ofDay[n] = s[i]
  <2>1. /\ At(s, P) \in Seq(Records)
        /\ \A n \in 1..Len(At(s, P)) : \E i \in P : At(s, P)[n] = s[i]
        /\ \A i \in P : \E n \in 1..Len(At(s, P)) : At(s, P)[n] = s[i]
    BY <1>1, AtPicks
  <2> QED
    BY <1>1, <2>1
<1>4. /\ \A i \in 1..Len(s) : s[i] \in Records /\ s[i].ts \in Nat \cup {Unparsed}
                             /\ s[i].ts \in Int
      /\ \A i \in 1..Len(ofDay) : ofDay[i].ts \in Int
  BY <1>3, RecordsAreTimed DEF Unparsed
<1>5. 1 \in 1..Len(ofDay)
  BY <1>3
<1>6. PICK i \in P : ofDay[1] = s[i]
  BY <1>3, <1>5
<1>7. s # <<>>
  BY <1>2, <1>6
<1>8. PICK l \in 1..Len(s) : LatestByTs(s) = s[l] /\ \A j \in 1..Len(s) : s[j].ts <= s[l].ts
  BY <1>4, <1>7, LatestIs
<1>9. LatestByTs(s) # None
  BY <1>4, <1>8, FeedAssumption DEF FeedAssumption
<1>10. s[l].ts <= t
  BY <1>8, <1>9 DEF TimeOf
<1>11. s[i].ts <= s[l].ts /\ s[i].ts # Unparsed /\ DayOf(s[i].ts) = DayOf(t)
       /\ s[i].ts \in Int /\ s[l].ts \in Int /\ s[i].ts \in Nat \cup {Unparsed}
  BY <1>2, <1>4, <1>6, <1>8
<1>12. DayOf(s[l].ts) = DayOf(t)
  <2>1. DayOf(s[i].ts) \in Int /\ DayOf(s[i].ts) <= DayOf(s[l].ts)
    BY <1>11, DaysFollow
  <2>2. DayOf(s[l].ts) \in Int /\ DayOf(s[l].ts) <= DayOf(t)
    BY <1>10, <1>11, DaysFollow
  <2>3. DayOf(t) \in Int
    BY <1>11, <2>1
  <2> QED
    BY <1>11, <2>1, <2>2, <2>3
<1>13. s[l].ts # Unparsed
  BY <1>11 DEF Unparsed
<1>14. l \in P
  BY <1>2, <1>12, <1>13
<1>15. PICK n \in 1..Len(ofDay) : ofDay[n] = s[l]
  BY <1>3, <1>14
<1>16. PICK k \in 1..Len(ofDay) : /\ LatestByTs(ofDay) = ofDay[k]
                                  /\ \A j \in 1..Len(ofDay) : ofDay[j].ts <= ofDay[k].ts
  BY <1>3, <1>4, LatestIs
<1>17. PICK j \in 1..Len(s) : ofDay[k] = s[j]
  BY <1>2, <1>3
<1>18. s[l].ts <= s[j].ts /\ s[j].ts <= s[l].ts /\ s[l].ts \in Int /\ s[j].ts \in Int
  BY <1>4, <1>8, <1>15, <1>16, <1>17
<1>19. s[l].ts = s[j].ts
  BY <1>18
<1> QED
  BY <1>3, <1>7, <1>8, <1>9, <1>16, <1>17, <1>19

\* The suggestion shown first is the newest, it is the default, and the scopes
\* of the panels agree.
LEMMA FirstIsNewest ==
  ASSUME NEW al \in Seq(Alerts), NEW su \in Seq(Records),
         NEW rep, rep.ts \in Int, NEW clock \in Int
  PROVE  LET shot == LoadSnapshot(al, su, rep, clock) IN
         /\ shot.suggestions = <<>> => shot.suggestionTs = Unparsed
         /\ shot.suggestions # <<>> => /\ shot.suggestions[1].ts = shot.suggestionTs
                                       /\ shot.default = shot.suggestions[1].id
         /\ shot.closure = shot.stages.agentScope \/ shot.volume[2] \notin 1..RecordLimit
<1> DEFINE day == ReferenceDay(al, su, rep, clock)
           newest == LatestByTs(su)
           ofDay == FilterByDate(su, day)
           today == SuggestionRecords(ofDay, al, RecordLimit)
           one == SuggestionRecords(<<newest>>, al, 1)
           records == IF today = <<>> /\ newest # None THEN one ELSE today
           shot == LoadSnapshot(al, su, rep, clock)
<1>1. /\ shot.suggestionTs = TimeOf(newest) /\ shot.suggestions = records
      /\ shot.default = IF records = <<>> THEN None ELSE records[1].id
      /\ shot.closure = ClosureLabel(records) /\ shot.volume[2] = Len(ofDay)
      /\ shot.stages.agentScope = ClosureLabel(ofDay)
  BY DEF LoadSnapshot, StageNodes
<1> HIDE DEF shot
<1>2. RecordLimit \in Nat /\ RecordLimit >= 1
  BY ConsoleAssumption DEF ConsoleAssumption
<1>3. TimeOf(LatestByTs(al)) \in Int
  <2>1. \A i \in 1..Len(al) : al[i].ts \in Int
    BY FeedAssumption DEF FeedAssumption, Unparsed
  <2>2. CASE al = <<>>
    BY <2>2 DEF LatestByTs, TimeOf, Unparsed
  <2>3. CASE al # <<>>
    <3>1. \E i \in 1..Len(al) : LatestByTs(al) = al[i]
      BY <2>1, <2>3, LatestIs
    <3> QED
      BY <2>1, <3>1 DEF TimeOf, Unparsed
  <2> QED
    BY <2>2, <2>3
<1>4. /\ TimeOf(newest) \in Int
      /\ newest # None => newest \in Records /\ TimeOf(newest) = newest.ts
  <2>1. \A i \in 1..Len(su) : su[i] \in Records /\ su[i].ts \in Int
    BY RecordsAreTimed DEF Unparsed
  <2>2. CASE su = <<>>
    BY <2>2 DEF LatestByTs, TimeOf, Unparsed
  <2>3. CASE su # <<>>
    <3>1. \E i \in 1..Len(su) : newest = su[i]
      BY <2>1, <2>3, LatestIs
    <3> HIDE DEF newest
    <3> QED
      BY <2>1, <3>1 DEF TimeOf, Unparsed
  <2> QED
    BY <2>2, <2>3
<1>5. PICK t \in Int : day = DayOf(t) /\ TimeOf(newest) <= t
  BY <1>3, <1>4, DayIsLast
<1>6. ofDay = FilterByDate(su, DayOf(t))
  BY <1>5
<1>7. ofDay \in Seq(Records)
  <2>1. CASE ofDay = <<>>
    BY <2>1
  <2>2. CASE ofDay # <<>>
    <3> HIDE DEF ofDay
    <3> QED
      BY <1>5, <1>6, <2>2, DayHasLatest
  <2> QED
    BY <2>1, <2>2
<1>8. ofDay # <<>> => LatestByTs(ofDay).ts = newest.ts /\ newest # None
  <2> HIDE DEF ofDay
  <2> QED
    BY <1>5, <1>6, DayHasLatest
<1> HIDE DEF ofDay
<1>9. /\ Len(today) = (IF RecordLimit <= Len(ofDay) THEN RecordLimit ELSE Len(ofDay))
      /\ \A m \in 1..Len(today) : /\ today[m].ts = ByTime(ofDay)[m].ts
                                  /\ today[m].scope = ByTime(ofDay)[m].scope
  BY <1>2, <1>7, RowsAre
<1>10. /\ today = [i \in 1..Len(FirstOf(ByTime(ofDay), RecordLimit)) |->
                     SuggestionRecord(FirstOf(ByTime(ofDay), RecordLimit)[i], al)]
       /\ (today = <<>>) <=> (Len(today) = 0)
  BY DEF SuggestionRecords
<1> HIDE DEF today
<1>11. today = <<>> <=> ofDay = <<>>
  <2>1. Len(ofDay) \in Nat /\ (ofDay = <<>> <=> Len(ofDay) = 0)
    BY <1>7
  <2> QED
    BY <1>2, <1>9, <1>10, <2>1
<1>12. CASE today # <<>>
  <2>1. ofDay # <<>> /\ records = today
    BY <1>11, <1>12
  <2>2. Len(ofDay) \in Nat /\ Len(ofDay) >= 1
    BY <1>7, <2>1
  <2>3. today[1].ts = ByTime(ofDay)[1].ts
    BY <1>2, <1>9, <2>2
  <2>4. ByTime(ofDay)[1] = LatestByTs(ofDay)
    BY <2>1 DEF LatestByTs
  <2>5. today[1].ts = newest.ts /\ newest # None
    BY <1>8, <2>1, <2>3, <2>4
  <2>6. today[1].ts = TimeOf(newest)
    BY <1>4, <2>5
  <2>7. ASSUME Len(ofDay) \in 1..RecordLimit PROVE ClosureLabel(today) = ClosureLabel(ofDay)
    <3>1. Len(today) = Len(ofDay)
      BY <1>2, <1>9, <2>2, <2>7
    <3>2. \A i \in 1..Len(ofDay) : ofDay[i].ts \in Int
      BY <1>7, RecordsAreTimed DEF Unparsed
    <3>3. /\ \A i \in 1..Len(ofDay) : \E n \in 1..Len(ofDay) : ByTime(ofDay)[n] = ofDay[i]
          /\ \A n \in 1..Len(ofDay) : \E i \in 1..Len(ofDay) : ByTime(ofDay)[n] = ofDay[i]
      BY <1>7, <3>2, ByTimeRanks
    <3>4. (\E i \in 1..Len(today) : today[i].scope = "cluster")
            <=> (\E i \in 1..Len(ofDay) : ofDay[i].scope = "cluster")
      <4>1. ASSUME NEW i \in 1..Len(ofDay), ofDay[i].scope = "cluster"
            PROVE  \E n \in 1..Len(today) : today[n].scope = "cluster"
        <5>1. PICK n \in 1..Len(ofDay) : ByTime(ofDay)[n] = ofDay[i]
          BY <3>3
        <5>2. n \in 1..Len(today) /\ today[n].scope = ByTime(ofDay)[n].scope
          BY <1>9, <3>1
        <5> QED
          BY <4>1, <5>1, <5>2
      <4>2. ASSUME NEW n \in 1..Len(today), today[n].scope = "cluster"
            PROVE  \E i \in 1..Len(ofDay) : ofDay[i].scope = "cluster"
        <5>1. n \in 1..Len(ofDay) /\ today[n].scope = ByTime(ofDay)[n].scope
          BY <1>9, <3>1
        <5>2. PICK i \in 1..Len(ofDay) : ByTime(ofDay)[n] = ofDay[i]
          BY <3>3, <5>1
        <5> QED
          BY <4>2, <5>1, <5>2
      <4> QED
        BY <4>1, <4>2
    <3> QED
      BY <1>12, <2>1, <3>4 DEF ClosureLabel
  <2> HIDE DEF newest, records
  <2> QED
    BY <1>1, <1>12, <2>1, <2>6, <2>7 DEF shot
<1>13. CASE today = <<>>
  <2>1. Len(ofDay) = 0
    BY <1>7, <1>11, <1>13
  <2>2. CASE newest = None
    <3>1. records = <<>> /\ TimeOf(newest) = Unparsed
      BY <1>13, <2>2 DEF TimeOf
    <3> HIDE DEF newest, records
    <3> QED
      BY <1>1, <1>2, <2>1, <3>1 DEF shot
  <2>3. CASE newest # None
    <3>1. records = one /\ newest \in Records /\ TimeOf(newest) = newest.ts
      BY <1>4, <1>13, <2>3
    <3> HIDE DEF newest
    <3>2. PICK q \in Seq(Records) : q = <<newest>>
      <4>1. <<newest>> \in Seq(Records)
        BY <3>1
      <4> QED
        BY <4>1
    <3>3. one = SuggestionRecords(q, al, 1) /\ Len(q) = 1 /\ q[1] = newest
      BY <3>2
    <3>4. Len(one) = 1 /\ one[1].ts = ByTime(q)[1].ts
      <4> DEFINE rows == SuggestionRecords(q, al, 1)
      <4>1. 1 \in Nat
        OBVIOUS
      <4>2. /\ Len(rows) = IF 1 <= Len(q) THEN 1 ELSE Len(q)
            /\ \A m \in 1..Len(rows) : rows[m].ts = ByTime(q)[m].ts
        BY <4>1, RowsAre
      <4> HIDE DEF rows, one
      <4>3. Len(rows) = 1
        BY <3>3, <4>2
      <4>4. rows[1].ts = ByTime(q)[1].ts
        <5>1. 1 \in 1..1
          OBVIOUS
        <5>2. 1 \in 1..Len(rows)
          BY <4>3, <5>1
        <5> QED
          BY <4>2, <5>2
      <4> QED
        BY <3>3, <4>3, <4>4 DEF rows
    <3>5. q[1].ts \in Int /\ \A i \in 1..Len(q) : q[i].ts \in Int
      BY <3>1, <3>3, RecordsAreTimed DEF Unparsed
    <3>6. ByTime(q)[1] = newest
      <4>1. \E i \in 1..Len(q) : ByTime(q)[1] = q[i]
        BY <3>3, <3>5, ByTimeRanks
      <4> QED
        BY <3>3, <4>1
    <3> HIDE DEF one, records
    <3>7. one # <<>> /\ one[1].ts = TimeOf(newest)
      <4>1. one # <<>>
        <5> SUFFICES ASSUME one = <<>> PROVE FALSE
          OBVIOUS
        <5>1. Len(<<>>) = 0
          OBVIOUS
        <5> QED
          BY <3>4, <5>1
      <4>2. one[1].ts = newest.ts
        BY <3>4, <3>6
      <4> QED
        BY <3>1, <4>1, <4>2
    <3> QED
      BY <1>1, <1>2, <2>1, <3>1, <3>7 DEF shot
  <2> QED
    BY <2>2, <2>3
<1> QED
  BY <1>12, <1>13

\* What is known of the newest is in the feed, of whatever kind.
LEMMA FeedShows ==
  ASSUME NEW al \in Seq(Alerts), NEW su \in Seq(Records), NEW rep, rep.raw \in Int
  PROVE  LET feed == Items(Feed(al, su, rep))
             a == TimeOf(LatestByTs(al))  s == TimeOf(LatestByTs(su)) IN
         /\ a # Unparsed => \E x \in feed : x.kind = "alert" /\ x.ts = a
         /\ s # Unparsed => \E x \in feed : x.kind = "suggestion" /\ x.ts = s
         /\ rep.raw # Unparsed => \E x \in feed : x.kind = "raw" /\ x.ts = rep.raw
<1> DEFINE a == Parsed(FirstOf(ByTime(al), PerKind))
           s == Parsed(FirstOf(ByTime(su), PerKind))
           sample == [id |-> <<"raw", rep.raw>>, ts |-> rep.raw, kind |-> "raw", scope |-> None]
           raw == When(rep.raw # Unparsed, <<sample>>)
           A == [i \in 1..Len(a) |-> FeedItem("alert", a[i], None)]
           S == [i \in 1..Len(s) |-> FeedItem("suggestion", s[i], s[i].scope)]
           X == {sample} \cup {A[i] : i \in 1..Len(a)} \cup {S[i] : i \in 1..Len(s)}
           top == FirstOf(ByTime(raw \o A \o S), FeedLimit)
           feed == WithRaw(top, raw)
<1>1. Feed(al, su, rep) = feed
  BY DEF Feed
<1>2. /\ \A x \in Alerts : x.ts \in Nat \cup {Unparsed}
      /\ \A x \in Records : x.ts \in Nat \cup {Unparsed}
  BY FeedAssumption, RecordsAreTimed DEF FeedAssumption
<1>3. /\ a \in Seq(Alerts) /\ Len(a) \in Nat /\ Len(a) <= PerKind
      /\ al # <<>> /\ LatestByTs(al).ts # Unparsed =>
           /\ \E n \in 1..Len(a) : a[n].ts = LatestByTs(al).ts
           /\ \A n \in 1..Len(a) : a[n].ts <= LatestByTs(al).ts
  BY <1>2, KindTaken
<1>4. /\ s \in Seq(Records) /\ Len(s) \in Nat /\ Len(s) <= PerKind
      /\ su # <<>> /\ LatestByTs(su).ts # Unparsed =>
           /\ \E n \in 1..Len(s) : s[n].ts = LatestByTs(su).ts
           /\ \A n \in 1..Len(s) : s[n].ts <= LatestByTs(su).ts
  BY <1>2, KindTaken
<1> HIDE DEF a, s
<1>5. /\ \A n \in 1..Len(a) : A[n].kind = "alert" /\ A[n].ts = a[n].ts /\ a[n].ts \in Int
      /\ \A n \in 1..Len(s) : S[n].kind = "suggestion" /\ S[n].ts = s[n].ts /\ s[n].ts \in Int
  BY <1>2, <1>3, <1>4 DEF FeedItem, Unparsed
<1>6. sample.ts = rep.raw /\ sample.kind = "raw"
  OBVIOUS
<1>7. A \in Seq(X) /\ Len(A) = Len(a)
  <2>1. \A n \in 1..Len(a) : A[n] \in X
    OBVIOUS
  <2>2. A = [n \in 1..Len(a) |-> A[n]]
    OBVIOUS
  <2> HIDE DEF A, X
  <2> QED
    BY <1>3, <2>1, <2>2
<1>8. S \in Seq(X) /\ Len(S) = Len(s)
  <2>1. \A n \in 1..Len(s) : S[n] \in X
    OBVIOUS
  <2>2. S = [n \in 1..Len(s) |-> S[n]]
    OBVIOUS
  <2> HIDE DEF S, X
  <2> QED
    BY <1>4, <2>1, <2>2
<1> HIDE DEF A, S, sample
<1>9. \A x \in X : x.ts \in Int
  BY <1>5, <1>6
<1>10. sample \in X
  OBVIOUS
<1> HIDE DEF X
<1>11. raw \in Seq(X) /\ Len(raw) <= 1
  <2>1. CASE rep.raw # Unparsed
    <3>1. raw = <<sample>>
      BY <2>1 DEF When
    <3> HIDE DEF raw
    <3> QED
      BY <1>10, <3>1
  <2>2. CASE rep.raw = Unparsed
    <3>1. raw = <<>>
      BY <2>2 DEF When
    <3> HIDE DEF raw
    <3> QED
      BY <3>1
  <2> QED
    BY <2>1, <2>2
<1>12. raw \o A \o S \in Seq(X)
  <2> HIDE DEF raw
  <2> QED
    BY <1>7, <1>8, <1>11
<1>13. top \in Seq(X)
  <2> DEFINE list == raw \o A \o S
  <2>1. list \in Seq(X)
    BY <1>12
  <2> HIDE DEF list
  <2>2. ByTime(list) \in Seq(X)
    BY <1>9, <2>1, ByTimeRanks
  <2>3. FirstOf(ByTime(list), FeedLimit) \in Seq(X)
    BY <2>2, FirstAre, FeedAssumption DEF FeedAssumption
  <2> QED
    BY <2>3 DEF list
<1>14. /\ \A n \in 1..Len(A) : (\A m \in 1..Len(A) : A[m].ts <= A[n].ts) =>
            \E m \in 1..Len(A) : A[m].ts = A[n].ts /\ A[m] \in Items(feed)
       /\ \A n \in 1..Len(S) : (\A m \in 1..Len(S) : S[m].ts <= S[n].ts) =>
            \E m \in 1..Len(S) : S[m].ts = S[n].ts /\ S[m] \in Items(feed)
  <2> HIDE DEF raw
  <2> QED
    BY <1>3, <1>4, <1>7, <1>8, <1>9, <1>11, BothShown
<1>15. ASSUME rep.raw # Unparsed
       PROVE  \E x \in Items(feed) : x.kind = "raw" /\ x.ts = rep.raw
  <2>1. raw = <<sample>>
    BY <1>15 DEF When
  <2> HIDE DEF raw, top
  <2>2. sample \in Items(feed)
    BY <1>10, <1>13, <2>1, RawIsShown
  <2> QED
    BY <1>6, <2>2
<1> HIDE DEF feed
<1>16. ASSUME NEW l, TimeOf(l) # Unparsed
       PROVE  l # None /\ l.ts # Unparsed /\ TimeOf(l) = l.ts
  BY <1>16 DEF TimeOf
<1>17. ASSUME TimeOf(LatestByTs(al)) # Unparsed
       PROVE  \E x \in Items(feed) : x.kind = "alert" /\ x.ts = TimeOf(LatestByTs(al))
  <2>1. LatestByTs(al).ts # Unparsed /\ TimeOf(LatestByTs(al)) = LatestByTs(al).ts
        /\ al # <<>>
    BY <1>16, <1>17 DEF LatestByTs
  <2>2. /\ \E n \in 1..Len(a) : a[n].ts = LatestByTs(al).ts
        /\ \A n \in 1..Len(a) : a[n].ts <= LatestByTs(al).ts
    BY <1>3, <2>1
  <2>3. PICK n \in 1..Len(A) : A[n].ts = LatestByTs(al).ts
    BY <1>5, <1>7, <2>2
  <2>4. \A m \in 1..Len(A) : A[m].ts <= A[n].ts
    BY <1>5, <1>7, <2>2, <2>3
  <2>5. PICK m \in 1..Len(A) : A[m].ts = A[n].ts /\ A[m] \in Items(feed)
    BY <1>14, <2>4
  <2> QED
    BY <1>5, <1>7, <2>1, <2>3, <2>5
<1>18. ASSUME TimeOf(LatestByTs(su)) # Unparsed
       PROVE  \E x \in Items(feed) : x.kind = "suggestion" /\ x.ts = TimeOf(LatestByTs(su))
  <2>1. LatestByTs(su).ts # Unparsed /\ TimeOf(LatestByTs(su)) = LatestByTs(su).ts
        /\ su # <<>>
    BY <1>16, <1>18 DEF LatestByTs
  <2>2. /\ \E n \in 1..Len(s) : s[n].ts = LatestByTs(su).ts
        /\ \A n \in 1..Len(s) : s[n].ts <= LatestByTs(su).ts
    BY <1>4, <2>1
  <2>3. PICK n \in 1..Len(S) : S[n].ts = LatestByTs(su).ts
    BY <1>5, <1>8, <2>2
  <2>4. \A m \in 1..Len(S) : S[m].ts <= S[n].ts
    BY <1>5, <1>8, <2>2, <2>3
  <2>5. PICK m \in 1..Len(S) : S[m].ts = S[n].ts /\ S[m] \in Items(feed)
    BY <1>14, <2>4
  <2> QED
    BY <1>5, <1>8, <2>1, <2>3, <2>5
<1> QED
  BY <1>1, <1>15, <1>17, <1>18

\* A line appended to the alert files leaves them alert files.
LEMMA AlertsAppended ==
  ASSUME NEW X, NEW files \in Seq(Seq(X)), NEW i \in 1..(Len(files) + 1), NEW line \in X
  PROVE  AppendTo(files, i, line) \in Seq(Seq(X))
<1>1. Len(files) \in Nat
  OBVIOUS
<1>2. CASE i > Len(files)
  <2>1. <<line>> \in Seq(X)
    OBVIOUS
  <2>2. Append(files, <<line>>) \in Seq(Seq(X))
    BY <2>1
  <2> QED
    BY <1>2, <2>2 DEF AppendTo
<1>3. CASE ~(i > Len(files))
  <2>1. i \in 1..Len(files)
    BY <1>1, <1>3
  <2>2. Append(files[i], line) \in Seq(X)
    BY <2>1
  <2>3. [files EXCEPT ![i] = Append(files[i], line)] \in Seq(Seq(X))
    BY <2>1, <2>2
  <2> QED
    BY <1>3, <2>3 DEF AppendTo
<1> QED
  BY <1>2, <1>3

\* A snapshot shows the newest of what it is made of.
ShowsNewest(shot, rep) ==
  /\ shot.suggestions = <<>> => shot.suggestionTs = Unparsed
  /\ shot.suggestions # <<>> => /\ shot.suggestions[1].ts = shot.suggestionTs
                                /\ shot.default = shot.suggestions[1].id
  /\ \A kind \in {"alert", "suggestion", "raw"} :
       LET newest == CASE kind = "alert" -> shot.alertTs
                       [] kind = "suggestion" -> shot.suggestionTs
                       [] OTHER -> rep.raw IN
       newest # Unparsed => \E i \in Items(shot.feed) : i.kind = kind /\ i.ts = newest
  /\ \/ shot.closure = shot.stages.agentScope
     \/ shot.volume[2] \notin 1..RecordLimit

\* Whatever it reads, the gateway makes such a snapshot.
LEMMA SnapshotShowsNewest ==
  ASSUME NEW al \in Seq(Alerts), NEW su \in Seq(Records),
         NEW rep, rep.ts \in Int, rep.raw \in Int, NEW clock \in Int
  PROVE  ShowsNewest(LoadSnapshot(al, su, rep, clock), rep)
<1> DEFINE shot == LoadSnapshot(al, su, rep, clock)
<1>1. /\ shot.suggestions = <<>> => shot.suggestionTs = Unparsed
      /\ shot.suggestions # <<>> => /\ shot.suggestions[1].ts = shot.suggestionTs
                                    /\ shot.default = shot.suggestions[1].id
      /\ shot.closure = shot.stages.agentScope \/ shot.volume[2] \notin 1..RecordLimit
  BY FirstIsNewest
<1>2. /\ shot.alertTs = TimeOf(LatestByTs(al)) /\ shot.suggestionTs = TimeOf(LatestByTs(su))
      /\ shot.feed = Feed(al, su, rep)
  BY DEF LoadSnapshot
<1> HIDE DEF shot
<1>3. /\ shot.alertTs # Unparsed =>
           \E x \in Items(shot.feed) : x.kind = "alert" /\ x.ts = shot.alertTs
      /\ shot.suggestionTs # Unparsed =>
           \E x \in Items(shot.feed) : x.kind = "suggestion" /\ x.ts = shot.suggestionTs
      /\ rep.raw # Unparsed =>
           \E x \in Items(shot.feed) : x.kind = "raw" /\ x.ts = rep.raw
  BY <1>2, FeedShows
<1>4. ASSUME NEW kind \in {"alert", "suggestion", "raw"}
      PROVE  LET newest == CASE kind = "alert" -> shot.alertTs
                             [] kind = "suggestion" -> shot.suggestionTs
                             [] OTHER -> rep.raw IN
             newest # Unparsed => \E i \in Items(shot.feed) : i.kind = kind /\ i.ts = newest
  BY <1>3
<1> QED
  BY <1>1, <1>4 DEF ShowsNewest, shot

\* What makes it inductive: the holder of the lock has read alerts of the files,
\* and the report and the clock have times.
NewestInv ==
  /\ alertFiles \in Seq(Seq(Alerts \cup {Torn}))
  /\ seen # None => seen \in Seq(Alerts)
  /\ report.ts \in Int /\ report.raw \in Int /\ now \in Int
  /\ cache # None => ShowsNewest(cache, report)

\* No alerts are also alerts.
LEMMA NewestInit ==
  ASSUME Init
  PROVE  NewestInv
<1>1. PICK s \in Scenarios : alertFiles = s.alerts /\ report = s.report /\ now = s.now
  BY DEF Init
<1>2. s.alerts \in Seq(Seq(Alerts \cup {Torn}))
  BY ScenarioAssumption DEF ScenarioAssumption
<1>3. s.report.ts \in Int /\ s.report.raw \in Int /\ s.now \in Int
  BY FeedAssumption DEF FeedAssumption
<1> QED
  BY <1>1, <1>2, <1>3 DEF Init, NewestInv

\* Only a load makes a snapshot, of what the files hold.
LEMMA NewestStep ==
  ASSUME MigrationInv, NewestInv, [Next]_vars
  PROVE  NewestInv'
<1>1. CASE UNCHANGED <<alertFiles, report, now>> /\ seen' \in {seen, None}
           /\ cache' \in {cache, None}
  BY <1>1 DEF NewestInv
<1>2. CASE AppendAlert
  <2>1. /\ coming.alerts # <<>> /\ coming.alerts \in Seq(Alerts)
        /\ UNCHANGED <<report, now, seen, cache>>
    BY <1>2 DEF AppendAlert, MigrationInv, cacheVars
  <2>2. Head(coming.alerts) \in Alerts \cup {Torn}
    BY <2>1
  <2>3. PICK i \in 1..(Len(alertFiles) + 1) :
          alertFiles' = AppendTo(alertFiles, i, Head(coming.alerts))
    BY <1>2 DEF AppendAlert
  <2>4. alertFiles' \in Seq(Seq(Alerts \cup {Torn}))
    BY <2>2, <2>3, AlertsAppended DEF NewestInv
  <2> QED
    BY <2>1, <2>4 DEF NewestInv
<1>3. CASE TearLine
  <2>1. UNCHANGED <<report, now, seen, cache>>
    BY <1>3 DEF TearLine, cacheVars
  <2>2. CASE alertFiles' = alertFiles
    BY <2>1, <2>2 DEF NewestInv
  <2>3. CASE alertFiles # <<>> /\ alertFiles' = AppendTo(alertFiles, Len(alertFiles), Torn)
    <3>1. Len(alertFiles) \in 1..(Len(alertFiles) + 1) /\ Torn \in Alerts \cup {Torn}
      BY <2>3 DEF NewestInv
    <3>2. alertFiles' \in Seq(Seq(Alerts \cup {Torn}))
      BY <2>3, <3>1, AlertsAppended DEF NewestInv
    <3> QED
      BY <2>1, <3>2 DEF NewestInv
  <2> QED
    BY <1>3, <2>2, <2>3 DEF TearLine
<1>4. CASE Midnight
  <2>1. UNCHANGED <<alertFiles, report, seen, cache>> /\ now' = (DayOf(now) + 1) * DayLength
    BY <1>4 DEF Midnight, cacheVars
  <2>2. now \in Int /\ now <= now
    BY DEF NewestInv
  <2>3. DayOf(now) \in Int /\ DayLength \in Nat
    BY <2>2, DaysFollow, FeedAssumption DEF FeedAssumption
  <2>4. now' \in Int
    BY <2>1, <2>3
  <2> QED
    BY <2>1, <2>4 DEF NewestInv
<1>5. CASE AppendSuggestion \/ MigrationStarts \/ MigrateRead \/ MigrateTruncate
           \/ MigrateWrite \/ MigrationDies
  BY <1>1, <1>5 DEF AppendSuggestion, MigrationStarts, MigrateRead, MigrateTruncate,
     MigrateWrite, MigrationDies, cacheVars
<1>6. CASE LoadAlerts
  <2>1. seen' = LoadRecentJsonl(alertFiles) /\ UNCHANGED <<alertFiles, report, now, cache>>
    BY <1>6 DEF LoadAlerts, fileVars
  <2>2. LoadRecentJsonl(alertFiles) \in Seq(Alerts)
    BY LoadedAreRecords DEF NewestInv
  <2> QED
    BY <2>1, <2>2 DEF NewestInv
<1>7. CASE LoadRest
  <2>1. /\ seen # None /\ cache' = Snapshot(seen) /\ seen' = None
        /\ UNCHANGED <<alertFiles, report, now>>
    BY <1>7 DEF LoadRest, fileVars
  <2>2. LoadRecentJsonl(suggestionFiles) \in Seq(Records)
    BY LoadedAreRecords DEF MigrationInv, MigrationOk, Lines
  <2>3. ShowsNewest(Snapshot(seen), report)
    BY <2>1, <2>2, SnapshotShowsNewest DEF NewestInv, Snapshot
  <2> QED
    BY <2>1, <2>3 DEF NewestInv
<1>8. CASE (\E r \in {"fetch", "stream"} : AnswerFromCache(r) \/ TakeLock(r)) \/ Expire
           \/ StreamWakes \/ GatewayStarts \/ ConnectionBreaks \/ GatewayDies
  BY <1>1, <1>8 DEF AnswerFromCache, TakeLock, Expire, StreamWakes, GatewayStarts,
     ConnectionBreaks, GatewayDies, CancelStream, fileVars, cacheVars
<1>9. CASE Hook
  BY <1>1, <1>9 DEF Hook, Mount, FetchArrives, FetchFails, RetryFires, EnvelopeArrives,
     OnError, HandshakeFires, Unmount, CancelStream, fileVars, cacheVars
<1>10. CASE UNCHANGED vars
  BY <1>1, <1>10 DEF vars, fileVars, cacheVars
<1> QED
  BY <1>2, <1>3, <1>4, <1>5, <1>6, <1>7, <1>8, <1>9, <1>10 DEF Next, Writers, Gateway

\* The gateway shows the newest: whatever the files hold, in whatever order of
\* time, and whatever torn lines, clocks, midnight and the migration do to them,
\* the suggestion listed first and selected is the newest, the feed has the
\* newest alert, suggestion and sample, and the panels agree on the scope.
THEOREM NewestShown == Spec => []NewestIsShown
<1>1. Init => MigrationInv
  BY MigrationInit
<1>2. Init => NewestInv
  BY NewestInit
<1>3. MigrationInv /\ NewestInv /\ [Next]_vars => (MigrationInv /\ NewestInv)'
  BY MigrationStep, NewestStep
<1>4. NewestInv => NewestIsShown
  BY DEF NewestInv, NewestIsShown, ShowsNewest
<1> QED
  BY <1>1, <1>2, <1>3, <1>4, PTL DEF Spec

=============================================================================
