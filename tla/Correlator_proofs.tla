------------------------- MODULE Correlator_proofs -------------------------
(***************************************************************************)
(* For any partitions, events, cache size and number of rebalances and     *)
(* crashes: the correlator's loop keeps its types, an event accepted twice *)
(* by one process was forgotten in between, the loop implements the offset *)
(* promise of OffsetLedger, and a committed record leaves a trace.         *)
(*                                                                         *)
(* For any events, keys, windows, thresholds and cooldown: the rule engine *)
(* keeps its types; the alerts of a key are at least one cooldown apart in *)
(* event time and in increasing order; an entity has at most one           *)
(* annotated-fault alert per run of a scenario; the window of a key is     *)
(* exact while its events come in order; and a burst is answered for by    *)
(* an alert whatever the order in which its events come.                   *)
(***************************************************************************)
EXTENDS Correlator, RuleEngine, ConsumerGroup_proofs, FiniteSetTheorems,
        WellFoundedInduction

-----------------------------------------------------------------------------
\* Types of what the loop owns.
LoopTypes ==
  /\ pc \in {"poll", "publish", "dlq", "commit"}
  /\ (pc = "poll") <=> (inHand = None)
  /\ left \in 0..MaxAlerts
  /\ (pc = "publish") <=> (left > 0)
  /\ alerts \subseteq Events \X (1..MaxAlerts)
  /\ dlq \subseteq Locations
  /\ outcome \subseteq Locations \X Hows
  /\ accepted \in Seq(Events)

\* The queue holds the last acceptances, all of them until it is full.
QueueIsLatest ==
  /\ Len(order) <= Len(accepted)
  /\ Len(order) < CacheSize => Len(order) = Len(accepted)
  /\ \A i \in 1..Len(order) : order[i] = accepted[Len(accepted) - Len(order) + i]

GateInv == GateTypeOK /\ GateConsistent /\ QueueIsLatest /\ DedupWindow

\* The record at a location.
RecordAt(l) == log[l[1]][l[2]]

\* What is left of an event whose handling has ended somewhere.
Traced(e) ==
  \/ <<e, 1>> \in alerts
  \/ \E x \in outcome : /\ RecordAt(x[1]) = e
                        /\ x[1] \in dlq \/ x[2] \in {"quiet", "abandoned"}

\* A handling ends where a record is, and how it ended says what it left.
Placed(x) == x[1][1] \in Partitions /\ x[1][2] \in 1..Len(log[x[1][1]])

Explained(x) ==
  /\ x[2] = "invalid" => RecordAt(x[1]) = Invalid
  /\ x[2] \in {"duplicate", "published"} => RecordAt(x[1]) \in Events /\ Traced(RecordAt(x[1]))
  /\ x[2] = "quiet" => RecordAt(x[1]) \in Events
  /\ x[2] = "dlq" => x[1] \in dlq

OutcomesHold == \A x \in outcome : Placed(x) /\ Explained(x)

\* An event in the gate's memory is being handled or was handled to an end.
AcceptedEnds ==
  \A i \in 1..Len(accepted) :
    \/ Traced(accepted[i])
    \/ pc \in {"publish", "dlq"} /\ accepted[i] = Current

\* Only an event is published, and a handling that only has to commit has ended.
HandInv ==
  /\ pc = "publish" => Current \in Events
  /\ pc = "commit" => Here \in Settled

LoopInv ==
  GroupInv /\ LoopTypes /\ GateInv /\ OutcomesHold /\ AcceptedEnds /\ HandInv

-----------------------------------------------------------------------------
\* The gate.

\* An empty memory agrees with an empty history.
LEMMA EmptyGate ==
  ASSUME seen = {}, order = <<>>, accepted = <<>>
  PROVE  GateInv
<1>1. Len(order) = 0 /\ Len(accepted) = 0 /\ order \in Seq(Events)
  OBVIOUS
<1>2. QED
  BY <1>1, CacheAssumption
     DEF CacheAssumption, GateInv, GateTypeOK, GateConsistent, QueueIsLatest,
         DedupWindow

\* What the gate remembers was accepted.
LEMMA SeenWasAccepted ==
  ASSUME GateInv, accepted \in Seq(Events), NEW e \in seen
  PROVE  e \in Events /\ \E i \in 1..Len(accepted) : accepted[i] = e
<1>1. PICK i \in 1..Len(order) : order[i] = e
  BY DEF GateInv, GateConsistent
<1>2. Len(order) \in Nat /\ Len(accepted) \in Nat /\ Len(order) <= Len(accepted)
  BY DEF GateInv, GateTypeOK, QueueIsLatest
<1>3. Len(accepted) - Len(order) + i \in 1..Len(accepted)
  BY <1>2
<1>4. accepted[Len(accepted) - Len(order) + i] = e
  BY <1>1 DEF GateInv, QueueIsLatest
<1>5. QED
  BY <1>3, <1>4 DEF GateInv, GateTypeOK

\* Remembering a new event keeps set, queue and history in step.
LEMMA RememberKeeps ==
  ASSUME GateInv, accepted \in Seq(Events), NEW e \in Events \ seen,
         Remember(e), accepted' = Append(accepted, e)
  PROVE  GateInv'
<1> DEFINE m == Len(order)
           n == Len(accepted)
<1>1. /\ order \in Seq(Events) /\ seen \subseteq Events
      /\ m \in Nat /\ n \in Nat /\ m <= CacheSize /\ m <= n
      /\ CacheSize \in Nat \ {0}
      /\ m < CacheSize => m = n
      /\ \A i \in 1..m : order[i] = accepted[n - m + i]
      /\ seen = {order[i] : i \in 1..m}
      /\ \A i, j \in 1..m : order[i] = order[j] => i = j
  BY CacheAssumption
     DEF CacheAssumption, GateInv, GateTypeOK, GateConsistent, QueueIsLatest
<1>2. /\ accepted' \in Seq(Events) /\ Len(accepted') = n + 1
      /\ \A i \in 1..n : accepted'[i] = accepted[i]
      /\ accepted'[n + 1] = e
  OBVIOUS
<1>3. ASSUME NEW i \in 1..n, accepted[i] = e
      PROVE  n + 1 - i > CacheSize
  <2>1. i <= n - m
    <3> SUFFICES ASSUME i > n - m
                 PROVE  FALSE
      BY <1>1
    <3>1. i - (n - m) \in 1..m
      BY <1>1
    <3>2. order[i - (n - m)] = accepted[n - m + (i - (n - m))]
      BY <1>1, <3>1
    <3>3. n - m + (i - (n - m)) = i
      BY <1>1
    <3>4. e \in seen
      BY <1>1, <1>3, <3>1, <3>2, <3>3
    <3>5. QED
      BY <3>4
  <2>2. QED
    BY <1>1, <2>1
<1>4. DedupWindow'
  <2> SUFFICES ASSUME NEW i \in 1..(n + 1), NEW j \in 1..(n + 1),
                      i < j, accepted'[i] = accepted'[j]
               PROVE  j - i > CacheSize
    BY <1>2 DEF DedupWindow
  <2>1. i \in 1..n
    BY <1>1
  <2>2. CASE j \in 1..n
    BY <1>2, <2>1, <2>2 DEF GateInv, DedupWindow
  <2>3. CASE j = n + 1
    BY <1>2, <1>3, <2>1, <2>3
  <2>4. QED
    BY <2>2, <2>3, <1>1
<1>5. CASE m < CacheSize
  <2>1. /\ order' = Append(order, e) /\ seen' = seen \cup {e}
    BY <1>5 DEF Remember
  <2>a. /\ order' \in Seq(Events) /\ Len(order') = m + 1
        /\ \A i \in 1..m : order'[i] = order[i]
        /\ order'[m + 1] = e
    BY <1>1, <2>1
  <2>2. GateTypeOK'
    BY <1>1, <2>1, <2>a DEF GateTypeOK
  <2>3. GateConsistent'
    <3>1. seen' = {order'[i] : i \in 1..(m + 1)}
      BY <1>1, <2>1, <2>a
    <3>2. \A i, j \in 1..(m + 1) : order'[i] = order'[j] => i = j
      BY <1>1, <2>a
    <3>3. QED
      BY <1>1, <1>5, <2>a, <3>1, <3>2 DEF GateConsistent
  <2>4. QueueIsLatest'
    <3>1. m = n /\ Len(accepted') = Len(order')
      BY <1>1, <1>2, <1>5, <2>a
    <3>2. ASSUME NEW i \in 1..Len(order')
          PROVE  order'[i] = accepted'[i]
      <4>1. CASE i \in 1..m
        <5>1. order[i] = accepted[n - m + i] /\ n - m + i = i
          BY <1>1, <3>1, <4>1
        <5>2. QED
          BY <1>2, <2>a, <3>1, <4>1, <5>1
      <4>2. CASE i = m + 1
        BY <1>2, <2>a, <3>1, <4>2
      <4>3. QED
        BY <1>1, <2>a, <3>2, <4>1, <4>2
    <3>3. \A i \in 1..Len(order') :
            order'[i] = accepted'[Len(accepted') - Len(order') + i]
      <4> SUFFICES ASSUME NEW i \in 1..Len(order')
                   PROVE  order'[i] = accepted'[Len(accepted') - Len(order') + i]
        OBVIOUS
      <4>1. Len(accepted') - Len(order') + i = i
        BY <1>1, <2>a, <3>1
      <4>2. QED
        BY <3>2, <4>1
    <3>4. Len(order') <= Len(accepted')
      BY <1>1, <2>a, <3>1
    <3>5. QED
      BY <3>1, <3>3, <3>4 DEF QueueIsLatest
  <2>5. QED
    BY <1>4, <2>2, <2>3, <2>4 DEF GateInv
<1>6. CASE m = CacheSize
  <2>1. /\ order' = Append(Tail(order), e)
        /\ seen' = (seen \cup {e}) \ {Head(order)}
        /\ order # <<>>
    BY <1>1, <1>6 DEF Remember
  <2>2. /\ Tail(order) \in Seq(Events) /\ Len(Tail(order)) = m - 1
        /\ \A i \in 1..(m - 1) : Tail(order)[i] = order[i + 1]
        /\ Head(order) = order[1]
    BY <1>1, <1>6, <2>1
  <2>3. /\ order' \in Seq(Events) /\ Len(order') = m
        /\ \A i \in 1..(m - 1) : order'[i] = order[i + 1]
        /\ order'[m] = e
    BY <1>1, <1>6, <2>1, <2>2
  <2>4. GateTypeOK'
    BY <1>1, <2>1, <2>3 DEF GateTypeOK
  <2>5. GateConsistent'
    <3>1. ASSUME NEW x \in seen'
          PROVE  \E i \in 1..m : order'[i] = x
      <4>1. CASE x = e
        BY <1>1, <1>6, <2>3, <4>1
      <4>2. CASE x # e
        <5>1. PICK i \in 1..m : order[i] = x
          BY <1>1, <2>1, <4>2
        <5>2. i # 1
          BY <2>1, <2>2, <5>1, <3>1
        <5>3. i - 1 \in 1..(m - 1) /\ (i - 1) + 1 = i
          BY <1>1, <5>2
        <5>4. order'[i - 1] = x /\ i - 1 \in 1..m
          BY <1>1, <2>3, <5>1, <5>3
        <5>5. QED
          BY <5>4
      <4>3. QED
        BY <4>1, <4>2
    <3>2. ASSUME NEW i \in 1..m
          PROVE  order'[i] \in seen'
      <4>1. CASE i = m
        <5>1. e # order[1]
          BY <1>1, <1>6
        <5>2. QED
          BY <2>1, <2>2, <2>3, <4>1, <5>1
      <4>2. CASE i < m
        <5>1. /\ i \in 1..(m - 1) /\ i + 1 \in 1..m /\ 1 \in 1..m /\ i + 1 # 1
          BY <1>1, <4>2
        <5>2. order'[i] = order[i + 1] /\ order[i + 1] # order[1]
          BY <1>1, <2>3, <5>1
        <5>3. order[i + 1] \in seen
          BY <1>1, <5>1
        <5>4. QED
          BY <2>1, <2>2, <5>2, <5>3
      <4>3. QED
        BY <1>1, <4>1, <4>2
    <3>3. seen' = {order'[i] : i \in 1..m}
      BY <3>1, <3>2
    <3>4. ASSUME NEW i \in 1..m, NEW j \in 1..m, order'[i] = order'[j]
          PROVE  i = j
      <4>1. ASSUME NEW k \in 1..(m - 1)
            PROVE  order'[k] = order[k + 1] /\ k + 1 \in 1..m /\ order'[k] # e
        <5>1. order'[k] = order[k + 1] /\ k + 1 \in 1..m
          BY <1>1, <2>3
        <5>2. order[k + 1] \in seen
          BY <1>1, <5>1
        <5>3. QED
          BY <5>1, <5>2
      <4>2. CASE i < m /\ j < m
        <5>1. i \in 1..(m - 1) /\ j \in 1..(m - 1)
          BY <1>1, <4>2
        <5>2. order[i + 1] = order[j + 1] /\ i + 1 \in 1..m /\ j + 1 \in 1..m
          BY <3>4, <4>1, <5>1
        <5>3. i + 1 = j + 1
          BY <1>1, <5>2
        <5>4. QED
          BY <5>3
      <4>3. CASE i = m /\ j < m
        BY <1>1, <2>3, <3>4, <4>1, <4>3
      <4>4. CASE i < m /\ j = m
        BY <1>1, <2>3, <3>4, <4>1, <4>4
      <4>5. QED
        BY <1>1, <4>2, <4>3, <4>4
    <3>5. QED
      BY <1>1, <2>3, <3>3, <3>4 DEF GateConsistent
  <2>6. QueueIsLatest'
    <3>1. ASSUME NEW i \in 1..m
          PROVE  order'[i] = accepted'[n + 1 - m + i]
      <4>1. CASE i = m
        BY <1>1, <1>2, <2>3, <4>1
      <4>2. CASE i < m
        <5>1. i \in 1..(m - 1) /\ i + 1 \in 1..m /\ n - m + (i + 1) \in 1..n
          BY <1>1, <4>2
        <5>2. order'[i] = accepted[n - m + (i + 1)]
          BY <1>1, <2>3, <5>1
        <5>3. n - m + (i + 1) = n + 1 - m + i
          BY <1>1
        <5>4. QED
          BY <1>2, <5>1, <5>2, <5>3
      <4>3. QED
        BY <1>1, <4>1, <4>2
    <3>2. QED
      <4>1. /\ Len(order') = m /\ Len(accepted') = n + 1
            /\ Len(order') <= Len(accepted')
            /\ ~(Len(order') < CacheSize)
        BY <1>1, <1>2, <1>6, <2>3
      <4>2. \A i \in 1..Len(order') :
              order'[i] = accepted'[Len(accepted') - Len(order') + i]
        BY <3>1, <4>1
      <4>3. QED
        BY <4>1, <4>2 DEF QueueIsLatest
  <2>7. QED
    BY <1>4, <2>4, <2>5, <2>6 DEF GateInv
<1>7. QED
  BY <1>1, <1>5, <1>6

-----------------------------------------------------------------------------
\* The loop.

\* First components of a union.
LEMMA SetOfFirsts ==
  ASSUME NEW S, NEW T
  PROVE  {x[1] : x \in S \cup T} = {x[1] : x \in S} \cup {x[1] : x \in T}
OBVIOUS

\* Recording how a handling ended settles its location.
LEMMA EndingSettles ==
  ASSUME NEW loc, NEW how, EndsAs(loc, how)
  PROVE  Settled' = Settled \cup {loc}
<1>1. Settled' = {z[1] : z \in outcome \cup {<<loc, how>>}}
  BY DEF Settled, EndsAs
<1>2. {z[1] : z \in {<<loc, how>>}} = {loc}
  BY <<loc, how>>[1] = loc
<1>3. QED
  BY <1>1, <1>2, SetOfFirsts DEF Settled

\* What a resumption leaves settled.
LEMMA SkipSettles ==
  ASSUME LoopInv, Skip
  PROVE  /\ outcome \subseteq outcome'
         /\ Settled' = Settled \cup ResumeSkips
         /\ \A x \in outcome' \ outcome : x \in ResumeSkips \X {"skipped"}
<1> DEFINE fresh == {l \in ResumeSkips : \A how \in Hows : <<l, how>> \notin outcome}
<1> DEFINE added == {<<l, "skipped">> : l \in fresh}
<1>1. outcome' = outcome \cup added
  BY DEF Skip
<1>2. outcome \subseteq Locations \X Hows
  BY DEF LoopInv, LoopTypes
<1>3. Settled' = Settled \cup fresh
  <2>1. Settled' = {z[1] : z \in outcome \cup added}
    BY <1>1 DEF Settled
  <2>2. {z[1] : z \in added} = fresh
    <3>1. \A l \in fresh : <<l, "skipped">> \in added /\ <<l, "skipped">>[1] = l
      OBVIOUS
    <3>2. \A z \in added : z[1] \in fresh
      OBVIOUS
    <3>3. QED
      BY <3>1, <3>2
  <2>3. QED
    BY <2>1, <2>2, SetOfFirsts DEF Settled
<1>4. ResumeSkips \subseteq Settled \cup fresh
  <2> SUFFICES ASSUME NEW l \in ResumeSkips, l \notin fresh
               PROVE  l \in Settled
    OBVIOUS
  <2>1. PICK how \in Hows : <<l, how>> \in outcome
    OBVIOUS
  <2>2. <<l, how>>[1] = l
    OBVIOUS
  <2>3. QED
    BY <2>1, <2>2 DEF Settled
<1>5. fresh \subseteq Settled' /\ fresh \subseteq ResumeSkips
  BY <1>3
<1>6. QED
  BY <1>1, <1>3, <1>4, <1>5

\* What was left stays left, and what was said of it stays true, while the
\* topics, the log and the history of outcomes only grow.
LEMMA TracesStay ==
  ASSUME LoopInv,
         \A q \in Partitions : /\ Len(log'[q]) \in Nat
                               /\ Len(log[q]) <= Len(log'[q])
                               /\ \A n \in 1..Len(log[q]) : log'[q][n] = log[q][n],
         outcome \subseteq outcome', alerts \subseteq alerts', dlq \subseteq dlq'
  PROVE  /\ \A e : Traced(e) => Traced(e)'
         /\ \A x \in outcome : Placed(x)' /\ Explained(x)' /\ RecordAt(x[1])' = RecordAt(x[1])
<1>1. ASSUME NEW x \in outcome
      PROVE  Placed(x) /\ Placed(x)' /\ RecordAt(x[1])' = RecordAt(x[1])
  <2>1. Placed(x)
    BY DEF LoopInv, OutcomesHold
  <2>2. Len(log[x[1][1]]) \in Nat
    BY <2>1, GroupRange DEF LoopInv, Placed
  <2>3. QED
    BY <2>1, <2>2 DEF Placed, RecordAt
<1>2. ASSUME NEW e, Traced(e)
      PROVE  Traced(e)'
  <2>1. CASE <<e, 1>> \in alerts
    BY <2>1 DEF Traced
  <2>2. CASE <<e, 1>> \notin alerts
    <3>1. PICK x \in outcome : /\ RecordAt(x[1]) = e
                               /\ x[1] \in dlq \/ x[2] \in {"quiet", "abandoned"}
      BY <1>2, <2>2 DEF Traced
    <3>2. x \in outcome' /\ RecordAt(x[1])' = e
      BY <1>1, <3>1
    <3>3. x[1] \in dlq' \/ x[2] \in {"quiet", "abandoned"}
      BY <3>1
    <3>4. QED
      BY <3>2, <3>3 DEF Traced
  <2>3. QED
    BY <2>1, <2>2
<1>3. ASSUME NEW x \in outcome
      PROVE  Explained(x)'
  <2>1. Explained(x)
    BY DEF LoopInv, OutcomesHold
  <2>2. Traced(RecordAt(x[1])) => Traced(RecordAt(x[1]))'
    BY <1>1, <1>2 DEF Traced
  <2>3. QED
    BY <1>1, <2>1, <2>2 DEF Explained
<1>4. QED
  BY <1>1, <1>2, <1>3

\* The correlator starts within its invariant.
LEMMA LoopInit == Init => LoopInv
<1> SUFFICES ASSUME Init
             PROVE  LoopInv
  OBVIOUS
<1>1. GroupInv
  BY GroupStart DEF Init
<1>2. LoopTypes
  BY CorrelatorAssumption
     DEF CorrelatorAssumption, Init, GroupInit, LoopTypes
<1>3. GateInv
  BY EmptyGate DEF Init, GateInit
<1>4. OutcomesHold /\ AcceptedEnds /\ HandInv
  BY DEF Init, OutcomesHold, AcceptedEnds, HandInv
<1>5. QED
  BY <1>1, <1>2, <1>3, <1>4 DEF LoopInv

\* The record in hand is at its place.
LEMMA InHandIsPlaced ==
  ASSUME LoopInv, inHand # None, NEW how
  PROVE  Here \in Locations /\ Placed(<<Here, how>>) /\ RecordAt(Here) = Current
BY HereIsLocation DEF LoopInv, Placed, RecordAt, Here, Current

\* So is the record that is taken, which begins a handling of its own.
LEMMA PollIsPlaced ==
  ASSUME LoopInv, NEW p \in Partitions, Poll(p), NEW loc, loc = NextLocation(p),
         NEW how
  PROVE  /\ pc = "poll" /\ left = 0 /\ loc \in Locations
         /\ \A i \in 1..Len(accepted) : Traced(accepted[i])
         /\ Placed(<<loc, how>>)' /\ RecordAt(loc)' = Upcoming(p)
         /\ Here' = loc /\ Current' = Upcoming(p)
<1>1. pc = "poll" /\ left = 0
  BY DEF Poll, LoopInv, LoopTypes
<1>2. /\ position[p] + 1 \in 1..Len(log[p])
      /\ log' = log
  BY GroupRange DEF LoopInv, Poll
<1>3. Placed(<<loc, how>>)' /\ RecordAt(loc)' = Upcoming(p)
  BY <1>2 DEF Placed, RecordAt, NextLocation, Upcoming
<1>4. QED
  BY <1>1, <1>3, PollKeeps DEF LoopInv, AcceptedEnds, NextLocation

\* While the log stays, what is in it stays.
LEMMA LogStays ==
  ASSUME LoopInv, log' = log
  PROVE  \A q \in Partitions : /\ Len(log'[q]) \in Nat
                               /\ Len(log[q]) <= Len(log'[q])
                               /\ \A n \in 1..Len(log[q]) : log'[q][n] = log[q][n]
BY GroupRange DEF LoopInv

\* A new record in the topic disturbs nothing the correlator holds.
LEMMA RawStep ==
  ASSUME LoopInv, NEW p \in Partitions, NEW r \in Records, RawRecord(p, r)
  PROVE  LoopInv' /\ Settled' = Settled
<1>1. Produce(p, r) /\ UNCHANGED <<gateVars, ownVars>> /\ GroupInv
  BY DEF RawRecord, LoopInv
<1>2. /\ GroupInv'
      /\ \A q \in Partitions :
           Len(log'[q]) = IF q = p THEN Len(log[q]) + 1 ELSE Len(log[q])
      /\ \A q \in Partitions : \A n \in 1..Len(log[q]) : log'[q][n] = log[q][n]
  BY <1>1, ProduceKeeps
<1>3. \A q \in Partitions : /\ Len(log'[q]) \in Nat
                            /\ Len(log[q]) <= Len(log'[q])
                            /\ \A n \in 1..Len(log[q]) : log'[q][n] = log[q][n]
  <2>1. \A q \in Partitions : Len(log[q]) \in Nat
    BY <1>1, GroupRange
  <2>2. QED
    BY <1>2, <2>1
<1>4. /\ \A e : Traced(e) => Traced(e)'
      /\ \A x \in outcome : Placed(x)' /\ Explained(x)'
  BY <1>1, <1>3, TracesStay DEF ownVars
<1>5. Settled' = Settled /\ UNCHANGED <<position, inHand>>
  BY <1>1 DEF ownVars, Settled, Produce
<1>6. pc # "poll" => Current' = Current /\ Here' = Here
  <2>1. ASSUME pc # "poll"
        PROVE  inHand \in Partitions /\ position[inHand] \in 1..Len(log[inHand])
    BY <1>1, <2>1, HereIsLocation DEF LoopInv, LoopTypes
  <2>2. QED
    BY <1>2, <1>5, <2>1 DEF Current, Here
<1>7. LoopTypes' /\ GateInv'
  BY <1>1, <1>5
     DEF LoopInv, LoopTypes, GateInv, GateTypeOK, GateConsistent, QueueIsLatest,
         DedupWindow, ownVars, gateVars
<1>8. OutcomesHold'
  BY <1>1, <1>4 DEF OutcomesHold, ownVars
<1>9. AcceptedEnds'
  BY <1>1, <1>4, <1>6 DEF LoopInv, AcceptedEnds, ownVars
<1>10. HandInv'
  BY <1>1, <1>5, <1>6 DEF LoopInv, HandInv, ownVars
<1>11. QED
  BY <1>2, <1>5, <1>7, <1>8, <1>9, <1>10 DEF LoopInv

\* A record that is not JSON goes to the dead letter topic first.
LEMMA TakeJunkStep ==
  ASSUME LoopInv, NEW p \in Partitions, TakeJunk(p)
  PROVE  LoopInv' /\ Settled' = Settled
<1>1. /\ Poll(p) /\ log' = log /\ pc' = "dlq" /\ inHand' # None
      /\ UNCHANGED <<gateVars, left, alerts, dlq, outcome, accepted>>
  BY PollKeeps DEF TakeJunk, LoopInv
<1>2. GroupInv' /\ pc = "poll" /\ left = 0
  BY <1>1, PollKeeps, PollIsPlaced DEF LoopInv
<1>3. /\ \A e : Traced(e) => Traced(e)'
      /\ \A x \in outcome : Placed(x)' /\ Explained(x)'
  BY <1>1, LogStays, TracesStay
<1>4. LoopTypes'
  BY <1>1, <1>2 DEF LoopInv, LoopTypes
<1>5. GateInv'
  BY <1>1 DEF LoopInv, GateInv, GateTypeOK, GateConsistent, QueueIsLatest,
              DedupWindow, gateVars
<1>6. OutcomesHold' /\ HandInv'
  BY <1>1, <1>3 DEF OutcomesHold, HandInv
<1>7. AcceptedEnds'
  BY <1>1, <1>3, PollIsPlaced DEF AcceptedEnds
<1>8. QED
  BY <1>1, <1>2, <1>4, <1>5, <1>6, <1>7 DEF LoopInv, Settled

\* A rejected record settles its place and leaves the gate alone.
LEMMA RejectStep ==
  ASSUME LoopInv, NEW p \in Partitions, RejectInvalid(p) \/ RejectDuplicate(p)
  PROVE  LoopInv' /\ Settled' = Settled \cup {NextLocation(p)}
<1>a. PICK loc : loc = NextLocation(p)
  OBVIOUS
<1>1. PICK how \in {"invalid", "duplicate"} :
        /\ EndsAs(loc, how)
        /\ how = "invalid" => Upcoming(p) = Invalid
        /\ how = "duplicate" => Upcoming(p) \in seen
  BY <1>a DEF RejectInvalid, RejectDuplicate
<1>2. /\ Poll(p) /\ log' = log /\ pc' = "commit" /\ inHand' # None
      /\ UNCHANGED <<gateVars, left, alerts, dlq, accepted>>
  BY PollKeeps DEF RejectInvalid, RejectDuplicate, LoopInv
<1>3. GroupInv'
  BY <1>2, PollKeeps DEF LoopInv
<1>4. /\ pc = "poll" /\ left = 0 /\ loc \in Locations
      /\ \A i \in 1..Len(accepted) : Traced(accepted[i])
      /\ Placed(<<loc, how>>)' /\ RecordAt(loc)' = Upcoming(p) /\ Here' = loc
  BY <1>2, <1>a, PollIsPlaced
<1>5. outcome' = outcome \cup {<<loc, how>>} /\ Settled' = Settled \cup {loc}
  BY <1>1, EndingSettles DEF EndsAs
<1>6. /\ \A e : Traced(e) => Traced(e)'
      /\ \A x \in outcome : Placed(x)' /\ Explained(x)'
  BY <1>2, <1>5, LogStays, TracesStay
<1>7. Explained(<<loc, how>>)'
  <2>1. <<loc, how>>[1] = loc /\ <<loc, how>>[2] = how
    OBVIOUS
  <2>2. CASE how = "invalid"
    BY <1>1, <1>4, <2>1, <2>2 DEF Explained
  <2>3. CASE how = "duplicate"
    <3>1. PICK i \in 1..Len(accepted) : accepted[i] = Upcoming(p)
      BY <1>1, <2>3, SeenWasAccepted DEF LoopInv, LoopTypes
    <3>2. Upcoming(p) \in Events /\ Traced(Upcoming(p))
      BY <1>1, <1>4, <2>3, <3>1, SeenWasAccepted DEF LoopInv, LoopTypes
    <3>3. Traced(RecordAt(loc))'
      BY <1>4, <1>6, <3>2 DEF Traced
    <3>4. QED
      BY <1>4, <2>1, <2>3, <3>2, <3>3 DEF Explained
  <2>4. QED
    BY <2>2, <2>3
<1>8. OutcomesHold'
  BY <1>4, <1>5, <1>6, <1>7 DEF OutcomesHold
<1>9. LoopTypes'
  BY <1>2, <1>4, <1>5 DEF LoopInv, LoopTypes, Hows
<1>10. GateInv'
  BY <1>2 DEF LoopInv, GateInv, GateTypeOK, GateConsistent, QueueIsLatest,
              DedupWindow, gateVars
<1>11. AcceptedEnds' /\ HandInv'
  BY <1>2, <1>4, <1>5, <1>6 DEF AcceptedEnds, HandInv
<1>12. QED
  BY <1>3, <1>5, <1>8, <1>9, <1>10, <1>11, <1>a DEF LoopInv

\* An accepted event is remembered before anything is done about it.
LEMMA AcceptStep ==
  ASSUME LoopInv, NEW p \in Partitions, Accept(p)
  PROVE  /\ LoopInv'
         /\ \/ Settled' = Settled
            \/ Settled' = Settled \cup {NextLocation(p)}
<1>a. PICK loc : loc = NextLocation(p)
  OBVIOUS
<1>b. PICK e : e = Upcoming(p)
  OBVIOUS
<1>1. /\ Poll(p) /\ e \in Events \ seen /\ Remember(e)
      /\ accepted' = Append(accepted, e)
      /\ \/ pc' = "dlq" /\ UNCHANGED <<left, outcome>>
         \/ pc' = "commit" /\ EndsAs(loc, "quiet") /\ UNCHANGED left
         \/ left' \in 1..MaxAlerts /\ pc' = "publish" /\ UNCHANGED outcome
      /\ UNCHANGED <<alerts, dlq>>
  BY <1>a, <1>b DEF Accept
<1>2. GroupInv' /\ inHand' # None /\ log' = log
  BY <1>1, PollKeeps DEF LoopInv
<1>3. /\ pc = "poll" /\ left = 0 /\ loc \in Locations
      /\ \A i \in 1..Len(accepted) : Traced(accepted[i])
      /\ Placed(<<loc, "quiet">>)' /\ RecordAt(loc)' = e
      /\ Here' = loc /\ Current' = e
  BY <1>1, <1>a, <1>b, PollIsPlaced
<1>4. accepted \in Seq(Events) /\ GateInv /\ accepted' \in Seq(Events)
  BY <1>1 DEF LoopInv, LoopTypes
<1>5. GateInv'
  BY <1>1, <1>4, RememberKeeps
<1>6. outcome' = outcome \/ outcome' = outcome \cup {<<loc, "quiet">>}
  BY <1>1 DEF EndsAs
<1>7. /\ \A d : Traced(d) => Traced(d)'
      /\ \A x \in outcome : Placed(x)' /\ Explained(x)'
  BY <1>1, <1>2, <1>6, LogStays, TracesStay
<1>8. pc' = "commit" => Settled' = Settled \cup {loc} /\ Traced(e)'
  <2> SUFFICES ASSUME pc' = "commit"
               PROVE  Settled' = Settled \cup {loc} /\ Traced(e)'
    OBVIOUS
  <2>1. EndsAs(loc, "quiet")
    BY <1>1
  <2>2. <<loc, "quiet">> \in outcome'
    BY <2>1 DEF EndsAs
  <2>3. <<loc, "quiet">>[1] = loc /\ <<loc, "quiet">>[2] = "quiet"
    OBVIOUS
  <2>4. Traced(e)'
    BY <1>3, <2>2, <2>3 DEF Traced
  <2>5. QED
    BY <2>1, <2>4, EndingSettles
<1>9. Explained(<<loc, "quiet">>)'
  BY <1>1, <1>3 DEF Explained
<1>10. OutcomesHold'
  BY <1>3, <1>6, <1>7, <1>9 DEF OutcomesHold
<1>11. LoopTypes'
  <2>1. outcome' \subseteq Locations \X Hows
    BY <1>3, <1>6 DEF LoopInv, LoopTypes, Hows
  <2>2. left' \in 0..MaxAlerts /\ (pc' = "publish" <=> left' > 0)
    BY <1>1, <1>3, CorrelatorAssumption DEF CorrelatorAssumption
  <2>3. QED
    BY <1>1, <1>2, <1>4, <2>1, <2>2 DEF LoopInv, LoopTypes
<1>12. AcceptedEnds'
  <2> SUFFICES ASSUME NEW i \in 1..Len(accepted')
               PROVE  \/ Traced(accepted[i])'
                      \/ pc' \in {"publish", "dlq"} /\ accepted'[i] = Current'
    BY DEF AcceptedEnds
  <2>1. CASE i \in 1..Len(accepted)
    <3>1. PICK d : d = accepted[i]
      OBVIOUS
    <3>2. accepted'[i] = d /\ Traced(d)
      BY <1>1, <1>3, <1>4, <2>1, <3>1
    <3>3. Traced(d)'
      BY <1>7, <3>2
    <3>4. QED
      BY <3>2, <3>3 DEF Traced
  <2>2. CASE i = Len(accepted) + 1
    <3>1. accepted'[i] = e
      BY <1>1, <1>4, <2>2
    <3>2. CASE pc' = "commit"
      BY <1>8, <3>1, <3>2 DEF Traced
    <3>3. CASE pc' # "commit"
      BY <1>1, <1>3, <3>1, <3>3
    <3>4. QED
      BY <3>2, <3>3
  <2>3. QED
    BY <1>1, <1>4, <2>1, <2>2
<1>13. HandInv'
  BY <1>1, <1>3, <1>8 DEF HandInv
<1>14. Settled' = Settled \/ Settled' = Settled \cup {loc}
  BY <1>1, <1>8 DEF Settled
<1>15. QED
  BY <1>2, <1>5, <1>10, <1>11, <1>12, <1>13, <1>14, <1>a DEF LoopInv

\* What a step between taking a record and committing it shares: the group and
\* the gate are untouched, and at most the record in hand ends.
LEMMA HandlingKeeps ==
  ASSUME LoopInv, pc \in {"publish", "dlq"}, UNCHANGED <<gateVars, accepted>>,
         log' = log, alerts \subseteq alerts', dlq \subseteq dlq',
         NEW how \in Hows, outcome' \in {outcome, outcome \cup {<<Here, how>>}}
  PROVE  /\ GateInv' /\ inHand # None /\ Here \in Locations
         /\ outcome' \subseteq Locations \X Hows
         /\ \A e : Traced(e) => Traced(e)'
         /\ \A x \in outcome : Placed(x)' /\ Explained(x)'
         /\ Placed(<<Here, how>>) /\ RecordAt(Here) = Current
<1>1. inHand # None
  BY DEF LoopInv, LoopTypes
<1>2. Here \in Locations /\ Placed(<<Here, how>>) /\ RecordAt(Here) = Current
  BY <1>1, InHandIsPlaced
<1>3. /\ \A e : Traced(e) => Traced(e)'
      /\ \A x \in outcome : Placed(x)' /\ Explained(x)'
  BY LogStays, TracesStay
<1>4. GateInv'
  BY DEF LoopInv, GateInv, GateTypeOK, GateConsistent, QueueIsLatest,
         DedupWindow, gateVars
<1>5. outcome' \subseteq Locations \X Hows
  BY <1>2 DEF LoopInv, LoopTypes
<1>6. QED
  BY <1>1, <1>2, <1>3, <1>4, <1>5

\* The last alert's publication ends the handling and leaves the event traced.
LEMMA PublishAckedStep ==
  ASSUME LoopInv, PublishAcked
  PROVE  /\ LoopInv' /\ inHand # None
         /\ Settled' = Settled \/ Settled' = Settled \cup {Here}
<1>1. /\ pc = "publish" /\ left' = left - 1
      /\ alerts' = alerts \cup {<<Current, left>>}
      /\ IF left = 1
         THEN pc' = "commit" /\ outcome' = outcome \cup {<<Here, "published">>}
         ELSE UNCHANGED <<pc, outcome>>
      /\ UNCHANGED <<groupVars, gateVars, dlq, accepted>>
  BY DEF PublishAcked, EndsAs
<1>2. log' = log /\ inHand' = inHand /\ "published" \in Hows
  BY <1>1 DEF groupVars, Hows
<1>3. /\ GateInv' /\ inHand # None
      /\ outcome' \subseteq Locations \X Hows
      /\ \A e : Traced(e) => Traced(e)'
      /\ \A x \in outcome : Placed(x)' /\ Explained(x)'
      /\ Placed(<<Here, "published">>) /\ RecordAt(Here) = Current
  BY <1>1, <1>2, HandlingKeeps
<1>4. GroupInv' /\ Here' = Here /\ Current' = Current
  BY <1>1, GroupStutter DEF LoopInv, groupVars, Current
<1>5. /\ left \in 1..MaxAlerts /\ MaxAlerts \in Nat /\ Current \in Events
  BY <1>1, CorrelatorAssumption
     DEF CorrelatorAssumption, LoopInv, LoopTypes, HandInv
<1>6. LoopTypes'
  BY <1>1, <1>2, <1>3, <1>5 DEF LoopInv, LoopTypes
<1>7. CASE left = 1
  <2>1. Traced(Current)'
    BY <1>1, <1>4, <1>7 DEF Traced
  <2>2. Placed(<<Here, "published">>)' /\ Explained(<<Here, "published">>)'
    <3>1. Placed(<<Here, "published">>)'
      BY <1>2, <1>3, <1>4 DEF Placed
    <3>2. RecordAt(Here)' = Current
      BY <1>2, <1>3, <1>4 DEF RecordAt
    <3>3. Traced(RecordAt(Here))'
      BY <1>4, <2>1, <3>2 DEF Traced
    <3>4. QED
      BY <1>5, <3>1, <3>2, <3>3 DEF Explained
  <2>3. OutcomesHold'
    BY <1>1, <1>3, <1>4, <1>7, <2>2 DEF OutcomesHold
  <2>4. AcceptedEnds'
    BY <1>1, <1>3, <1>4, <2>1 DEF LoopInv, AcceptedEnds, Traced
  <2>5. Settled' = Settled \cup {Here}
    BY <1>1, <1>7, EndingSettles DEF EndsAs
  <2>6. HandInv'
    BY <1>1, <1>4, <1>7, <2>5 DEF HandInv
  <2>7. QED
    BY <1>3, <1>4, <1>6, <2>3, <2>4, <2>5, <2>6 DEF LoopInv
<1>8. CASE left # 1
  <2>1. OutcomesHold'
    BY <1>1, <1>3, <1>8 DEF OutcomesHold
  <2>2. AcceptedEnds' /\ HandInv'
    BY <1>1, <1>3, <1>4, <1>8 DEF LoopInv, AcceptedEnds, HandInv
  <2>3. QED
    BY <1>1, <1>3, <1>4, <1>6, <1>8, <2>1, <2>2 DEF LoopInv, Settled
<1>9. QED
  BY <1>7, <1>8

\* A failed publication leaves the event to the dead letter topic.
LEMMA PublishFailedStep ==
  ASSUME LoopInv, PublishFailed
  PROVE  LoopInv' /\ Settled' = Settled
<1>1. /\ pc = "publish" /\ left' = 0 /\ pc' = "dlq"
      /\ alerts' \in {alerts, alerts \cup {<<Current, left>>}}
      /\ UNCHANGED <<groupVars, gateVars, dlq, outcome, accepted>>
  BY DEF PublishFailed
<1>2. log' = log /\ inHand' = inHand /\ "dlq" \in Hows
  BY <1>1 DEF groupVars, Hows
<1>3. /\ GateInv' /\ inHand # None
      /\ \A e : Traced(e) => Traced(e)'
      /\ \A x \in outcome : Placed(x)' /\ Explained(x)'
  BY <1>1, <1>2, HandlingKeeps
<1>4. GroupInv' /\ Here' = Here /\ Current' = Current
  BY <1>1, GroupStutter DEF LoopInv, groupVars, Current
<1>5. /\ left \in 1..MaxAlerts /\ MaxAlerts \in Nat /\ Current \in Events
  BY <1>1, CorrelatorAssumption
     DEF CorrelatorAssumption, LoopInv, LoopTypes, HandInv
<1>6. LoopTypes'
  BY <1>1, <1>2, <1>3, <1>5 DEF LoopInv, LoopTypes
<1>7. OutcomesHold' /\ AcceptedEnds' /\ HandInv'
  BY <1>1, <1>3, <1>4 DEF LoopInv, OutcomesHold, AcceptedEnds, HandInv
<1>8. QED
  BY <1>1, <1>3, <1>4, <1>6, <1>7 DEF LoopInv, Settled

\* The dead letter topic ends the handling, whether it took the record or not.
LEMMA DlqStep ==
  ASSUME LoopInv, DlqAcked \/ DlqFailed
  PROVE  /\ LoopInv' /\ inHand # None
         /\ Settled' = Settled \cup {Here}
<1>1. PICK how \in {"dlq", "abandoned"} :
        /\ pc = "dlq" /\ outcome' = outcome \cup {<<Here, how>>}
        /\ dlq' \in {dlq, dlq \cup {Here}}
        /\ how = "dlq" => /\ dlq' = dlq \cup {Here} /\ pc' = "commit"
                          /\ UNCHANGED groupVars
        /\ how = "abandoned" => CommitIfNeeded(FALSE) /\ pc' = "poll"
        /\ UNCHANGED <<gateVars, left, alerts, accepted>>
  BY DEF DlqAcked, DlqFailed, EndsAs
<1>2. log' = log /\ how \in Hows
  BY <1>1 DEF groupVars, CommitIfNeeded, Hows
<1>3. /\ GateInv' /\ inHand # None /\ Here \in Locations
      /\ outcome' \subseteq Locations \X Hows
      /\ \A e : Traced(e) => Traced(e)'
      /\ \A x \in outcome : Placed(x)' /\ Explained(x)'
      /\ Placed(<<Here, how>>) /\ RecordAt(Here) = Current
  BY <1>1, <1>2, HandlingKeeps
<1>4. PICK loc, e : loc = Here /\ e = Current
  OBVIOUS
<1>5. GroupInv'
  BY <1>1, GroupStutter, CommitKeeps DEF LoopInv
<1>6. /\ <<loc, how>> \in outcome' /\ RecordAt(loc)' = e /\ Placed(<<loc, how>>)'
      /\ <<loc, how>>[1] = loc /\ <<loc, how>>[2] = how
  BY <1>1, <1>2, <1>3, <1>4 DEF RecordAt, Placed
<1>7. Traced(e)'
  BY <1>1, <1>4, <1>6 DEF Traced
<1>8. Explained(<<loc, how>>)'
  BY <1>1, <1>4 DEF Explained
<1>9. OutcomesHold'
  BY <1>1, <1>3, <1>4, <1>6, <1>8 DEF OutcomesHold
<1>10. LoopTypes'
  <2>1. pc' = "commit" => inHand' # None
    BY <1>1, <1>3 DEF groupVars
  <2>2. pc' = "poll" => inHand' = None
    BY <1>1 DEF CommitIfNeeded
  <2>3. left' = 0
    BY <1>1, CorrelatorAssumption
       DEF CorrelatorAssumption, LoopInv, LoopTypes
  <2>4. dlq' \subseteq Locations
    BY <1>1, <1>3 DEF LoopInv, LoopTypes
  <2>5. QED
    BY <1>1, <1>3, <2>1, <2>2, <2>3, <2>4 DEF LoopInv, LoopTypes
<1>11. AcceptedEnds'
  <2> SUFFICES ASSUME NEW i \in 1..Len(accepted)
               PROVE  Traced(accepted[i])'
    BY <1>1 DEF AcceptedEnds
  <2>1. PICK d : d = accepted[i]
    OBVIOUS
  <2>2. Traced(d) \/ d = e
    BY <1>4, <2>1 DEF LoopInv, AcceptedEnds
  <2>3. Traced(d)'
    BY <1>3, <1>7, <2>2
  <2>4. QED
    BY <1>1, <2>1, <2>3 DEF Traced
<1>12. Settled' = Settled \cup {Here}
  BY <1>1, EndingSettles DEF EndsAs
<1>13. HandInv'
  <2>1. pc' = "commit" => Here' = Here
    BY <1>1 DEF groupVars, Here
  <2>2. QED
    BY <1>1, <1>12, <2>1 DEF HandInv
<1>14. QED
  BY <1>3, <1>5, <1>9, <1>10, <1>11, <1>12, <1>13 DEF LoopInv

\* A commit closes a handling that has ended.
LEMMA CommitStep ==
  ASSUME LoopInv, Commit
  PROVE  /\ LoopInv' /\ Here \in Settled /\ Settled' = Settled
<1>1. /\ pc = "commit" /\ CommitIfNeeded(TRUE) /\ pc' = "poll"
      /\ UNCHANGED <<gateVars, left, alerts, dlq, outcome, accepted>>
  BY DEF Commit
<1>2. GroupInv' /\ inHand' = None /\ log' = log
  BY <1>1, CommitKeeps DEF LoopInv
<1>3. LoopTypes' /\ GateInv'
  BY <1>1, <1>2
     DEF LoopInv, LoopTypes, GateInv, GateTypeOK, GateConsistent, QueueIsLatest,
         DedupWindow, gateVars
<1>4. OutcomesHold'
  BY <1>1, <1>2, LogStays, TracesStay DEF OutcomesHold
<1>5. AcceptedEnds' /\ HandInv'
  <2>1. \A i \in 1..Len(accepted) : Traced(accepted[i])
    BY <1>1 DEF LoopInv, AcceptedEnds
  <2>2. \A e : Traced(e) => Traced(e)'
    BY <1>1, <1>2, LogStays, TracesStay
  <2>3. QED
    BY <1>1, <2>1, <2>2 DEF AcceptedEnds, HandInv
<1>6. QED
  BY <1>1, <1>2, <1>3, <1>4, <1>5 DEF LoopInv, HandInv, Settled

\* A rebalance keeps the gate, a restart empties it; what is skipped is said so.
LEMMA AssignStep ==
  ASSUME LoopInv, Rejoin \/ Restart
  PROVE  /\ LoopInv' /\ inHand' = None
         /\ position' = [p \in Partitions |-> ResumeAt(p)]
         /\ UNCHANGED <<log, committed>>
         /\ Settled' = Settled \cup ResumeSkips
<1>1. Assign /\ Skip /\ UNCHANGED <<alerts, dlq>>
  BY DEF Rejoin, Restart, Rebalance
<1>2. /\ GroupInv' /\ inHand' = None
      /\ position' = [p \in Partitions |-> ResumeAt(p)]
      /\ UNCHANGED <<log, committed>>
  BY <1>1, AssignKeeps DEF LoopInv
<1>3. /\ outcome \subseteq outcome' /\ Settled' = Settled \cup ResumeSkips
      /\ \A x \in outcome' \ outcome : x \in ResumeSkips \X {"skipped"}
  BY <1>1, SkipSettles
<1>4. /\ \A e : Traced(e) => Traced(e)'
      /\ \A x \in outcome : Placed(x)' /\ Explained(x)'
  BY <1>1, <1>2, <1>3, LogStays, TracesStay
<1>5. ASSUME NEW x \in ResumeSkips \X {"skipped"}
      PROVE  Placed(x)' /\ Explained(x)' /\ x \in Locations \X Hows
  <2>1. x[1] \in ResumeSkips /\ x[2] = "skipped"
    OBVIOUS
  <2>2. PICK p \in Partitions : \E n \in 1..ResumeAt(p) : x[1] = <<p, n>>
    BY <2>1 DEF ResumeSkips
  <2>3. PICK n \in 1..ResumeAt(p) : x[1] = <<p, n>>
    BY <2>2
  <2>4. n \in 1..Len(log[p])
    BY <2>3, GroupRange DEF LoopInv
  <2>5. Placed(x)'
    BY <1>2, <2>3, <2>4 DEF Placed
  <2>6. Explained(x)'
    BY <2>1 DEF Explained
  <2>7. x[1] \in Locations
    BY <2>1, ResumeSkipsLocations DEF LoopInv
  <2>8. QED
    BY <2>1, <2>5, <2>6, <2>7 DEF Hows
<1>6. OutcomesHold' /\ outcome' \subseteq Locations \X Hows
  <2>1. outcome' \subseteq Locations \X Hows
    BY <1>3, <1>5 DEF LoopInv, LoopTypes
  <2>2. QED
    BY <1>3, <1>4, <1>5, <2>1 DEF OutcomesHold
<1>7. CASE Rejoin
  <2>1. /\ inHand = None /\ pc = "poll"
        /\ UNCHANGED <<gateVars, pc, left, accepted>>
    BY <1>7 DEF Rejoin, Rebalance, LoopInv, LoopTypes
  <2>2. LoopTypes' /\ GateInv'
    BY <1>1, <1>2, <1>6, <2>1
       DEF LoopInv, LoopTypes, GateInv, GateTypeOK, GateConsistent,
           QueueIsLatest, DedupWindow, gateVars
  <2>3. AcceptedEnds' /\ HandInv'
    BY <1>4, <2>1 DEF LoopInv, AcceptedEnds, HandInv
  <2>4. QED
    BY <1>2, <1>3, <1>6, <2>2, <2>3 DEF LoopInv
<1>8. CASE Restart
  <2>1. /\ seen' = {} /\ order' = <<>> /\ accepted' = <<>>
        /\ pc' = "poll" /\ left' = 0
    BY <1>8 DEF Restart, GateLost
  <2>2. GateInv'
    <3>1. Len(order') = 0 /\ Len(accepted') = 0 /\ order' \in Seq(Events)
      BY <2>1
    <3>2. QED
      BY <2>1, <3>1, CacheAssumption
         DEF CacheAssumption, GateInv, GateTypeOK, GateConsistent,
             QueueIsLatest, DedupWindow
  <2>3. LoopTypes'
    BY <1>1, <1>2, <1>6, <2>1, CorrelatorAssumption
       DEF CorrelatorAssumption, LoopInv, LoopTypes
  <2>4. AcceptedEnds' /\ HandInv'
    BY <2>1 DEF AcceptedEnds, HandInv
  <2>5. QED
    BY <1>2, <1>3, <1>6, <2>2, <2>3, <2>4 DEF LoopInv
<1>9. QED
  BY <1>7, <1>8

\* Every step keeps the invariant.
LEMMA LoopStep == LoopInv /\ [Next]_vars => LoopInv'
<1> SUFFICES ASSUME LoopInv, [Next]_vars
             PROVE  LoopInv'
  OBVIOUS
<1>1. CASE UNCHANGED vars
  <2>1. UNCHANGED <<groupVars, gateVars, ownVars>>
    BY <1>1 DEF vars
  <2>2. GroupInv'
    BY <2>1, GroupStutter DEF LoopInv
  <2>3. GateInv'
    BY <2>1 DEF LoopInv, GateInv, GateTypeOK, GateConsistent, QueueIsLatest,
                DedupWindow, gateVars, ownVars
  <2>4. LoopTypes' /\ HandInv'
    BY <2>1 DEF LoopInv, LoopTypes, HandInv, Here, Current, Settled, ownVars,
                groupVars
  <2>5. OutcomesHold' /\ AcceptedEnds'
    BY <2>1 DEF LoopInv, OutcomesHold, AcceptedEnds, Placed, Explained, Traced,
                RecordAt, Current, ownVars, groupVars
  <2>6. QED
    BY <2>2, <2>3, <2>4, <2>5 DEF LoopInv
<1>2. ASSUME NEW p \in Partitions, NEW r \in Records, RawRecord(p, r)
      PROVE  LoopInv'
  BY <1>2, RawStep
<1>3. ASSUME NEW p \in Partitions,
             TakeJunk(p) \/ RejectInvalid(p) \/ RejectDuplicate(p) \/ Accept(p)
      PROVE  LoopInv'
  BY <1>3, TakeJunkStep, RejectStep, AcceptStep
<1>4. CASE PublishAcked \/ PublishFailed \/ DlqAcked \/ DlqFailed \/ Commit
  BY <1>4, PublishAckedStep, PublishFailedStep, DlqStep, CommitStep
<1>5. CASE Rejoin \/ Restart
  BY <1>5, AssignStep
<1>6. QED
  BY <1>1, <1>2, <1>3, <1>4, <1>5 DEF Next, Handle

\* The invariant holds in every reachable state.
LEMMA Inductive == Spec => []LoopInv
BY LoopInit, LoopStep, PTL DEF Spec

\* Gate, loop, topics and outcomes keep their types.
THEOREM TypeCorrect == Spec => []TypeOK
<1>1. LoopInv => TypeOK
  BY DEF LoopInv, GroupInv, GateInv, LoopTypes, TypeOK
<1>2. QED
  BY Inductive, <1>1, PTL

\* One process accepts an event id again only when more than _dedup_cache_size
\* acceptances lie between (QualityGate._is_duplicate).
THEOREM DuplicatesAreFarApart == Spec => []DedupWindow
<1>1. LoopInv => DedupWindow
  BY DEF LoopInv, GateInv
<1>2. QED
  BY Inductive, <1>1, PTL

-----------------------------------------------------------------------------
\* The ledger.

\* Initial states of the loop are initial states of the ledger.
LEMMA InitMaps == Init => Ledger!Init
<1> SUFFICES ASSUME Init
             PROVE  Ledger!Init
  OBVIOUS
<1>1. [p \in Partitions |-> Len(log[p])] = [p \in Partitions |-> 0]
  BY DEF Init, GroupInit
<1>2. Settled = {}
  BY DEF Init, Settled
<1>3. QED
  BY <1>1, <1>2 DEF Init, GroupInit, Ledger!Init, Ledger!NoOffset, NoOffset

\* A rebalance or a restart resumes the ledger at the same offsets.
LEMMA AssignMaps ==
  ASSUME LoopInv, Rejoin \/ Restart
  PROVE  Ledger!Resume
<1>1. /\ inHand' = None
      /\ position' = [p \in Partitions |-> ResumeAt(p)]
      /\ UNCHANGED <<log, committed>>
      /\ Settled' = Settled \cup ResumeSkips
  BY AssignStep
<1>2. position' \in [Partitions -> Nat]
  BY <1>1, GroupRange DEF LoopInv
<1>3. \A p \in Partitions : position'[p] = ResumeAt(p)
  BY <1>1
<1>4. \A p \in Partitions : position'[p] \in Ledger!ResumePoints(p)
  BY <1>3 DEF Ledger!ResumePoints, ResumeAt, Ledger!NoOffset, NoOffset
<1>5. ResumeSkips = UNION {{<<p, n>> : n \in 1..position'[p]} : p \in Partitions}
  BY <1>3 DEF ResumeSkips
<1>6. QED
  BY <1>1, <1>2, <1>4, <1>5 DEF Ledger!Resume

\* Every step maps to a step of the ledger or to a stutter.
LEMMA StepMaps ==
  ASSUME LoopInv, [Next]_vars
  PROVE  [Ledger!Next]_(Ledger!vars)
<1> USE DEF Ledger!vars
<1>1. CASE UNCHANGED vars
  BY <1>1 DEF vars, groupVars, ownVars, Settled
<1>2. ASSUME NEW p \in Partitions, NEW r \in Records, RawRecord(p, r)
      PROVE  Ledger!Append(p)
  <2>1. Produce(p, r) /\ Settled' = Settled
    BY <1>2 DEF RawRecord, ownVars, Settled
  <2>2. \A q \in Partitions :
          Len(log'[q]) = IF q = p THEN Len(log[q]) + 1 ELSE Len(log[q])
    BY <2>1, ProduceKeeps DEF LoopInv
  <2>3. [q \in Partitions |-> Len(log'[q])] =
          [[q \in Partitions |-> Len(log[q])] EXCEPT ![p] = @ + 1]
    BY <2>2
  <2>4. QED
    BY <2>1, <2>3 DEF Ledger!Append, Produce
<1>3. ASSUME NEW p \in Partitions,
             TakeJunk(p) \/ RejectInvalid(p) \/ RejectDuplicate(p) \/ Accept(p)
      PROVE  Ledger!Take(p)
  <2>1. Poll(p) /\ log' = log
    BY <1>3 DEF TakeJunk, RejectInvalid, RejectDuplicate, Accept, Poll
  <2>2. Settled' = Settled \/ Settled' = Settled \cup {<<p, position[p] + 1>>}
    BY <1>3, TakeJunkStep, RejectStep, AcceptStep DEF NextLocation
  <2>3. QED
    BY <2>1, <2>2 DEF Ledger!Take, Poll
<1>4. ASSUME PublishAcked
      PROVE  Ledger!Settle \/ UNCHANGED Ledger!vars
  <2>1. UNCHANGED <<log, position, committed, inHand>>
    BY <1>4 DEF PublishAcked, groupVars
  <2>2. QED
    BY <1>4, <2>1, PublishAckedStep DEF Ledger!Settle, Ledger!InHand, Here
<1>5. ASSUME PublishFailed
      PROVE  UNCHANGED Ledger!vars
  BY <1>5, PublishFailedStep DEF PublishFailed, groupVars
<1>6. ASSUME DlqAcked
      PROVE  Ledger!Settle
  <2>1. UNCHANGED <<log, position, committed, inHand>>
    BY <1>6 DEF DlqAcked, groupVars
  <2>2. QED
    BY <1>6, <2>1, DlqStep DEF Ledger!Settle, Ledger!InHand, Here
<1>7. ASSUME DlqFailed
      PROVE  Ledger!GiveUp
  <2>1. inHand' = None /\ UNCHANGED <<log, position, committed>>
    BY <1>7 DEF DlqFailed, CommitIfNeeded
  <2>2. QED
    BY <1>7, <2>1, DlqStep DEF Ledger!GiveUp, Ledger!InHand, Here
<1>8. ASSUME Commit
      PROVE  Ledger!Finish
  <2>1. /\ inHand # None /\ inHand' = None
        /\ committed' \in {committed, position}
        /\ UNCHANGED <<log, position>>
    BY <1>8 DEF Commit, CommitIfNeeded
  <2>2. QED
    BY <1>8, <2>1, CommitStep DEF Ledger!Finish, Ledger!InHand, Here
<1>9. ASSUME Rejoin \/ Restart
      PROVE  Ledger!Resume
  BY <1>9, AssignMaps
<1>10. QED
  BY <1>1, <1>2, <1>3, <1>4, <1>5, <1>6, <1>7, <1>8, <1>9
     DEF Next, Handle, Ledger!Next

\* The correlator implements the offset promise of a core consumer
\* (run_correlator, _commit_if_needed).
THEOREM ImplementsLedger == Spec => LedgerSpec
<1>1. LoopInv /\ [Next]_vars => [Ledger!Next]_(Ledger!vars)
  BY StepMaps
<1>2. QED
  BY LoopInit, LoopStep, InitMaps, <1>1, PTL
     DEF Spec, LedgerSpec, Ledger!Spec

\* The ledger's own theorems, read through the refinement mapping.
Proved ==
  INSTANCE OffsetLedger_proofs WITH
    end <- [p \in Partitions |-> Len(log[p])], hand <- inHand,
    settled <- Settled

\* What the ledger proves of committed offsets, read for the correlator.
LEMMA PromiseKept == Spec => []Proved!CommittedIsSettled
<1>1. None \notin Partitions
  BY ConsumerAssumption DEF ConsumerAssumption
<1>2. Proved!Spec => [](Proved!TakenIsSettled /\ Proved!CommittedIsTaken
                         /\ Proved!CommittedIsSettled)
  BY <1>1, Proved!LedgerSafe
<1>3. Ledger!Init => Proved!Init
  BY DEF Ledger!Init, Proved!Init, Ledger!NoOffset, Proved!NoOffset
<1>4. [Ledger!Next]_(Ledger!vars) => [Proved!Next]_(Proved!vars)
  BY DEF Ledger!Next, Proved!Next, Ledger!vars, Proved!vars,
     Ledger!Append, Proved!Append, Ledger!Take, Proved!Take,
     Ledger!Settle, Proved!Settle, Ledger!Finish, Proved!Finish,
     Ledger!GiveUp, Proved!GiveUp, Ledger!Resume, Proved!Resume,
     Ledger!InHand, Proved!InHand, Ledger!ResumePoints, Proved!ResumePoints,
     Ledger!NoOffset, Proved!NoOffset
<1>5. QED
  BY ImplementsLedger, <1>2, <1>3, <1>4, PTL
     DEF LedgerSpec, Ledger!Spec, Proved!Spec

\* A raw record behind a committed offset left an alert, a dead letter, an
\* ending without an alert, or a recorded reason (should_commit in the loop,
\* commit of all positions).
THEOREM TraceOrReason == Spec => []CommittedLeavesTrace
<1>1. LoopInv /\ Proved!CommittedIsSettled => CommittedLeavesTrace
  <2> SUFFICES ASSUME LoopInv, Proved!CommittedIsSettled,
                      NEW p \in Partitions, NEW n \in 1..committed[p]
               PROVE  LET r == log[p][n]
                          copies == {l \in Settled : log[l[1]][l[2]] = r}
                      IN  \/ r = Invalid
                          \/ <<<<p, n>>, "skipped">> \in outcome
                          \/ <<r, 1>> \in alerts
                          \/ \E l \in copies :
                               /\ r \in Events \/ l = <<p, n>>
                               /\ \/ l \in dlq
                                  \/ <<l, "quiet">> \in outcome
                                  \/ <<l, "abandoned">> \in outcome
    BY DEF CommittedLeavesTrace
  <2> DEFINE r == log[p][n]
             copies == {l \in Settled : log[l[1]][l[2]] = r}
             Left(l) == \/ l \in dlq
                        \/ <<l, "quiet">> \in outcome
                        \/ <<l, "abandoned">> \in outcome
  <2>1. <<p, n>> \in Settled /\ <<p, n>> \in copies
    BY DEF Proved!CommittedIsSettled
  <2>2. PICK z \in outcome : z[1] = <<p, n>>
    BY <2>1 DEF Settled
  <2>3. /\ z = <<<<p, n>>, z[2]>> /\ z[2] \in Hows
        /\ Explained(z) /\ RecordAt(z[1]) = r
    BY <2>2 DEF LoopInv, LoopTypes, OutcomesHold, RecordAt
  <2>4. CASE z[2] = "invalid" \/ z[2] = "skipped"
    BY <2>2, <2>3, <2>4 DEF Explained
  <2>5. CASE z[2] = "dlq" \/ z[2] = "abandoned" \/ z[2] = "quiet"
    <3>1. Left(<<p, n>>)
      BY <2>2, <2>3, <2>5 DEF Explained
    <3>2. QED
      BY <2>1, <3>1
  <2>6. CASE z[2] = "duplicate" \/ z[2] = "published"
    <3>1. r \in Events /\ Traced(r)
      BY <2>3, <2>6 DEF Explained
    <3>2. CASE <<r, 1>> \in alerts
      BY <3>2
    <3>3. CASE <<r, 1>> \notin alerts
      <4>1. PICK x \in outcome : /\ RecordAt(x[1]) = r
                                 /\ x[1] \in dlq \/ x[2] \in {"quiet", "abandoned"}
        BY <3>1, <3>3 DEF Traced
      <4>2. x = <<x[1], x[2]>> /\ x[1] \in Settled
        BY DEF LoopInv, LoopTypes, Settled
      <4>3. x[1] \in copies /\ Left(x[1])
        BY <4>1, <4>2 DEF RecordAt
      <4>4. QED
        BY <3>1, <4>3
    <3>4. QED
      BY <3>2, <3>3
  <2>7. QED
    BY <2>3, <2>4, <2>5, <2>6 DEF Hows
<1>2. QED
  BY Inductive, PromiseKept, <1>1, PTL

-----------------------------------------------------------------------------
\* The event handed over is one of the declared shapes.
LEMMA EventType ==
  ASSUME NEW e \in RuleEvents
  PROVE  /\ e.ts \in Nat \cup {NoTime}
         /\ e.deny \in BOOLEAN
         /\ e.bytes \in Nat
         /\ e.device \in Devices
         /\ e.source \in Sources
         /\ e.entity \in Entities
         /\ e.mark \in Marks
BY RuleAssumption DEF RuleAssumption

\* The weight of an event is a natural number.
LEMMA WeightType ==
  ASSUME NEW e \in RuleEvents, NEW rule
  PROVE  Weight(rule, e) \in Nat
BY EventType DEF Weight

\* Pruning leaves a sequence of entries of the bucket.
LEMMA PrunedType ==
  ASSUME NEW rule, NEW now, NEW S, NEW bucket \in Seq(S)
  PROVE  Pruned(rule, bucket, now) \in Seq(S)
<1> DEFINE drop == {n \in 1..Len(bucket) :
                      \A i \in 1..n : Expired(rule, bucket[i], now)}
<1>1. Len(bucket) \in Nat
  OBVIOUS
<1>2. IsFiniteSet(drop)
  <2>1. IsFiniteSet(1..Len(bucket))
    BY <1>1, FS_Interval
  <2>2. QED
    BY <2>1, FS_Subset
<1>3. Cardinality(drop) \in Nat
  BY <1>2, FS_CardinalityType
<1> HIDE DEF drop
<1>4. SubSeq(bucket, Cardinality(drop) + 1, Len(bucket)) \in Seq(S)
  BY <1>1, <1>3
<1>5. QED
  BY <1>4 DEF Pruned, drop

\* An entry is added only with the time and the weight of the event.
LEMMA WindowsType ==
  ASSUME NEW e \in RuleEvents, e.ts \in Nat,
         windows \in [WindowKeys -> Seq(Entries)]
  PROVE  WindowsAfter(e) \in [WindowKeys -> Seq(Entries)]
<1>1. SUFFICES ASSUME NEW k \in WindowKeys, NEW rule \in Counted(e),
                      k = Key(rule, e)
               PROVE  Slid(k[1], e) \in Seq(Entries)
  BY DEF WindowsAfter
<1>2. k[1] = rule
  BY <1>1 DEF Key
<1>3. Weight(rule, e) \in Nat \ {0}
  BY <1>1, WeightType DEF Counted
<1>4. Pruned(rule, windows[k], e.ts) \in Seq(Entries)
  BY PrunedType
<1>5. <<e.ts, Weight(rule, e)>> \in Entries
  BY <1>3 DEF Entries
<1>6. QED
  BY <1>1, <1>2, <1>4, <1>5 DEF Slid

\* The engine starts with its types.
LEMMA InitType == RuleInit => RuleTypeOK
BY DEF RuleInit, RuleTypeOK, Entries, Never

\* Processing an event keeps the types.
LEMMA ProcessType ==
  ASSUME RuleTypeOK, NEW e \in RuleEvents, processed' = processed + 1, Process(e)
  PROVE  RuleTypeOK'
<1> USE DEF RuleTypeOK
<1>1. e.ts \in Nat
  BY EventType DEF Process
<1>2. (windows \in [WindowKeys -> Seq(Entries)])'
  BY <1>1, WindowsType DEF Process
<1>3. (lastAlert \in [AlertKeys -> Nat \cup {Never}])'
  BY <1>1 DEF Process, LastAlertAfter
<1>4. (faultState \in [Entities -> Scenarios \cup {Healthy, NoState}])'
  BY EventType DEF Process, FaultStateAfter, Marks
<1>5. (raised \in [AlertKeys -> Seq(Nat)])'
  BY <1>1 DEF Process
<1>6. (marks \in [Entities -> Seq(Scenarios \cup {NoFault})])'
  <2>1. e.entity \in Entities /\ e.mark \in Marks
    BY EventType
  <2>2. CASE e.mark = Unmarked
    BY <2>1, <2>2 DEF Process
  <2>3. CASE e.mark # Unmarked
    <3>1. e.mark \in Scenarios \cup {NoFault}
      BY <2>1, <2>3 DEF Marks
    <3>2. Append(marks[e.entity], e.mark) \in Seq(Scenarios \cup {NoFault})
      BY <2>1, <3>1
    <3>3. QED
      BY <2>1, <2>3, <3>2 DEF Process
  <2>4. QED
    BY <2>2, <2>3
<1>7. QED
  BY <1>2, <1>3, <1>4, <1>5, <1>6

\* The engine's state and the histories keep their types: entries carry a
\* weight, alert times are event times (RuleEngine of rules.py).
THEOREM RuleTypesCorrect == RuleSpec => []RuleTypeOK
<1>1. RuleTypeOK /\ [RuleNext]_ruleVars => RuleTypeOK'
  <2> SUFFICES ASSUME RuleTypeOK, [RuleNext]_ruleVars
               PROVE  RuleTypeOK'
    OBVIOUS
  <2>1. CASE UNCHANGED ruleVars
    BY <2>1 DEF RuleTypeOK, ruleVars, engine, histories
  <2>2. ASSUME NEW e \in RuleEvents, processed' = processed + 1, Process(e)
        PROVE  RuleTypeOK'
    BY <2>2, ProcessType
  <2>3. ASSUME NEW e \in RuleEvents, processed' = processed + 1, Discard(e)
        PROVE  RuleTypeOK'
    BY <2>3 DEF RuleTypeOK, Discard, engine, histories
  <2>4. QED
    BY <2>1, <2>2, <2>3 DEF RuleNext
<1>2. QED
  BY InitType, <1>1, PTL DEF RuleSpec

-----------------------------------------------------------------------------
\* What makes the spacing inductive: the time kept for a key is the time of
\* its last alert.
LastIsLatest ==
  \A key \in AlertKeys :
    lastAlert[key] = IF raised[key] = <<>> THEN Never
                     ELSE raised[key][Len(raised[key])]

SpacedInv == RuleTypeOK /\ LastIsLatest /\ CooldownHolds

\* Appending a time one cooldown behind the last one keeps a spaced sequence.
LEMMA SpacedAppend ==
  ASSUME NEW s \in Seq(Nat), NEW t \in Nat, NEW c \in Nat,
         \A i, j \in 1..Len(s) : i < j => s[i] + c <= s[j],
         s # <<>> => t - s[Len(s)] >= c
  PROVE  \A i, j \in 1..Len(Append(s, t)) :
           i < j => Append(s, t)[i] + c <= Append(s, t)[j]
<1> DEFINE a == Append(s, t)
<1> SUFFICES ASSUME NEW i \in 1..Len(a), NEW j \in 1..Len(a), i < j
             PROVE  a[i] + c <= a[j]
  OBVIOUS
<1>1. /\ Len(s) \in Nat
      /\ Len(a) = Len(s) + 1
      /\ i \in 1..Len(s)
      /\ j \in 1..Len(s) \/ j = Len(s) + 1
  OBVIOUS
<1>2. a[i] = s[i] /\ s[i] \in Nat
  BY <1>1
<1>3. CASE j \in 1..Len(s)
  <2>1. a[j] = s[j]
    BY <1>3
  <2>2. QED
    BY <1>1, <1>2, <1>3, <2>1
<1>4. CASE j = Len(s) + 1
  <2>1. a[j] = t
    BY <1>4
  <2>2. s # <<>> /\ Len(s) \in 1..Len(s) /\ s[Len(s)] \in Nat
    BY <1>1
  <2>3. s[i] <= s[Len(s)]
    <3>1. CASE i = Len(s)
      BY <1>2, <3>1
    <3>2. CASE i < Len(s)
      BY <1>1, <1>2, <2>2, <3>2
    <3>3. QED
      BY <1>1, <3>1, <3>2
  <2>4. QED
    BY <1>2, <2>1, <2>2, <2>3
<1>5. QED
  BY <1>1, <1>3, <1>4

\* Processing an event keeps the kept alert time that of the last alert.
LEMMA ProcessSpaced ==
  ASSUME SpacedInv, NEW e \in RuleEvents, Process(e), NEW key \in AlertKeys
  PROVE  /\ lastAlert'[key] = IF raised'[key] = <<>> THEN Never
                              ELSE raised'[key][Len(raised'[key])]
         /\ \A i, j \in 1..Len(raised'[key]) :
              i < j => raised'[key][i] + Cooldown <= raised'[key][j]
<1>1. /\ e.ts \in Nat
      /\ raised[key] \in Seq(Nat)
      /\ Cooldown \in Nat
  BY EventType, RuleAssumption DEF Process, SpacedInv, RuleTypeOK, RuleAssumption
<1>2. CASE key \notin Alerts(e)
  <2>1. lastAlert'[key] = lastAlert[key] /\ raised'[key] = raised[key]
    BY <1>2 DEF Process, LastAlertAfter
  <2>2. QED
    BY <2>1 DEF SpacedInv, LastIsLatest, CooldownHolds
<1>3. CASE key \in Alerts(e)
  <2>1. lastAlert'[key] = e.ts /\ raised'[key] = Append(raised[key], e.ts)
    BY <1>3 DEF Process, LastAlertAfter
  <2>2. raised[key] # <<>> => e.ts - raised[key][Len(raised[key])] >= Cooldown
    <3>1. CooldownOk(key, e.ts)
      BY <1>3 DEF Alerts
    <3>2. raised[key] # <<>> => raised[key][Len(raised[key])] \in Nat
      BY <1>1
    <3>3. QED
      BY <3>1, <3>2 DEF CooldownOk, SpacedInv, LastIsLatest, Never
  <2>3. \A i, j \in 1..Len(raised[key]) :
          i < j => raised[key][i] + Cooldown <= raised[key][j]
    BY DEF SpacedInv, CooldownHolds
  <2>4. \A i, j \in 1..Len(Append(raised[key], e.ts)) :
          i < j => Append(raised[key], e.ts)[i] + Cooldown
                     <= Append(raised[key], e.ts)[j]
    BY <1>1, <2>2, <2>3, SpacedAppend
  <2>5. /\ Append(raised[key], e.ts) # <<>>
        /\ Append(raised[key], e.ts)[Len(Append(raised[key], e.ts))] = e.ts
    BY <1>1
  <2>6. QED
    BY <2>1, <2>4, <2>5
<1>4. QED
  BY <1>2, <1>3

\* _cooldown_ok and _last_alert_at: whatever the order in which events come,
\* two alerts of one key are at least the cooldown apart.
THEOREM CooldownSafe == RuleSpec => []CooldownHolds
<1>1. RuleInit => SpacedInv
  <2> SUFFICES ASSUME RuleInit
               PROVE  LastIsLatest /\ CooldownHolds
    BY InitType DEF SpacedInv
  <2>1. \A key \in AlertKeys : raised[key] = <<>> /\ lastAlert[key] = Never
    BY DEF RuleInit
  <2>2. QED
    BY <2>1 DEF LastIsLatest, CooldownHolds
<1>2. SpacedInv /\ RuleTypeOK' /\ [RuleNext]_ruleVars => SpacedInv'
  <2> SUFFICES ASSUME SpacedInv, RuleTypeOK', [RuleNext]_ruleVars
               PROVE  LastIsLatest' /\ CooldownHolds'
    BY DEF SpacedInv
  <2>1. ASSUME UNCHANGED <<lastAlert, raised>>
        PROVE  LastIsLatest' /\ CooldownHolds'
    BY <2>1 DEF SpacedInv, LastIsLatest, CooldownHolds
  <2>2. ASSUME NEW e \in RuleEvents, Process(e)
        PROVE  LastIsLatest' /\ CooldownHolds'
    BY <2>2, ProcessSpaced DEF LastIsLatest, CooldownHolds
  <2>3. QED
    BY <2>1, <2>2 DEF RuleNext, Discard, ruleVars, engine, histories
<1>3. SpacedInv => CooldownHolds
  BY DEF SpacedInv
<1>4. QED
  BY RuleTypesCorrect, <1>1, <1>2, <1>3, PTL DEF RuleSpec

-----------------------------------------------------------------------------
\* The state an annotation leaves.
StateOf(mark) == IF mark = NoFault THEN Healthy ELSE mark

\* What makes the count inductive: the state kept for an entity is that of
\* its last annotation.
StateIsLastMark ==
  \A x \in Entities :
    faultState[x] = IF marks[x] = <<>> THEN NoState
                    ELSE StateOf(marks[x][Len(marks[x])])

EpisodeInv == RuleTypeOK /\ StateIsLastMark /\ OneAlertPerEpisode

\* An annotation adds the start of a run exactly when the one before differs.
LEMMA RunsAppend ==
  ASSUME NEW S, NEW seq \in Seq(S), NEW m \in S, NEW s
  PROVE  Runs(Append(seq, m), s) =
           Runs(seq, s) \cup
             {i \in {Len(seq) + 1} :
                m = s /\ (seq # <<>> => seq[Len(seq)] # s)}
<1> DEFINE a == Append(seq, m)
<1>1. /\ Len(seq) \in Nat
      /\ Len(a) = Len(seq) + 1
      /\ \A i \in 1..Len(seq) : a[i] = seq[i]
      /\ a[Len(seq) + 1] = m
      /\ seq = <<>> <=> Len(seq) = 0
  OBVIOUS
<1> HIDE DEF a
<1>2. \A i \in 1..Len(a) : i \in 1..Len(seq) \/ i = Len(seq) + 1
  BY <1>1
<1>3. ASSUME NEW i \in 1..Len(seq)
      PROVE  i \in Runs(a, s) <=> i \in Runs(seq, s)
  BY <1>1 DEF Runs
<1>4. Len(seq) + 1 \in Runs(a, s) <=>
        m = s /\ (seq # <<>> => seq[Len(seq)] # s)
  <2>1. Len(seq) + 1 \in 1..Len(a)
    BY <1>1
  <2>2. CASE seq = <<>>
    BY <1>1, <2>1, <2>2 DEF Runs
  <2>3. CASE seq # <<>>
    <3>1. Len(seq) + 1 > 1 /\ a[(Len(seq) + 1) - 1] = seq[Len(seq)]
      BY <1>1, <2>3
    <3>2. QED
      BY <1>1, <2>1, <2>3, <3>1 DEF Runs
  <2>4. QED
    BY <2>2, <2>3
<1>5. /\ Runs(a, s) \subseteq 1..Len(a)
      /\ Runs(seq, s) \subseteq 1..Len(seq)
      /\ Len(seq) + 1 \notin 1..Len(seq)
  BY <1>1 DEF Runs
<1>6. QED
  BY <1>2, <1>3, <1>4, <1>5 DEF a

\* What is appended is the last element.
LEMMA AppendLast ==
  ASSUME NEW S, NEW seq \in Seq(S), NEW m \in S
  PROVE  /\ Append(seq, m) # <<>>
         /\ Append(seq, m)[Len(Append(seq, m))] = m
OBVIOUS

\* The number of runs never falls and grows by one with a new run.
LEMMA RunsGrow ==
  ASSUME NEW S, NEW seq \in Seq(S), NEW m \in S, NEW s
  PROVE  /\ Cardinality(Runs(seq, s)) \in Nat
         /\ Cardinality(Runs(Append(seq, m), s)) \in Nat
         /\ Cardinality(Runs(seq, s)) <= Cardinality(Runs(Append(seq, m), s))
         /\ m = s /\ (seq # <<>> => seq[Len(seq)] # s) =>
              Cardinality(Runs(Append(seq, m), s)) =
                Cardinality(Runs(seq, s)) + 1
<1>1. Len(seq) \in Nat
  OBVIOUS
<1>2. IsFiniteSet(Runs(seq, s))
  <2>1. IsFiniteSet(1..Len(seq)) /\ Runs(seq, s) \subseteq 1..Len(seq)
    BY <1>1, FS_Interval DEF Runs
  <2>2. QED
    BY <2>1, FS_Subset
<1>3. Cardinality(Runs(seq, s)) \in Nat
  BY <1>2, FS_CardinalityType
<1>4. Len(seq) + 1 \notin Runs(seq, s)
  BY <1>1 DEF Runs
<1>5. CASE m = s /\ (seq # <<>> => seq[Len(seq)] # s)
  <2>1. Runs(Append(seq, m), s) = Runs(seq, s) \cup {Len(seq) + 1}
    BY <1>5, RunsAppend
  <2>2. Cardinality(Runs(Append(seq, m), s)) = Cardinality(Runs(seq, s)) + 1
    BY <2>1, <1>2, <1>4, FS_AddElement
  <2>3. QED
    BY <1>3, <2>2
<1>6. CASE ~(m = s /\ (seq # <<>> => seq[Len(seq)] # s))
  <2> DEFINE new == {i \in {Len(seq) + 1} :
                       m = s /\ (seq # <<>> => seq[Len(seq)] # s)}
  <2>1. Runs(Append(seq, m), s) = Runs(seq, s) \cup new
    BY RunsAppend
  <2>2. new = {}
    BY <1>6
  <2>3. Runs(Append(seq, m), s) = Runs(seq, s)
    BY <2>1, <2>2
  <2>4. QED
    BY <1>3, <1>6, <2>3
<1>7. QED
  BY <1>5, <1>6

\* Processing an event keeps the kept state that of the last annotation.
LEMMA ProcessEpisodes ==
  ASSUME EpisodeInv, NEW e \in RuleEvents, Process(e), NEW x \in Entities
  PROVE  /\ faultState'[x] = IF marks'[x] = <<>> THEN NoState
                             ELSE StateOf(marks'[x][Len(marks'[x])])
         /\ \A s \in Scenarios :
              Len(FaultAlerts(x, s)') <= Cardinality(Episodes(x, s)')
<1> DEFINE S == Scenarios \cup {NoFault}
<1>1. /\ marks[x] \in Seq(S)
      /\ e.ts \in Nat
      /\ e.mark \in Marks
      /\ e.entity \in Entities
      /\ marks \in [Entities -> Seq(S)]
      /\ faultState \in [Entities -> Scenarios \cup {Healthy, NoState}]
  BY EventType DEF EpisodeInv, RuleTypeOK, Process
<1>2. ASSUME NEW s \in Scenarios
      PROVE  /\ <<"annotated_fault", x, s>> \in AlertKeys
             /\ FaultAlerts(x, s) \in Seq(Nat)
             /\ Len(FaultAlerts(x, s)) \in Nat
             /\ Len(FaultAlerts(x, s)) <= Cardinality(Episodes(x, s))
  <2>1. <<"annotated_fault", x, s>> \in AlertKeys
    BY DEF AlertKeys
  <2>2. FaultAlerts(x, s) \in Seq(Nat)
    BY <2>1 DEF EpisodeInv, RuleTypeOK, FaultAlerts
  <2>3. Len(FaultAlerts(x, s)) <= Cardinality(Episodes(x, s))
    BY DEF EpisodeInv, OneAlertPerEpisode
  <2>4. QED
    BY <2>1, <2>2, <2>3
<1>3. ASSUME NEW s \in Scenarios, ~(e.entity = x /\ e.mark = s)
      PROVE  FaultAlerts(x, s)' = FaultAlerts(x, s)
  <2>1. <<"annotated_fault", x, s>> \notin Alerts(e)
    BY <1>3 DEF Alerts, Firing, Key, WindowRules, Counted
  <2>2. QED
    BY <1>2, <2>1 DEF Process, FaultAlerts
<1>4. CASE e.entity # x \/ e.mark = Unmarked
  <2>1. marks'[x] = marks[x] /\ faultState'[x] = faultState[x]
    <3>1. CASE e.entity # x
      BY <1>1, <3>1 DEF Process, FaultStateAfter
    <3>2. CASE e.mark = Unmarked
      BY <1>1, <3>2, RuleAssumption
         DEF RuleAssumption, Process, FaultStateAfter
    <3>3. QED
      BY <1>4, <3>1, <3>2
  <2>2. ASSUME NEW s \in Scenarios
        PROVE  FaultAlerts(x, s)' = FaultAlerts(x, s)
    BY <1>3, <1>4, RuleAssumption DEF RuleAssumption
  <2>3. QED
    BY <1>2, <2>1, <2>2 DEF EpisodeInv, StateIsLastMark, Episodes
<1>5. CASE e.entity = x /\ e.mark # Unmarked
  <2>1. /\ e.mark \in S
        /\ marks'[x] = Append(marks[x], e.mark)
        /\ faultState'[x] = StateOf(e.mark)
    BY <1>1, <1>5 DEF Process, FaultStateAfter, Marks, StateOf
  <2>2. faultState'[x] = IF marks'[x] = <<>> THEN NoState
                         ELSE StateOf(marks'[x][Len(marks'[x])])
    <3>1. /\ Append(marks[x], e.mark) # <<>>
          /\ Append(marks[x], e.mark)[Len(Append(marks[x], e.mark))] = e.mark
      BY <1>1, <2>1, AppendLast
    <3>2. QED
      BY <2>1, <3>1
  <2>3. ASSUME NEW s \in Scenarios
        PROVE  Len(FaultAlerts(x, s)') <= Cardinality(Episodes(x, s)')
    <3>1. Episodes(x, s)' = Runs(Append(marks[x], e.mark), s)
      BY <2>1 DEF Episodes
    <3>2. /\ Cardinality(Runs(marks[x], s)) \in Nat
          /\ Cardinality(Episodes(x, s)') \in Nat
          /\ Cardinality(Runs(marks[x], s)) <= Cardinality(Episodes(x, s)')
          /\ e.mark = s /\ (marks[x] # <<>> => marks[x][Len(marks[x])] # s) =>
               Cardinality(Episodes(x, s)') = Cardinality(Runs(marks[x], s)) + 1
      BY <1>1, <2>1, <3>1, RunsGrow
    <3> Len(FaultAlerts(x, s)) <= Cardinality(Runs(marks[x], s))
      BY <1>2 DEF Episodes
    <3>3. CASE <<"annotated_fault", x, s>> \in Alerts(e)
      <4>1. e.mark = s /\ faultState[x] # s
        BY <1>5, <3>3 DEF Alerts, Firing, Key, Counted, WindowRules
      <4>2. marks[x] # <<>> => marks[x][Len(marks[x])] # s
        BY <4>1, RuleAssumption
           DEF RuleAssumption, EpisodeInv, StateIsLastMark, StateOf
      <4>3. FaultAlerts(x, s)' = Append(FaultAlerts(x, s), e.ts)
        BY <1>2, <3>3 DEF Process, FaultAlerts
      <4>4. Len(FaultAlerts(x, s)') = Len(FaultAlerts(x, s)) + 1
        BY <1>1, <1>2, <4>3
      <4>5. QED
        BY <1>2, <3>2, <4>1, <4>2, <4>4
    <3>4. CASE <<"annotated_fault", x, s>> \notin Alerts(e)
      <4>1. FaultAlerts(x, s)' = FaultAlerts(x, s)
        BY <1>2, <3>4 DEF Process, FaultAlerts
      <4>2. QED
        BY <1>2, <3>2, <4>1
    <3>5. QED
      BY <3>3, <3>4
  <2>4. QED
    BY <2>2, <2>3
<1>6. QED
  BY <1>4, <1>5

\* _rule_annotated_fault: a fault that lasts raises one alert, whatever the
\* rows, the cooldown and the order of their times.
THEOREM EpisodesSafe == RuleSpec => []OneAlertPerEpisode
<1>1. RuleInit => EpisodeInv
  <2> SUFFICES ASSUME RuleInit
               PROVE  StateIsLastMark /\ OneAlertPerEpisode
    BY InitType DEF EpisodeInv
  <2>1. \A x \in Entities : marks[x] = <<>> /\ faultState[x] = NoState
    BY DEF RuleInit
  <2>2. ASSUME NEW x \in Entities, NEW s \in Scenarios
        PROVE  Len(FaultAlerts(x, s)) <= Cardinality(Episodes(x, s))
    <3>1. Runs(<<>>, s) = {}
      BY DEF Runs
    <3>2. Episodes(x, s) = {}
      BY <2>1, <3>1 DEF Episodes
    <3>3. <<"annotated_fault", x, s>> \in AlertKeys
      BY DEF AlertKeys
    <3>4. FaultAlerts(x, s) = <<>>
      BY <3>3 DEF RuleInit, FaultAlerts
    <3>5. QED
      BY <3>2, <3>4, FS_EmptySet
  <2>3. QED
    BY <2>1, <2>2 DEF StateIsLastMark, OneAlertPerEpisode
<1>2. EpisodeInv /\ RuleTypeOK' /\ [RuleNext]_ruleVars => EpisodeInv'
  <2> SUFFICES ASSUME EpisodeInv, RuleTypeOK', [RuleNext]_ruleVars
               PROVE  StateIsLastMark' /\ OneAlertPerEpisode'
    BY DEF EpisodeInv
  <2>1. ASSUME UNCHANGED <<faultState, marks, raised>>
        PROVE  StateIsLastMark' /\ OneAlertPerEpisode'
    BY <2>1 DEF EpisodeInv, StateIsLastMark, OneAlertPerEpisode,
                FaultAlerts, Episodes
  <2>2. ASSUME NEW e \in RuleEvents, Process(e)
        PROVE  StateIsLastMark' /\ OneAlertPerEpisode'
    BY <2>2, ProcessEpisodes DEF StateIsLastMark, OneAlertPerEpisode
  <2>3. QED
    BY <2>1, <2>2 DEF RuleNext, Discard, ruleVars, engine, histories
<1>3. EpisodeInv => OneAlertPerEpisode
  BY DEF EpisodeInv
<1>4. QED
  BY RuleTypesCorrect, <1>1, <1>2, <1>3, PTL DEF RuleSpec

-----------------------------------------------------------------------------
(* Induction: a set of naturals that is not empty has a least element, so a  *)
(* property that fails somewhere fails first somewhere.                      *)

\* Every set of naturals that is not empty has a least element.
LEMMA LeastNumber ==
  ASSUME NEW T \in SUBSET Nat, T # {}
  PROVE  \E n \in T : \A m \in T : n <= m
<1> DEFINE R == OpToRel(<, Nat)
<1>1. IsWellFoundedOn(R, Nat)
  BY NatLessThanWellFounded
<1>2. \A m, n \in Nat : m < n => <<m, n>> \in R
  BY DEF OpToRel
<1> HIDE DEF R
<1>3. PICK n \in T : \A m \in T : ~(<<m, n>> \in R)
  BY <1>1, WFMin
<1>4. \A m \in T : ~(m < n) /\ m \in Nat /\ n \in Nat
  BY <1>2, <1>3
<1>5. \A m \in T : n <= m
  BY <1>4
<1> QED
  BY <1>3, <1>5

\* A set that holds zero and, with a number below n, the next one, holds every
\* number up to n.
LEMMA Induction ==
  ASSUME NEW n \in Nat, NEW P, 0 \in P,
         \A m \in 0..n : m \in P /\ m < n => m + 1 \in P
  PROVE  \A m \in 0..n : m \in P
<1> DEFINE T == {m \in 0..n : m \notin P}
<1> SUFFICES ASSUME T # {} PROVE FALSE
  OBVIOUS
<1>1. T \in SUBSET Nat
  OBVIOUS
<1>2. PICK m \in T : \A o \in T : m <= o
  BY <1>1, LeastNumber
<1>3. m # 0 /\ m - 1 \in 0..n /\ m - 1 < n /\ m - 1 < m /\ (m - 1) + 1 = m
  BY <1>2
<1>4. m - 1 \in P
  BY <1>2, <1>3
<1> QED
  BY <1>2, <1>3, <1>4

-----------------------------------------------------------------------------
(* Sums over a bucket. *)

\* The running sums of a bucket.
Sums(bucket) ==
  CHOOSE f : f = [n \in 0..Len(bucket) |-> IF n = 0 THEN 0 ELSE f[n - 1] + bucket[n][2]]

Weighted == Nat \X Nat

AddsUp(f, bucket, n) ==
  /\ f \in [0..n -> Nat]
  /\ f[0] = 0
  /\ \A m \in 1..n : f[m] = f[m - 1] + bucket[m][2]

\* The running sums exist, are numbers, and each adds one entry.
LEMMA SumsAddUp ==
  ASSUME NEW bucket \in Seq(Weighted)
  PROVE  /\ AddsUp(Sums(bucket), bucket, Len(bucket))
         /\ Total(bucket) = Sums(bucket)[Len(bucket)]
         /\ Total(bucket) \in Nat
<1> DEFINE L == Len(bucket)
           P == {n \in 0..L : \E f : AddsUp(f, bucket, n)}
<1>1. L \in Nat /\ \A n \in 1..L : bucket[n][2] \in Nat
  BY DEF Weighted
<1>2. 0 \in P
  <2>1. AddsUp([n \in 0..0 |-> 0], bucket, 0)
    BY DEF AddsUp
  <2> QED
    BY <1>1, <2>1
<1>3. ASSUME NEW n \in 0..L, n \in P, n < L
      PROVE  n + 1 \in P
  <2>1. PICK f : AddsUp(f, bucket, n)
    BY <1>3
  <2> DEFINE g == [m \in 0..(n + 1) |-> IF m = n + 1 THEN f[n] + bucket[n + 1][2] ELSE f[m]]
  <2>2. f[n] \in Nat /\ bucket[n + 1][2] \in Nat /\ n \in Nat
    BY <1>1, <1>3, <2>1 DEF AddsUp
  <2>3. g \in [0..(n + 1) -> Nat] /\ g[0] = 0
    BY <2>1, <2>2 DEF AddsUp
  <2>4. ASSUME NEW m \in 1..(n + 1) PROVE g[m] = g[m - 1] + bucket[m][2]
    <3>1. CASE m = n + 1
      BY <2>2, <3>1
    <3>2. CASE m # n + 1
      BY <2>1, <2>2, <3>2 DEF AddsUp
    <3> QED
      BY <3>1, <3>2
  <2>5. AddsUp(g, bucket, n + 1)
    BY <2>3, <2>4 DEF AddsUp
  <2> QED
    BY <1>1, <1>3, <2>5
<1> HIDE DEF P
<1>4. L \in P
  <2>1. \A m \in 0..L : m \in P
    BY <1>1, <1>2, <1>3, Induction
  <2> QED
    BY <1>1, <2>1
<1>5. PICK f : AddsUp(f, bucket, L)
  BY <1>4 DEF P
<1>6. f = [n \in 0..L |-> IF n = 0 THEN 0 ELSE f[n - 1] + bucket[n][2]]
  <2>1. \A n \in 0..L : f[n] = IF n = 0 THEN 0 ELSE f[n - 1] + bucket[n][2]
    BY <1>1, <1>5 DEF AddsUp
  <2> QED
    BY <1>5, <2>1 DEF AddsUp
<1>7. Sums(bucket) = [n \in 0..L |-> IF n = 0 THEN 0 ELSE Sums(bucket)[n - 1] + bucket[n][2]]
  BY <1>6 DEF Sums
<1>8. AddsUp(Sums(bucket), bucket, L)
  <2> DEFINE s == Sums(bucket)
             Q == {n \in 0..L : s[n] \in Nat}
  <2>1. /\ DOMAIN s = 0..L /\ s = [n \in 0..L |-> s[n]]
        /\ s[0] = 0 /\ \A n \in 1..L : s[n] = s[n - 1] + bucket[n][2]
    <3> HIDE DEF s
    <3>1. s = [n \in 0..L |-> IF n = 0 THEN 0 ELSE s[n - 1] + bucket[n][2]]
      BY <1>7 DEF s
    <3>2. \A n \in 0..L : s[n] = IF n = 0 THEN 0 ELSE s[n - 1] + bucket[n][2]
      BY <3>1
    <3> QED
      BY <1>1, <3>1, <3>2
  <2> HIDE DEF s
  <2>2. 0 \in Q
    BY <1>1, <2>1
  <2>3. ASSUME NEW n \in 0..L, n \in Q, n < L PROVE n + 1 \in Q
    <3>1. n + 1 \in 1..L /\ (n + 1) - 1 = n /\ n + 1 \in 0..L
      BY <1>1, <2>3
    <3>2. s[n + 1] = s[n] + bucket[n + 1][2] /\ bucket[n + 1][2] \in Nat /\ s[n] \in Nat
      BY <1>1, <2>1, <2>3, <3>1
    <3> QED
      BY <3>1, <3>2
  <2> HIDE DEF Q
  <2>4. \A n \in 0..L : n \in Q
    BY <1>1, <2>2, <2>3, Induction
  <2>5. s \in [0..L -> Nat]
    BY <2>1, <2>4 DEF Q
  <2> QED
    BY <2>1, <2>5 DEF AddsUp, s
<1>9. Total(bucket) = Sums(bucket)[L]
  BY DEF Total, Sums
<1> QED
  BY <1>1, <1>8, <1>9 DEF AddsUp

\* Entries are weighted.
LEMMA EntriesAreWeighted ==
  ASSUME NEW s \in Seq(Entries)
  PROVE  s \in Seq(Weighted)
<1>1. Entries \subseteq Weighted
  BY DEF Entries, Weighted
<1> QED
  BY <1>1

\* An entry more adds its weight.
LEMMA TotalAppend ==
  ASSUME NEW s \in Seq(Weighted), NEW x \in Weighted
  PROVE  Total(Append(s, x)) = Total(s) + x[2]
<1> DEFINE t == Append(s, x)  L == Len(s)  f == Sums(s)  g == Sums(t)
<1>1. /\ L \in Nat /\ t \in Seq(Weighted) /\ Len(t) = L + 1 /\ t[L + 1] = x
      /\ \A i \in 1..L : t[i] = s[i]
  OBVIOUS
<1> HIDE DEF t
<1>2. /\ AddsUp(f, s, L) /\ Total(s) = f[L]
      /\ AddsUp(g, t, L + 1) /\ Total(t) = g[L + 1]
  BY <1>1, SumsAddUp
<1> HIDE DEF f, g
<1> DEFINE P == {n \in 0..L : g[n] = f[n]}
<1>3. 0 \in P
  BY <1>1, <1>2 DEF AddsUp
<1>4. ASSUME NEW n \in 0..L, n \in P, n < L PROVE n + 1 \in P
  <2>1. n + 1 \in 1..L /\ n + 1 \in 1..(L + 1) /\ (n + 1) - 1 = n /\ n + 1 \in 0..L
    BY <1>1, <1>4
  <2>2. g[n + 1] = g[n] + t[n + 1][2] /\ f[n + 1] = f[n] + s[n + 1][2]
    BY <1>2, <2>1 DEF AddsUp
  <2> QED
    BY <1>1, <1>4, <2>1, <2>2
<1> HIDE DEF P
<1>5. \A n \in 0..L : n \in P
  BY <1>1, <1>3, <1>4, Induction
<1>6. g[L] = f[L]
  BY <1>1, <1>5 DEF P
<1>7. L + 1 \in 1..(L + 1) /\ (L + 1) - 1 = L
  BY <1>1
<1>8. g[L + 1] = g[L] + t[L + 1][2]
  BY <1>2, <1>7 DEF AddsUp
<1> QED
  BY <1>1, <1>2, <1>6, <1>8 DEF t

\* A bucket weighs as much as any part of it: the entries of t beyond d are
\* those of s in their order, or count nothing, and those before count nothing.
LEMMA TotalOfPart ==
  ASSUME NEW s \in Seq(Weighted), NEW t \in Seq(Weighted), NEW d \in 0..Len(t),
         Len(s) = Len(t) - d,
         \A i \in 1..d : t[i][2] = 0,
         \A i \in 1..Len(s) : t[d + i][2] <= s[i][2]
  PROVE  Total(t) <= Total(s)
<1> DEFINE K == Len(s)  f == Sums(s)  g == Sums(t)
<1>1. /\ K \in Nat /\ d \in Nat /\ Len(t) = d + K
      /\ \A i \in 1..K : s[i][2] \in Nat
      /\ \A i \in 1..(d + K) : t[i][2] \in Nat
  <2>1. K \in Nat /\ Len(t) \in Nat /\ d \in Nat /\ Len(t) = d + K
    OBVIOUS
  <2>2. \A i \in 1..K : s[i] \in Weighted
    OBVIOUS
  <2>3. \A i \in 1..(d + K) : t[i] \in Weighted
    BY <2>1
  <2> QED
    BY <2>1, <2>2, <2>3 DEF Weighted
<1>2. /\ AddsUp(f, s, K) /\ Total(s) = f[K]
      /\ AddsUp(g, t, d + K) /\ Total(t) = g[d + K]
  BY <1>1, SumsAddUp
<1> HIDE DEF f, g
<1> DEFINE P == {n \in 0..d : g[n] = 0}
<1>3. 0 \in P
  BY <1>1, <1>2 DEF AddsUp
<1>4. ASSUME NEW n \in 0..d, n \in P, n < d PROVE n + 1 \in P
  <2>1. n + 1 \in 1..d /\ n + 1 \in 1..(d + K) /\ (n + 1) - 1 = n /\ n + 1 \in 0..d
    BY <1>1, <1>4
  <2>2. g[n + 1] = g[n] + t[n + 1][2] /\ t[n + 1][2] = 0
    BY <1>2, <2>1 DEF AddsUp
  <2> QED
    BY <1>4, <2>1, <2>2
<1> HIDE DEF P
<1>5. \A n \in 0..d : n \in P
  BY <1>1, <1>3, <1>4, Induction
<1>6. g[d] = 0
  BY <1>1, <1>5 DEF P
<1> DEFINE Q == {n \in 0..K : g[d + n] <= f[n]}
<1>7. 0 \in Q
  BY <1>1, <1>2, <1>6 DEF AddsUp
<1>8. ASSUME NEW n \in 0..K, n \in Q, n < K PROVE n + 1 \in Q
  <2>1. /\ n + 1 \in 1..K /\ (n + 1) - 1 = n /\ n + 1 \in 0..K
        /\ d + (n + 1) \in 1..(d + K) /\ (d + (n + 1)) - 1 = d + n /\ d + n \in 0..(d + K)
    BY <1>1, <1>8
  <2>2. /\ g[d + (n + 1)] = g[d + n] + t[d + (n + 1)][2]
        /\ f[n + 1] = f[n] + s[n + 1][2]
        /\ g[d + n] \in Nat /\ f[n] \in Nat
    BY <1>2, <2>1, <1>1 DEF AddsUp
  <2>3. /\ t[d + (n + 1)][2] <= s[n + 1][2]
        /\ t[d + (n + 1)][2] \in Nat /\ s[n + 1][2] \in Nat
    BY <1>1, <2>1
  <2>4. g[d + n] <= f[n]
    BY <1>8
  <2>5. g[d + (n + 1)] <= f[n + 1]
    BY <2>2, <2>3, <2>4
  <2> QED
    BY <2>1, <2>5
<1> HIDE DEF Q
<1>9. \A n \in 0..K : n \in Q
  BY <1>1, <1>7, <1>8, Induction
<1>10. g[d + K] <= f[K]
  BY <1>1, <1>9 DEF Q
<1> QED
  BY <1>2, <1>10

-----------------------------------------------------------------------------
(* What a window drops and keeps. *)

\* A set of numbers that has, with a number, all below it, is an interval.
LEMMA DownClosed ==
  ASSUME NEW L \in Nat, NEW D \in SUBSET (1..L),
         \A n \in D : 1..n \subseteq D
  PROVE  /\ Cardinality(D) \in 0..L
         /\ D = 1..Cardinality(D)
<1> DEFINE B == {b \in Nat : \A n \in D : n <= b}
<1>1. L \in B
  OBVIOUS
<1>2. PICK b \in B : \A c \in B : b <= c
  BY <1>1, LeastNumber
<1>3. D = 1..b
  <2>1. CASE b = 0
    BY <1>2, <2>1
  <2>2. CASE b # 0
    <3>1. b - 1 \in Nat /\ ~(b <= b - 1) /\ b \in Nat
      BY <1>2, <2>2
    <3>2. b - 1 \notin B
      BY <1>2, <3>1
    <3>3. PICK n \in D : ~(n <= b - 1)
      BY <3>1, <3>2
    <3>4. n = b
      BY <1>2, <3>1, <3>3
    <3>5. 1..b \subseteq D
      BY <3>3, <3>4
    <3>6. D \subseteq 1..b
      BY <1>2
    <3> QED
      BY <3>5, <3>6
  <2> QED
    BY <2>1, <2>2
<1>4. b \in Nat /\ b <= L
  BY <1>1, <1>2
<1>5. Cardinality(1..b) = b
  BY <1>4, FS_Interval
<1> QED
  BY <1>3, <1>4, <1>5

\* Pruning drops a prefix of entries that are all expired, and stops at the
\* first that is not.
LEMMA PrunedPrefix ==
  ASSUME NEW rule, NEW bucket \in Seq(Entries), NEW now
  PROVE  \E c \in 0..Len(bucket) :
           /\ Pruned(rule, bucket, now) = SubSeq(bucket, c + 1, Len(bucket))
           /\ \A i \in 1..c : Expired(rule, bucket[i], now)
           /\ c < Len(bucket) => ~Expired(rule, bucket[c + 1], now)
<1> DEFINE L == Len(bucket)
           drop == {n \in 1..L : \A i \in 1..n : Expired(rule, bucket[i], now)}
           c == Cardinality(drop)
<1>1. L \in Nat
  OBVIOUS
<1>2. drop \in SUBSET (1..L) /\ \A n \in drop : 1..n \subseteq drop
  BY <1>1
<1>3. Pruned(rule, bucket, now) = SubSeq(bucket, c + 1, L)
  BY DEF Pruned
<1>4. c \in 0..L /\ drop = 1..c
  <2> HIDE DEF drop
  <2> QED
    BY <1>1, <1>2, DownClosed
<1>5. \A i \in 1..c : Expired(rule, bucket[i], now)
  <2>1. \A i \in drop : Expired(rule, bucket[i], now)
    BY <1>1
  <2> HIDE DEF drop
  <2> QED
    BY <1>4, <2>1
<1>6. ASSUME c < L PROVE ~Expired(rule, bucket[c + 1], now)
  <2> SUFFICES ASSUME Expired(rule, bucket[c + 1], now) PROVE FALSE
    OBVIOUS
  <2>1. c \in Nat /\ c + 1 \in 1..L /\ c + 1 \notin 1..c
    BY <1>1, <1>4, <1>6
  <2>2. \A i \in 1..(c + 1) : i \in 1..c \/ i = c + 1
    BY <2>1
  <2>3. \A i \in 1..(c + 1) : Expired(rule, bucket[i], now)
    <3> HIDE DEF c
    <3> QED
      BY <1>5, <2>2
  <2>4. c + 1 \in drop
    BY <2>1, <2>3
  <2> QED
    BY <1>4, <2>1, <2>4
<1> QED
  BY <1>3, <1>4, <1>5, <1>6

\* The newest time of a sequence of entries.
TimesIn(u) == {u[i][1] : i \in 1..Len(u)}
IsNewest(u, t) == t \in TimesIn(u) /\ \A v \in TimesIn(u) : v <= t
NewestIn(u) == CHOOSE t \in TimesIn(u) : \A v \in TimesIn(u) : v <= t
HasNewest(u) == u # <<>> => IsNewest(u, NewestIn(u))

\* A new entry is the newest, or the newest stays.
LEMMA NewestGrows ==
  ASSUME NEW u \in Seq(Entries), NEW x \in Entries, HasNewest(u)
  PROVE  /\ IsNewest(Append(u, x), NewestIn(Append(u, x)))
         /\ NewestIn(Append(u, x)) \in Nat
         /\ x[1] <= NewestIn(Append(u, x))
         /\ NewestIn(Append(u, x)) = x[1] \/ (u # <<>> /\ NewestIn(Append(u, x)) = NewestIn(u))
         /\ u # <<>> => NewestIn(u) \in Nat /\ NewestIn(u) <= NewestIn(Append(u, x))
         /\ \A i \in 1..Len(u) : u[i][1] \in Nat /\ u[i][1] <= NewestIn(Append(u, x))
<1> DEFINE v == Append(u, x)  L == Len(u)
<1>1. /\ L \in Nat /\ Len(v) = L + 1 /\ v[L + 1] = x /\ \A i \in 1..L : v[i] = u[i]
      /\ u # <<>> <=> L > 0
  OBVIOUS
<1>2. x[1] \in Nat /\ \A i \in 1..L : u[i][1] \in Nat
  <2>1. x \in Entries /\ \A i \in 1..L : u[i] \in Entries
    OBVIOUS
  <2> QED
    BY <2>1 DEF Entries
<1> HIDE DEF v
<1>3. TimesIn(v) = TimesIn(u) \cup {x[1]}
  <2>1. \A i \in 1..(L + 1) : i \in 1..L \/ i = L + 1
    BY <1>1
  <2> QED
    BY <1>1, <2>1 DEF TimesIn
<1>4. TimesIn(u) \subseteq Nat
  BY <1>2 DEF TimesIn
<1>5. u # <<>> => NewestIn(u) \in TimesIn(u) /\ \A t \in TimesIn(u) : t <= NewestIn(u)
  BY DEF HasNewest, IsNewest
<1>6. u = <<>> => TimesIn(u) = {}
  BY <1>1 DEF TimesIn
<1>7. \E t \in TimesIn(v) : \A w \in TimesIn(v) : w <= t
  <2>1. CASE u = <<>> \/ NewestIn(u) <= x[1]
    BY <1>2, <1>3, <1>4, <1>5, <1>6, <2>1
  <2>2. CASE u # <<>> /\ ~(NewestIn(u) <= x[1])
    BY <1>2, <1>3, <1>4, <1>5, <2>2
  <2> QED
    BY <2>1, <2>2
<1>8. NewestIn(v) \in TimesIn(v) /\ \A w \in TimesIn(v) : w <= NewestIn(v)
  BY <1>7 DEF NewestIn
<1>9. NewestIn(v) = x[1] \/ (u # <<>> /\ NewestIn(v) = NewestIn(u))
  <2>1. CASE NewestIn(v) \in TimesIn(u)
    <3>1. u # <<>> /\ NewestIn(u) \in TimesIn(v)
      BY <1>3, <1>5, <1>6, <2>1
    <3>2. NewestIn(v) <= NewestIn(u) /\ NewestIn(u) <= NewestIn(v)
      BY <1>5, <1>8, <2>1, <3>1
    <3>3. NewestIn(v) \in Nat /\ NewestIn(u) \in Nat
      BY <1>4, <1>5, <2>1, <3>1
    <3> QED
      BY <3>1, <3>2, <3>3
  <2> QED
    BY <1>3, <1>8, <2>1
<1>10. \A i \in 1..L : u[i][1] <= NewestIn(v)
  BY <1>3, <1>8 DEF TimesIn
<1>11. NewestIn(v) \in Nat /\ x[1] <= NewestIn(v) /\ (u # <<>> => NewestIn(u) \in Nat /\ NewestIn(u) <= NewestIn(v))
  BY <1>2, <1>3, <1>4, <1>5, <1>8
<1> QED
  BY <1>2, <1>8, <1>9, <1>10, <1>11 DEF v, IsNewest

\* A window holds the end of what entered, what it dropped is too old to count,
\* and while the entries came in order it holds nothing else too old.
EndFrom(w, u, len, d) ==
  /\ Len(w) = Len(u) - d
  /\ \A i \in 1..Len(w) : w[i] = u[d + i]
  /\ \A i \in 1..d : u[i][1] < NewestIn(u) - len
  /\ InOrder(u) => \A i \in 1..Len(w) : w[i][1] >= NewestIn(u) - len

HoldsTheEnd(w, u, len) == \E d \in 0..Len(u) : EndFrom(w, u, len, d)

\* Sliding: the expired prefix goes and the new entry comes.
LEMMA SlideKeeps ==
  ASSUME NEW u \in Seq(Entries), NEW w \in Seq(Entries), NEW len \in Nat, NEW x \in Entries,
         HasNewest(u), NEW d \in 0..Len(u), EndFrom(w, u, len, d),
         NEW c \in 0..Len(w), \A i \in 1..c : w[i][1] < x[1] - len,
         c < Len(w) => ~(w[c + 1][1] < x[1] - len)
  PROVE  /\ d + c \in 0..Len(Append(u, x))
         /\ EndFrom(Append(SubSeq(w, c + 1, Len(w)), x), Append(u, x), len, d + c)
<1> DEFINE v == Append(u, x)  s == Append(SubSeq(w, c + 1, Len(w)), x)  L == Len(u)
           N == NewestIn(v)
<1>1. /\ L \in Nat /\ d \in Nat /\ c \in Nat /\ d <= L /\ Len(w) = L - d /\ c <= L - d
      /\ Len(v) = L + 1 /\ v[L + 1] = x /\ \A i \in 1..L : v[i] = u[i]
  BY DEF EndFrom
<1>2. /\ Len(s) = (L - d - c) + 1 /\ s[(L - d - c) + 1] = x
      /\ \A i \in 1..(L - d - c) : s[i] = w[c + i]
  <2> DEFINE r == SubSeq(w, c + 1, Len(w))
  <2>1. /\ r \in Seq(Entries) /\ Len(r) = L - d - c
        /\ \A i \in 1..(L - d - c) : r[i] = w[c + i]
    <3>1. w \in Seq(Entries) /\ c + 1 \in 1..(Len(w) + 1) /\ Len(w) \in Nat
      BY <1>1
    <3>2. /\ r \in Seq(Entries) /\ Len(r) = Len(w) - c
          /\ \A i \in 1..(Len(w) - c) : r[i] = w[(c + 1) + i - 1]
      BY <3>1
    <3>3. \A i \in 1..(Len(w) - c) : (c + 1) + i - 1 = c + i
      BY <3>1
    <3> QED
      BY <1>1, <3>2, <3>3
  <2> HIDE DEF r
  <2>2. /\ Len(Append(r, x)) = Len(r) + 1 /\ Append(r, x)[Len(r) + 1] = x
        /\ \A i \in 1..Len(r) : Append(r, x)[i] = r[i]
    BY <2>1
  <2> QED
    BY <2>1, <2>2 DEF r
<1>3. /\ N \in Nat /\ x[1] \in Nat /\ x[1] <= N
      /\ N = x[1] \/ (u # <<>> /\ N = NewestIn(u))
      /\ u # <<>> => NewestIn(u) \in Nat /\ NewestIn(u) <= N
      /\ \A i \in 1..L : u[i][1] \in Nat /\ u[i][1] <= N
  <2>1. x[1] \in Nat
    BY DEF Entries
  <2> QED
    BY <2>1, NewestGrows
<1> HIDE DEF v, s, N
<1>4. \A i \in 1..(L - d) : w[i] = u[d + i] /\ d + i \in 1..L
  BY <1>1 DEF EndFrom
<1>5. \A i \in 1..Len(s) : s[i] = v[d + c + i]
  <2> SUFFICES ASSUME NEW i \in 1..Len(s) PROVE s[i] = v[d + c + i]
    OBVIOUS
  <2>1. CASE i = (L - d - c) + 1
    <3>1. d + c + i = L + 1
      BY <1>1, <2>1
    <3> QED
      BY <1>1, <1>2, <2>1, <3>1
  <2>2. CASE i # (L - d - c) + 1
    <3>1. i \in 1..(L - d - c) /\ c + i \in 1..(L - d) /\ d + (c + i) = d + c + i
      BY <1>1, <1>2, <2>2
    <3> QED
      BY <1>1, <1>2, <1>4, <3>1
  <2> QED
    BY <2>1, <2>2
<1>6. ASSUME NEW i \in 1..(d + c) PROVE v[i][1] < N - len
  <2>1. i \in 1..L /\ v[i] = u[i]
    BY <1>1
  <2>2. CASE i <= d
    <3>1. u # <<>> /\ u[i][1] < NewestIn(u) - len
      BY <1>1, <2>1, <2>2 DEF EndFrom
    <3> QED
      BY <1>3, <2>1, <3>1
  <2>3. CASE i > d
    <3>1. i - d \in 1..c /\ i - d \in 1..(L - d) /\ d + (i - d) = i
      BY <1>1, <2>3
    <3>2. w[i - d] = u[i]
      BY <1>4, <3>1
    <3>3. u[i][1] < x[1] - len
      BY <3>1, <3>2
    <3>4. u[i][1] \in Nat /\ N \in Nat /\ x[1] \in Nat /\ x[1] <= N
      BY <1>3, <2>1
    <3>5. u[i][1] < N - len
      BY <3>3, <3>4
    <3> QED
      BY <2>1, <3>5
  <2> QED
    BY <1>1, <2>2, <2>3
<1>7. ASSUME InOrder(v), NEW i \in 1..Len(s) PROVE s[i][1] >= N - len
  <2>1. \A j \in 1..L : u[j][1] <= x[1]
    <3>1. \A j \in 1..L : v[j][1] <= v[L + 1][1]
      BY <1>1, <1>7 DEF InOrder
    <3> QED
      BY <1>1, <3>1
  <2>2. N = x[1]
    <3>1. CASE u # <<>> /\ N = NewestIn(u)
      <4>1. \E j \in 1..L : N = u[j][1]
        BY <3>1 DEF HasNewest, IsNewest, TimesIn
      <4> QED
        BY <1>3, <2>1, <4>1
    <3> QED
      BY <1>3, <3>1
  <2>3. CASE i = (L - d - c) + 1
    BY <1>2, <1>3, <2>2, <2>3
  <2>4. CASE i # (L - d - c) + 1
    <3>1. /\ i \in 1..(L - d - c) /\ c < Len(w) /\ c + i \in 1..(L - d)
          /\ c + 1 \in 1..(L - d) /\ d + (c + 1) \in 1..L /\ d + (c + i) \in 1..L
          /\ d + (c + 1) <= d + (c + i)
      BY <1>1, <1>2, <2>4
    <3>2. /\ w[c + 1] = u[d + (c + 1)] /\ s[i] = u[d + (c + i)]
      BY <1>2, <1>4, <3>1
    <3>3. u[d + (c + 1)][1] <= u[d + (c + i)][1]
      <4>1. CASE c + 1 = c + i
        BY <1>3, <3>1, <4>1
      <4>2. CASE d + (c + 1) < d + (c + i)
        <5>1. d + (c + 1) \in 1..Len(v) /\ d + (c + i) \in 1..Len(v)
          BY <1>1, <3>1
        <5>2. v[d + (c + 1)][1] <= v[d + (c + i)][1]
          BY <1>7, <4>2, <5>1 DEF InOrder
        <5> QED
          BY <1>1, <3>1, <5>2
      <4> QED
        BY <1>1, <3>1, <4>1, <4>2
    <3>4. ~(u[d + (c + 1)][1] < x[1] - len)
      BY <3>1, <3>2
    <3>5. u[d + (c + 1)][1] \in Nat /\ u[d + (c + i)][1] \in Nat /\ x[1] \in Nat
      BY <1>3, <3>1
    <3>6. u[d + (c + i)][1] >= x[1] - len
      BY <3>3, <3>4, <3>5
    <3> QED
      BY <2>2, <3>2, <3>6
  <2> QED
    BY <2>3, <2>4
<1>8. Len(s) = Len(v) - (d + c) /\ d + c \in 0..Len(v)
  BY <1>1, <1>2
<1> QED
  BY <1>5, <1>6, <1>7, <1>8 DEF EndFrom, v, s, N

\* The end of a sequence is what stands at the places of an interval.
LEMMA AtInterval ==
  ASSUME NEW S, NEW u \in Seq(S), NEW d \in 0..Len(u)
  PROVE  At(u, (d + 1)..Len(u)) = [n \in 1..(Len(u) - d) |-> u[d + n]]
<1> DEFINE L == Len(u)  I == (d + 1)..L
<1>1. L \in Nat /\ d \in Nat /\ d <= L
  OBVIOUS
<1>2. Cardinality(I) = L - d
  <2>1. /\ d + 1 \in Int /\ L \in Int
        /\ d + 1 > L => L - d = 0
        /\ L - (d + 1) + 1 = L - d
    BY <1>1
  <2>2. Cardinality((d + 1)..L) = IF d + 1 > L THEN 0 ELSE L - (d + 1) + 1
    BY <2>1, FS_Interval
  <2> QED
    BY <2>1, <2>2
<1>3. ASSUME NEW i \in I PROVE Cardinality({j \in I : j <= i}) = i - d
  <2>1. {j \in I : j <= i} = (d + 1)..i
    BY <1>1
  <2>2. d + 1 \in Int /\ i \in Int /\ i >= d + 1
    BY <1>1
  <2>3. Cardinality((d + 1)..i) = i - d
    BY <1>1, <2>2, FS_Interval
  <2> QED
    BY <2>1, <2>3
<1>4. ASSUME NEW n \in 1..(L - d)
      PROVE  (CHOOSE i \in I : Cardinality({j \in I : j <= i}) = n) = d + n
  <2>1. d + n \in I /\ (d + n) - d = n
    BY <1>1
  <2>2. \A i \in I : i - d = n => i = d + n
    BY <1>1
  <2>3. \A i \in I : Cardinality({j \in I : j <= i}) = n <=> i = d + n
    BY <1>3, <2>1, <2>2
  <2> HIDE DEF I
  <2> QED
    BY <2>1, <2>3
<1> HIDE DEF I
<1>5. At(u, I) = [n \in 1..(L - d) |->
                    u[CHOOSE i \in I : Cardinality({j \in I : j <= i}) = n]]
  BY <1>2 DEF At
<1> QED
  BY <1>4, <1>5 DEF I

-----------------------------------------------------------------------------
(* The windows of the engine. *)

\* What entered has a newest time, and every window holds the end of it.
WindowsHoldTheEnd ==
  /\ entered \in [WindowKeys -> Seq(Entries)]
  /\ \A k \in WindowKeys : /\ HasNewest(entered[k])
                           /\ HoldsTheEnd(windows[k], entered[k], Window[k[1]])

WindowInv == RuleTypeOK /\ WindowsHoldTheEnd

\* Event e enters the window of k.
Enters(e, k) == k = Key(k[1], e) /\ Weight(k[1], e) > 0

EntryOf(e, k) == <<e.ts, Weight(k[1], e)>>

\* The rule of a key has its window and threshold.
LEMMA KeyTypes ==
  ASSUME NEW k \in WindowKeys
  PROVE  /\ k[1] \in WindowRules
         /\ Window[k[1]] \in Nat /\ Threshold[k[1]] \in Nat /\ Cooldown \in Nat
         /\ k \in AlertKeys
<1>1. k[1] \in WindowRules
  BY DEF WindowKeys, WindowRules
<1> QED
  BY <1>1, RuleAssumption DEF RuleAssumption, AlertKeys

\* An event adds one entry to the keys it counts for, and slides their windows.
LEMMA ProcessEntries ==
  ASSUME WindowInv, NEW e \in RuleEvents, Process(e), NEW k \in WindowKeys
  PROVE  /\ ~Enters(e, k) => entered'[k] = entered[k] /\ windows'[k] = windows[k]
         /\ Enters(e, k) =>
              /\ EntryOf(e, k) \in Entries
              /\ entered'[k] = Append(entered[k], EntryOf(e, k))
              /\ windows'[k] = Append(Pruned(k[1], windows[k], e.ts), EntryOf(e, k))
              /\ k[1] \in Counted(e) /\ Slid(k[1], e) = windows'[k]
<1>1. e.ts \in Nat /\ Weight(k[1], e) \in Nat /\ k[1] \in WindowRules
  BY EventType, WeightType, KeyTypes DEF Process
<1>2. entered'[k] = IF Enters(e, k) THEN Append(entered[k], EntryOf(e, k)) ELSE entered[k]
  BY DEF Process, Enters, EntryOf
<1>3. (\E rule \in Counted(e) : k = Key(rule, e)) <=> Enters(e, k)
  <2>1. \A rule : k = Key(rule, e) => k[1] = rule
    BY DEF Key
  <2> QED
    BY <1>1, <2>1 DEF Counted, Enters
<1>4. windows'[k] = IF Enters(e, k) THEN Slid(k[1], e) ELSE windows[k]
  BY <1>3 DEF Process, WindowsAfter
<1>5. ASSUME Enters(e, k)
      PROVE  /\ Slid(k[1], e) = Append(Pruned(k[1], windows[k], e.ts), EntryOf(e, k))
             /\ EntryOf(e, k) \in Entries /\ k[1] \in Counted(e)
  <2>1. k = Key(k[1], e) /\ Weight(k[1], e) \in Nat \ {0}
    BY <1>1, <1>5 DEF Enters
  <2>2. Slid(k[1], e) = Append(Pruned(k[1], windows[k], e.ts), EntryOf(e, k))
    BY <2>1 DEF Slid, EntryOf
  <2> QED
    BY <1>1, <2>1, <2>2 DEF EntryOf, Entries, Counted
<1> QED
  BY <1>2, <1>4, <1>5

\* A window that slides goes on to hold the end.
LEMMA ProcessWindow ==
  ASSUME WindowInv, RuleTypeOK', NEW e \in RuleEvents, Process(e), NEW k \in WindowKeys
  PROVE  /\ entered'[k] \in Seq(Entries)
         /\ HasNewest(entered'[k])
         /\ HoldsTheEnd(windows'[k], entered'[k], Window[k[1]])
<1> DEFINE u == entered[k]  w == windows[k]  x == EntryOf(e, k)  len == Window[k[1]]
<1>1. /\ u \in Seq(Entries) /\ w \in Seq(Entries) /\ HasNewest(u) /\ HoldsTheEnd(w, u, len)
      /\ len \in Nat
  BY KeyTypes DEF WindowInv, WindowsHoldTheEnd, RuleTypeOK
<1>2. CASE ~Enters(e, k)
  BY <1>1, <1>2, ProcessEntries
<1>3. CASE Enters(e, k)
  <2>1. /\ x \in Entries /\ entered'[k] = Append(u, x)
        /\ windows'[k] = Append(Pruned(k[1], w, e.ts), x)
    BY <1>3, ProcessEntries
  <2>2. x[1] = e.ts
    BY DEF EntryOf
  <2> HIDE DEF x, u, w, len
  <2>3. PICK c \in 0..Len(w) :
          /\ Pruned(k[1], w, e.ts) = SubSeq(w, c + 1, Len(w))
          /\ \A i \in 1..c : Expired(k[1], w[i], e.ts)
          /\ c < Len(w) => ~Expired(k[1], w[c + 1], e.ts)
    BY <1>1, PrunedPrefix
  <2>4. \A y : Expired(k[1], y, e.ts) <=> y[1] < x[1] - len
    BY <2>2 DEF Expired, len
  <2>5. PICK d \in 0..Len(u) : EndFrom(w, u, len, d)
    BY <1>1 DEF HoldsTheEnd
  <2>6. /\ d + c \in 0..Len(Append(u, x))
        /\ EndFrom(Append(SubSeq(w, c + 1, Len(w)), x), Append(u, x), len, d + c)
    BY <1>1, <2>1, <2>3, <2>4, <2>5, SlideKeeps
  <2>7. Append(u, x) \in Seq(Entries) /\ HasNewest(Append(u, x))
    BY <1>1, <2>1, NewestGrows DEF HasNewest
  <2> QED
    BY <2>1, <2>3, <2>6, <2>7 DEF HoldsTheEnd, len
<1> QED
  BY <1>2, <1>3

\* The windows hold the end of what entered, always.
LEMMA WindowsHold == RuleSpec => []WindowInv
<1>1. RuleInit => WindowInv
  <2> SUFFICES ASSUME RuleInit PROVE WindowInv
    OBVIOUS
  <2>1. \A k \in WindowKeys : entered[k] = <<>> /\ windows[k] = <<>>
    BY DEF RuleInit
  <2>2. entered \in [WindowKeys -> Seq(Entries)]
    BY DEF RuleInit
  <2>3. \A len : EndFrom(<<>>, <<>>, len, 0) /\ HasNewest(<<>>)
    BY DEF EndFrom, HasNewest
  <2>4. \A len : HoldsTheEnd(<<>>, <<>>, len)
    BY <2>3 DEF HoldsTheEnd
  <2> QED
    BY InitType, <2>1, <2>2, <2>3, <2>4 DEF WindowInv, WindowsHoldTheEnd
<1>2. WindowInv /\ RuleTypeOK' /\ [RuleNext]_ruleVars => WindowInv'
  <2> SUFFICES ASSUME WindowInv, RuleTypeOK', [RuleNext]_ruleVars PROVE WindowsHoldTheEnd'
    BY DEF WindowInv
  <2>1. CASE UNCHANGED <<windows, entered>>
    BY <2>1 DEF WindowInv, WindowsHoldTheEnd
  <2>2. ASSUME NEW e \in RuleEvents, Process(e) PROVE WindowsHoldTheEnd'
    <3>1. DOMAIN entered' = WindowKeys /\ entered' = [k \in WindowKeys |-> entered'[k]]
      BY <2>2 DEF Process
    <3>2. \A k \in WindowKeys : /\ entered'[k] \in Seq(Entries)
                                /\ HasNewest(entered'[k])
                                /\ HoldsTheEnd(windows'[k], entered'[k], Window[k[1]])
      BY <2>2, ProcessWindow
    <3> QED
      BY <3>1, <3>2 DEF WindowsHoldTheEnd
  <2> QED
    BY <2>1, <2>2 DEF RuleNext, Discard, ruleVars, engine, histories
<1> QED
  BY RuleTypesCorrect, <1>1, <1>2, PTL DEF RuleSpec

\* _rule_deny_burst and _rule_bytes_spike: while the entries of a key come in
\* order, its window is what entered in the last Window seconds, exactly.
THEOREM WindowsExact == RuleSpec => []InOrderWindowsAreExact
<1>1. WindowInv => InOrderWindowsAreExact
  <2> SUFFICES ASSUME WindowInv, NEW k \in WindowKeys, entered[k] # <<>>, InOrder(entered[k])
               PROVE  windows[k] = Recent(k)
    BY DEF InOrderWindowsAreExact
  <2> DEFINE u == entered[k]  w == windows[k]  len == Window[k[1]]  N == NewestIn(u)
  <2>1. /\ u \in Seq(Entries) /\ w \in Seq(Entries) /\ len \in Nat
        /\ IsNewest(u, N) /\ HoldsTheEnd(w, u, len)
    BY KeyTypes DEF WindowInv, WindowsHoldTheEnd, RuleTypeOK, HasNewest
  <2>2. PICK d \in 0..Len(u) : EndFrom(w, u, len, d)
    BY <2>1 DEF HoldsTheEnd
  <2>3. RecentIndices(k) = {i \in 1..Len(u) : u[i][1] >= N - len}
    BY DEF RecentIndices, Newest, Times, NewestIn, TimesIn
  <2>4. InOrder(u)
    OBVIOUS
  <2> HIDE DEF u, w, len, N
  <2>5. \A i \in 1..Len(u) : u[i][1] \in Nat
    <3>1. \A i \in 1..Len(u) : u[i] \in Entries
      BY <2>1
    <3> QED
      BY <3>1 DEF Entries
  <2>6. N \in Nat
    BY <2>1, <2>5 DEF IsNewest, TimesIn
  <2>7. {i \in 1..Len(u) : u[i][1] >= N - len} = (d + 1)..Len(u)
    <3>1. Len(u) \in Nat /\ d \in Nat /\ Len(w) = Len(u) - d
      BY <2>1, <2>2 DEF EndFrom
    <3>2. ASSUME NEW i \in 1..Len(u), i <= d PROVE ~(u[i][1] >= N - len)
      <4>1. u[i][1] < N - len /\ u[i][1] \in Nat
        BY <2>2, <2>5, <3>1, <3>2 DEF EndFrom, N
      <4> QED
        BY <2>1, <2>6, <4>1
    <3>3. ASSUME NEW i \in 1..Len(u), i > d PROVE u[i][1] >= N - len
      <4>1. i - d \in 1..Len(w) /\ d + (i - d) = i
        BY <3>1, <3>3
      <4> QED
        BY <2>2, <2>4, <4>1 DEF EndFrom, N
    <3> QED
      BY <3>1, <3>2, <3>3
  <2>8. At(u, (d + 1)..Len(u)) = [n \in 1..(Len(u) - d) |-> u[d + n]]
    BY <2>1, AtInterval
  <2>9. w = [n \in 1..(Len(u) - d) |-> u[d + n]]
    <3>1. w = [n \in 1..Len(w) |-> w[n]]
      BY <2>1
    <3> QED
      BY <2>2, <3>1 DEF EndFrom
  <2> QED
    BY <2>3, <2>7, <2>8, <2>9 DEF Recent, u, w
<1> QED
  BY WindowsHold, <1>1, PTL

-----------------------------------------------------------------------------
(* No burst stays silent. *)

\* A sequence of entries with those outside the window weighing nothing.
Masked(u, len) ==
  [i \in 1..Len(u) |-> IF u[i][1] >= NewestIn(u) - len THEN u[i] ELSE <<0, 0>>]

\* The masked sequence is one of weights.
LEMMA MaskedType ==
  ASSUME NEW u \in Seq(Entries), NEW len
  PROVE  Masked(u, len) \in Seq(Weighted) /\ Len(Masked(u, len)) = Len(u)
<1>1. Len(u) \in Nat /\ \A i \in 1..Len(u) : u[i] \in Weighted
  BY EntriesAreWeighted
<1>2. <<0, 0>> \in Weighted
  BY DEF Weighted
<1>3. \A i \in 1..Len(u) :
        (IF u[i][1] >= NewestIn(u) - len THEN u[i] ELSE <<0, 0>>) \in Weighted
  BY <1>1, <1>2
<1> QED
  BY <1>1, <1>3 DEF Masked

\* The weight of the window is the total of the masked sequence.
LEMMA RecentIsMasked ==
  ASSUME NEW k
  PROVE  RecentWeight(k) = Total(Masked(entered[k], Window[k[1]]))
<1> DEFINE u == entered[k]  len == Window[k[1]]
<1>1. \A i \in 1..Len(u) : i \in RecentIndices(k) <=> u[i][1] >= NewestIn(u) - len
  BY DEF RecentIndices, Newest, Times, NewestIn, TimesIn
<1>2. [i \in 1..Len(u) |-> IF i \in RecentIndices(k) THEN u[i] ELSE <<0, 0>>]
        = Masked(u, len)
  BY <1>1 DEF Masked
<1> QED
  BY <1>2 DEF RecentWeight

\* An entry older than the window changes neither the newest nor the weight.
LEMMA LateEntry ==
  ASSUME NEW u \in Seq(Entries), NEW x \in Entries, NEW len \in Nat, HasNewest(u),
         x[1] < NewestIn(Append(u, x)) - len
  PROVE  /\ u # <<>> /\ NewestIn(Append(u, x)) = NewestIn(u)
         /\ Total(Masked(Append(u, x), len)) = Total(Masked(u, len))
<1> DEFINE v == Append(u, x)
<1>1. /\ x[1] \in Nat /\ NewestIn(v) \in Nat /\ Len(u) \in Nat /\ Len(v) = Len(u) + 1
      /\ v[Len(u) + 1] = x /\ \A i \in 1..Len(u) : v[i] = u[i]
  BY NewestGrows DEF Entries
<1>2. NewestIn(v) # x[1]
  BY <1>1
<1>3. u # <<>> /\ NewestIn(v) = NewestIn(u)
  BY <1>2, NewestGrows
<1>4. Masked(u, len) \in Seq(Weighted) /\ Len(Masked(u, len)) = Len(u)
  BY MaskedType
<1>5. <<0, 0>> \in Weighted /\ <<0, 0>>[2] = 0
  BY DEF Weighted
<1>6. Masked(v, len) = Append(Masked(u, len), <<0, 0>>)
  <2> DEFINE a == Append(Masked(u, len), <<0, 0>>)
  <2>1. /\ a \in Seq(Weighted) /\ Len(a) = Len(u) + 1 /\ a[Len(u) + 1] = <<0, 0>>
        /\ \A i \in 1..Len(u) : a[i] = Masked(u, len)[i]
    BY <1>4, <1>5
  <2>2. a = [i \in 1..(Len(u) + 1) |-> a[i]]
    BY <2>1
  <2> HIDE DEF a, v
  <2>3. ASSUME NEW i \in 1..(Len(u) + 1)
        PROVE  a[i] = IF v[i][1] >= NewestIn(v) - len THEN v[i] ELSE <<0, 0>>
    <3>1. CASE i \in 1..Len(u)
      BY <1>1, <1>3, <2>1, <3>1 DEF Masked
    <3>2. CASE i = Len(u) + 1
      <4>1. ~(x[1] >= NewestIn(v) - len)
        BY <1>1 DEF v
      <4> QED
        BY <1>1, <2>1, <3>2, <4>1
    <3> QED
      BY <1>1, <3>1, <3>2
  <2> QED
    BY <1>1, <2>2, <2>3 DEF Masked, a
<1>7. Total(Masked(u, len)) \in Nat
  BY <1>4, SumsAddUp
<1> QED
  BY <1>3, <1>4, <1>5, <1>6, <1>7, TotalAppend

\* The window weighs at least what the newest entries of its length weigh.
LEMMA WindowWeighs ==
  ASSUME NEW v \in Seq(Entries), NEW s \in Seq(Entries), NEW len \in Nat,
         HasNewest(v), HoldsTheEnd(s, v, len)
  PROVE  /\ Total(Masked(v, len)) <= Total(s)
         /\ Total(Masked(v, len)) \in Nat /\ Total(s) \in Nat
<1> DEFINE m == Masked(v, len)
<1>1. PICK d \in 0..Len(v) : EndFrom(s, v, len, d)
  BY DEF HoldsTheEnd
<1>2. /\ m \in Seq(Weighted) /\ Len(m) = Len(v) /\ s \in Seq(Weighted)
      /\ Len(v) \in Nat /\ Len(s) = Len(m) - d /\ d \in 0..Len(m)
  BY <1>1, MaskedType, EntriesAreWeighted DEF EndFrom
<1>3. \A i \in 1..Len(v) : v[i][1] \in Nat /\ v[i][2] \in Nat
  <2>1. \A i \in 1..Len(v) : v[i] \in Entries
    OBVIOUS
  <2> QED
    BY <2>1 DEF Entries
<1>4. v # <<>> => NewestIn(v) \in Nat
  BY <1>3 DEF HasNewest, IsNewest, TimesIn
<1>5. ASSUME NEW i \in 1..d PROVE m[i][2] = 0
  <2>1. i \in 1..Len(v) /\ v # <<>> /\ v[i][1] < NewestIn(v) - len
    BY <1>1, <1>2 DEF EndFrom
  <2>2. ~(v[i][1] >= NewestIn(v) - len)
    BY <1>3, <1>4, <2>1
  <2>3. m[i] = <<0, 0>>
    BY <2>1, <2>2 DEF Masked
  <2> QED
    BY <2>3
<1>6. ASSUME NEW i \in 1..Len(s) PROVE m[d + i][2] <= s[i][2]
  <2>1. d + i \in 1..Len(v) /\ s[i] = v[d + i] /\ v[d + i][2] \in Nat
    BY <1>1, <1>2, <1>3 DEF EndFrom
  <2>2. m[d + i] = v[d + i] \/ m[d + i] = <<0, 0>>
    BY <2>1 DEF Masked
  <2>3. m[d + i][2] = v[d + i][2] \/ m[d + i][2] = 0
    BY <2>2
  <2> QED
    BY <2>1, <2>3
<1> HIDE DEF m
<1>7. Total(m) <= Total(s)
  BY <1>2, <1>5, <1>6, TotalOfPart
<1>8. Total(m) \in Nat /\ Total(s) \in Nat
  BY <1>2, SumsAddUp
<1> QED
  BY <1>7, <1>8 DEF m

BurstInv == SpacedInv /\ WindowInv /\ BurstsAreReported

\* The key has had an alert that answers for the window up to time t.
Answered(times, t, len) ==
  \E i \in 1..Len(times) : times[i] >= t - len \/ times[i] > t - len - Cooldown

\* An alert given stays given.
LEMMA AnsweredStays ==
  ASSUME NEW s \in Seq(Nat), NEW y \in Nat, NEW t, NEW len, Answered(s, t, len)
  PROVE  Answered(Append(s, y), t, len)
<1>1. Len(s) \in Nat /\ Len(Append(s, y)) = Len(s) + 1
      /\ \A i \in 1..Len(s) : i \in 1..(Len(s) + 1) /\ Append(s, y)[i] = s[i]
  OBVIOUS
<1> QED
  BY <1>1 DEF Answered

\* Whatever the order of arrival, after an event a burst has been answered for.
LEMMA ProcessBurst ==
  ASSUME BurstInv, RuleTypeOK', NEW e \in RuleEvents, Process(e), NEW k \in WindowKeys,
         entered'[k] # <<>>,
         Total(Masked(entered'[k], Window[k[1]])) >= Threshold[k[1]]
  PROVE  Answered(raised'[k], NewestIn(entered'[k]), Window[k[1]])
<1> DEFINE u == entered[k]  x == EntryOf(e, k)  len == Window[k[1]]  N == NewestIn(entered'[k])
<1>1. /\ u \in Seq(Entries) /\ HasNewest(u) /\ len \in Nat /\ Threshold[k[1]] \in Nat
      /\ Cooldown \in Nat /\ k \in AlertKeys /\ raised[k] \in Seq(Nat) /\ e.ts \in Nat
  BY KeyTypes, EventType DEF BurstInv, WindowInv, WindowsHoldTheEnd, RuleTypeOK, Process
<1>2. raised'[k] = IF k \in Alerts(e) THEN Append(raised[k], e.ts) ELSE raised[k]
  BY <1>1 DEF Process
<1>3. ASSUME u # <<>>, NewestIn(u) = N, Total(Masked(u, len)) >= Threshold[k[1]]
      PROVE  Answered(raised'[k], N, len)
  <2>1. /\ RecentWeight(k) = Total(Masked(u, len))
        /\ Newest(k) = NewestIn(u)
    BY RecentIsMasked DEF Newest, Times, NewestIn, TimesIn
  <2>2. Answered(raised[k], N, len)
    BY <1>3, <2>1 DEF BurstInv, BurstsAreReported, Answered
  <2> QED
    BY <1>1, <1>2, <2>2, AnsweredStays
<1>4. CASE ~Enters(e, k)
  <2>1. entered'[k] = u
    BY <1>4, ProcessEntries DEF BurstInv
  <2> QED
    BY <1>3, <2>1
<1>5. CASE Enters(e, k)
  <2>1. /\ x \in Entries /\ x[1] = e.ts /\ entered'[k] = Append(u, x)
        /\ k[1] \in Counted(e) /\ Slid(k[1], e) = windows'[k]
    BY <1>5, ProcessEntries DEF BurstInv, EntryOf
  <2>2. N \in Nat /\ e.ts <= N
    <3> HIDE DEF x, u
    <3> QED
      BY <1>1, <2>1, NewestGrows
  <2>3. CASE e.ts < N - len
    <3> HIDE DEF x, u, len
    <3>1. x[1] < NewestIn(Append(u, x)) - len
      BY <2>1, <2>3
    <3>2. /\ u # <<>> /\ NewestIn(Append(u, x)) = NewestIn(u)
          /\ Total(Masked(Append(u, x), len)) = Total(Masked(u, len))
      BY <1>1, <2>1, <3>1, LateEntry
    <3>3. NewestIn(u) = N
      BY <2>1, <3>2
    <3>4. Total(Masked(u, len)) >= Threshold[k[1]]
      BY <2>1, <3>2 DEF len
    <3> QED
      BY <1>3, <3>2, <3>3, <3>4 DEF len
  <2>4. CASE ~(e.ts < N - len)
    <3>1. /\ entered'[k] \in Seq(Entries) /\ HasNewest(entered'[k])
          /\ HoldsTheEnd(windows'[k], entered'[k], len)
      BY ProcessWindow DEF BurstInv
    <3>2. windows'[k] \in Seq(Entries)
      BY DEF RuleTypeOK
    <3>3. Total(windows'[k]) >= Threshold[k[1]]
      BY <1>1, <3>1, <3>2, WindowWeighs
    <3>4. k \in Firing(e)
      <4>1. k = Key(k[1], e)
        BY <1>5 DEF Enters
      <4> QED
        BY <2>1, <3>3, <4>1 DEF Firing
    <3>5. CASE CooldownOk(k, e.ts)
      <4>1. raised'[k] = Append(raised[k], e.ts)
        BY <1>2, <3>4, <3>5 DEF Alerts
      <4>2. /\ Len(raised'[k]) \in 1..Len(raised'[k])
            /\ raised'[k][Len(raised'[k])] = e.ts
        BY <1>1, <4>1
      <4>3. e.ts >= N - len
        BY <1>1, <2>2, <2>4
      <4> QED
        BY <4>2, <4>3 DEF Answered
    <3>6. CASE ~CooldownOk(k, e.ts)
      <4>1. raised'[k] = raised[k]
        BY <1>2, <3>6 DEF Alerts
      <4>2. lastAlert[k] # Never /\ ~(e.ts - lastAlert[k] >= Cooldown)
        BY <3>6 DEF CooldownOk
      <4>3. raised[k] # <<>> /\ lastAlert[k] = raised[k][Len(raised[k])]
        BY <1>1, <4>2 DEF BurstInv, SpacedInv, LastIsLatest
      <4>4. Len(raised[k]) \in 1..Len(raised[k]) /\ lastAlert[k] \in Nat
        BY <1>1, <4>3
      <4>5. lastAlert[k] > N - len - Cooldown
        <5> HIDE DEF len, N
        <5> QED
          BY <1>1, <2>2, <2>4, <4>2, <4>4
      <4> QED
        BY <4>1, <4>3, <4>4, <4>5 DEF Answered
    <3> QED
      BY <3>5, <3>6
  <2> QED
    BY <2>3, <2>4
<1> QED
  BY <1>4, <1>5

\* Deny bursts and byte spikes are never missed: whatever the order in which the
\* events of a key come, when those of the window up to the newest reach the
\* threshold the key has had an alert in that window or less than one cooldown
\* before it.
THEOREM BurstsReported == RuleSpec => []BurstsAreReported
<1>1. RuleInit => BurstsAreReported
  <2>1. RuleInit => \A k \in WindowKeys : entered[k] = <<>>
    BY DEF RuleInit
  <2> QED
    BY <2>1 DEF BurstsAreReported
<1>2. BurstInv /\ RuleTypeOK' /\ [RuleNext]_ruleVars => BurstsAreReported'
  <2> SUFFICES ASSUME BurstInv, RuleTypeOK', [RuleNext]_ruleVars PROVE BurstsAreReported'
    OBVIOUS
  <2>1. CASE UNCHANGED <<entered, raised>>
    <3>1. \A k \in WindowKeys : RecentWeight(k)' = RecentWeight(k) /\ Newest(k)' = Newest(k)
      BY <2>1 DEF RecentWeight, RecentIndices, Newest, Times
    <3> QED
      BY <2>1, <3>1 DEF BurstInv, BurstsAreReported
  <2>2. ASSUME NEW e \in RuleEvents, Process(e) PROVE BurstsAreReported'
    <3> SUFFICES ASSUME NEW k \in WindowKeys, entered'[k] # <<>>,
                        RecentWeight(k)' >= Threshold[k[1]]
                 PROVE  \E i \in 1..Len(raised'[k]) :
                          \/ raised'[k][i] >= Newest(k)' - Window[k[1]]
                          \/ raised'[k][i] > Newest(k)' - Window[k[1]] - Cooldown
      BY DEF BurstsAreReported
    <3>1. Newest(k)' = NewestIn(entered'[k])
      BY DEF Newest, Times, NewestIn, TimesIn
    <3>2. RecentWeight(k)' = Total(Masked(entered'[k], Window[k[1]]))
      <4>1. \A i \in 1..Len(entered'[k]) :
              i \in RecentIndices(k)'
                <=> entered'[k][i][1] >= NewestIn(entered'[k]) - Window[k[1]]
        BY <3>1 DEF RecentIndices
      <4>2. [i \in 1..Len(entered'[k]) |->
               IF i \in RecentIndices(k)' THEN entered'[k][i] ELSE <<0, 0>>]
              = Masked(entered'[k], Window[k[1]])
        BY <4>1 DEF Masked
      <4> QED
        BY <4>2 DEF RecentWeight
    <3>3. Answered(raised'[k], NewestIn(entered'[k]), Window[k[1]])
      BY <2>2, <3>2, ProcessBurst
    <3> QED
      BY <3>1, <3>3 DEF Answered
  <2> QED
    BY <2>1, <2>2 DEF RuleNext, Discard, ruleVars, engine, histories
<1>3. RuleInit => LastIsLatest
  BY DEF RuleInit, LastIsLatest
<1>4. SpacedInv /\ RuleTypeOK' /\ [RuleNext]_ruleVars => LastIsLatest'
  <2> SUFFICES ASSUME SpacedInv, [RuleNext]_ruleVars PROVE LastIsLatest'
    OBVIOUS
  <2>1. CASE UNCHANGED <<lastAlert, raised>>
    BY <2>1 DEF SpacedInv, LastIsLatest
  <2>2. ASSUME NEW e \in RuleEvents, Process(e) PROVE LastIsLatest'
    BY <2>2, ProcessSpaced DEF LastIsLatest
  <2> QED
    BY <2>1, <2>2 DEF RuleNext, Discard, ruleVars, engine, histories
<1>5. SpacedInv <=> RuleTypeOK /\ LastIsLatest /\ CooldownHolds
  BY DEF SpacedInv
<1>6. BurstInv <=> SpacedInv /\ WindowInv /\ BurstsAreReported
  BY DEF BurstInv
<1> QED
  BY RuleTypesCorrect, CooldownSafe, WindowsHold, <1>1, <1>2, <1>3, <1>4, <1>5, <1>6, PTL DEF RuleSpec

=============================================================================
