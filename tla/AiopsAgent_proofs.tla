------------------------- MODULE AiopsAgent_proofs -------------------------
(***************************************************************************)
(* The agent, for any partitions, alerts, times, rebalances and crashes: a *)
(* suggestion is built from the answer to its own request, clusters are    *)
(* sound and complete, the loop implements the promise of OffsetLedger,    *)
(* and what is behind a committed offset has a suggestion or a recorded    *)
(* reason to have none.                                                    *)
(*                                                                         *)
(* Its admission of alerts, for any batch, mode and budget: the ladders of *)
(* decisions agree, cutting a batch into windows loses no alert and cuts   *)
(* for a reason, faults stay in the evidence, and the budget is kept.      *)
(***************************************************************************)
EXTENDS AiopsAgent, Admission, ConsumerGroup_proofs, FiniteSetTheorems, WellFoundedInduction

-----------------------------------------------------------------------------
\* Types of what the loop owns.
LoopTypes ==
  /\ pc \in {"poll", "infer", "publish", "append", "observe", "commit"}
  /\ (pc = "poll") <=> (inHand = None)
  /\ (pc \in {"infer", "publish", "append"}) <=> (request # None)
  /\ request \in Requests \cup {None} /\ answered \in Requests \cup {None}
  /\ emitted \in BOOLEAN /\ torn \in BOOLEAN /\ rejoined \in BOOLEAN
  /\ topic \subseteq Requests \X Requests /\ file \subseteq topic
  /\ outcome \subseteq Locations \X Hows

\* The emission under way is for the record in hand; the queue holds its
\* request until the worker takes it, and the answer in hand is to it.
Flow ==
  /\ request # None => request[1] = Here
  /\ queue = IF pc = "infer" THEN <<request>> ELSE <<>>
  /\ pc \in {"publish", "append"} => answered = request
  /\ pc = "append" => <<request, answered>> \in topic
  /\ pc \notin {"poll", "commit"} => Current \in Alerts

\* should_commit is set only once the record's handling has left something.
EmittedIsSettled == inHand # None /\ emitted => Here \in Settled

\* What a handling says it left is there.
Advised ==
  \A loc : <<loc, "advised">> \in outcome =>
    \E s \in topic \cap file : s[1][1] = loc

\* What a handling ignored is not an alert.
Ignored ==
  \A p \in Partitions : \A n \in Nat : \A how \in {"junk", "minor"} :
    <<<<p, n>>, how>> \in outcome => n \in 1..Len(log[p]) /\ log[p][n] \notin Alerts

AgentInv ==
  GroupInv /\ LoopTypes /\ Flow /\ EmittedIsSettled /\ AnswersMatch
  /\ Advised /\ Ignored

-----------------------------------------------------------------------------
\* A request under way is told from none.
LEMMA NoneIsNoRequest == None \notin Requests
BY AgentAssumption DEF AgentAssumption

\* First components of a union.
LEMMA SetOfFirsts ==
  ASSUME NEW S, NEW T
  PROVE  {x[1] : x \in S \cup T} = {x[1] : x \in S} \cup {x[1] : x \in T}
OBVIOUS

\* Recording how a handling ended settles its location.
LEMMA EndingSettles ==
  ASSUME NEW loc, NEW how, outcome' = outcome \cup {<<loc, how>>}
  PROVE  Settled' = Settled \cup {loc}
<1>1. Settled' = {z[1] : z \in outcome \cup {<<loc, how>>}}
  BY DEF Settled
<1>2. {z[1] : z \in {<<loc, how>>}} = {loc}
  BY <<loc, how>>[1] = loc
<1>3. QED
  BY <1>1, <1>2, SetOfFirsts DEF Settled

\* What a resumption leaves settled.
LEMMA SkipSettles ==
  ASSUME AgentInv, Skip
  PROVE  /\ outcome \subseteq outcome'
         /\ outcome' \subseteq Locations \X Hows
         /\ Settled' = Settled \cup ResumeSkips
         /\ \A loc, how : <<loc, how>> \in outcome' /\ how # "skipped" =>
              <<loc, how>> \in outcome
<1> DEFINE fresh == {l \in ResumeSkips : \A how \in Hows : <<l, how>> \notin outcome}
<1> DEFINE added == {<<l, "skipped">> : l \in fresh}
<1>1. outcome' = outcome \cup added
  BY DEF Skip
<1>2. ResumeSkips \subseteq Locations
  BY ResumeSkipsLocations DEF AgentInv
<1>3. outcome \subseteq Locations \X Hows
  BY DEF AgentInv, LoopTypes
<1>4. added \subseteq Locations \X Hows
  <2>1. "skipped" \in Hows
    BY DEF Hows
  <2>2. QED
    BY <1>2, <2>1
<1>5. Settled' = Settled \cup fresh
  <2>1. Settled' = {z[1] : z \in outcome \cup added}
    BY <1>1 DEF Settled
  <2>2. {z[1] : z \in added} = fresh
    <3>1. \A l \in fresh : <<l, "skipped">> \in added /\ <<l, "skipped">>[1] = l
      OBVIOUS
    <3>2. \A z \in added : z[1] \in fresh
      OBVIOUS
    <3>3. QED
      BY <3>1, <3>2
  <2>3. QED
    BY <2>1, <2>2, SetOfFirsts DEF Settled
<1>6. ResumeSkips \subseteq Settled \cup fresh
  <2> SUFFICES ASSUME NEW l \in ResumeSkips, l \notin fresh
               PROVE  l \in Settled
    OBVIOUS
  <2>1. PICK how \in Hows : <<l, how>> \in outcome
    OBVIOUS
  <2>2. <<l, how>>[1] = l
    OBVIOUS
  <2>3. QED
    BY <2>1, <2>2 DEF Settled
<1>7. QED
  BY <1>1, <1>3, <1>4, <1>5, <1>6

-----------------------------------------------------------------------------
\* The agent starts within its invariant.
LEMMA AgentInit == Init => AgentInv
<1> SUFFICES ASSUME Init
             PROVE  AgentInv
  OBVIOUS
<1>1. GroupInv
  BY GroupStart DEF Init
<1>2. LoopTypes
  <2>1. /\ pc = "poll" /\ emitted = FALSE /\ inHand = None
        /\ request = None /\ queue = <<>> /\ answered = None
        /\ topic = {} /\ file = {} /\ torn = FALSE
        /\ outcome = {} /\ rejoined = FALSE
    BY DEF Init, GroupInit
  <2>2. QED
    BY <2>1 DEF LoopTypes
<1>a. Flow /\ EmittedIsSettled
  BY DEF Init, GroupInit, Flow, EmittedIsSettled
<1>3. AnswersMatch /\ Advised /\ Ignored
  BY DEF Init, AnswersMatch, Advised, Ignored
<1>4. QED
  BY <1>1, <1>2, <1>a, <1>3 DEF AgentInv

\* A new record in the topic disturbs nothing the agent holds.
LEMMA AlertStep ==
  ASSUME AgentInv, NEW p \in Partitions, NEW r \in Records, Alert(p, r)
  PROVE  AgentInv'
<1>1. Produce(p, r) /\ UNCHANGED ownVars
  BY DEF Alert
<1>2. UNCHANGED <<pc, request, queue, answered, emitted, topic, file, torn,
                  outcome, rejoined, position, committed, inHand, faults>>
  BY <1>1 DEF ownVars, emission, stores, Produce
<1>3. /\ GroupInv'
      /\ \A q \in Partitions :
           Len(log'[q]) = IF q = p THEN Len(log[q]) + 1 ELSE Len(log[q])
      /\ \A q \in Partitions : \A n \in 1..Len(log[q]) : log'[q][n] = log[q][n]
  BY <1>1, ProduceKeeps DEF AgentInv
<1>4. \A q \in Partitions : Len(log[q]) \in Nat
  BY GroupRange DEF AgentInv
<1>5. LoopTypes' /\ EmittedIsSettled' /\ AnswersMatch' /\ Advised'
  BY <1>2 DEF AgentInv, LoopTypes, EmittedIsSettled, AnswersMatch, Advised,
              Here, Settled
<1>6. Flow'
  <2>1. inHand # None => Current' = Current
    BY <1>2, <1>3, HereIsLocation DEF AgentInv, Current
  <2>2. QED
    BY <1>2, <2>1 DEF AgentInv, LoopTypes, Flow, Here
<1>7. Ignored'
  <2> SUFFICES ASSUME NEW q \in Partitions, NEW n \in Nat,
                      NEW how \in {"junk", "minor"},
                      <<<<q, n>>, how>> \in outcome'
               PROVE  n \in 1..Len(log'[q]) /\ log'[q][n] \notin Alerts
    BY DEF Ignored
  <2>1. n \in 1..Len(log[q]) /\ log[q][n] \notin Alerts
    BY <1>2 DEF AgentInv, Ignored
  <2>2. QED
    BY <1>3, <1>4, <2>1
<1>8. QED
  BY <1>3, <1>5, <1>6, <1>7 DEF AgentInv

\* A record that is ignored is settled as it is taken.
LEMMA TakeIgnoredStep ==
  ASSUME AgentInv, NEW p \in Partitions, TakeIgnored(p)
  PROVE  AgentInv' /\ Settled' = Settled \cup {<<p, position[p] + 1>>}
<1> DEFINE loc == <<p, position[p] + 1>>
<1>1. /\ Poll(p) /\ emitted' = TRUE /\ pc' = "commit"
      /\ Upcoming(p) \in {Junk, Minor}
      /\ outcome' = outcome \cup {<<loc, "junk">>}
         \/ outcome' = outcome \cup {<<loc, "minor">>}
      /\ UNCHANGED <<request, queue, answered, topic, file, torn, rejoined>>
  BY DEF TakeIgnored, EndsAs, emission, stores
<1>2. Settled' = Settled \cup {loc}
  BY <1>1, EndingSettles
<1>3. /\ GroupInv' /\ inHand' # None /\ Here' = loc /\ loc \in Locations
      /\ UNCHANGED <<log, committed>>
  BY <1>1, PollKeeps DEF AgentInv
<1>4. pc = "poll" /\ request = None
  BY <1>1 DEF Poll, AgentInv, LoopTypes
<1>5. LoopTypes'
  BY <1>1, <1>3, <1>4 DEF AgentInv, LoopTypes, Hows
<1>6. Flow' /\ EmittedIsSettled'
  BY <1>1, <1>2, <1>3, <1>4 DEF AgentInv, Flow, EmittedIsSettled
<1>7. AnswersMatch' /\ Advised'
  BY <1>1 DEF AgentInv, AnswersMatch, Advised
<1>8. Ignored'
  <2>1. position[p] + 1 \in 1..Len(log[p]) /\ log[p][position[p] + 1] \notin Alerts
    BY <1>1, GroupRange, AgentAssumption
       DEF AgentInv, AgentAssumption, Upcoming, Poll
  <2> SUFFICES ASSUME NEW q \in Partitions, NEW n \in Nat,
                      NEW how \in {"junk", "minor"},
                      <<<<q, n>>, how>> \in outcome'
               PROVE  n \in 1..Len(log[q]) /\ log[q][n] \notin Alerts
    BY <1>3 DEF Ignored
  <2>2. CASE <<<<q, n>>, how>> \in outcome
    BY <2>2 DEF AgentInv, Ignored
  <2>3. CASE <<q, n>> = loc
    BY <2>1, <2>3
  <2>4. QED
    BY <1>1, <2>2, <2>3
<1>9. QED
  BY <1>2, <1>3, <1>5, <1>6, <1>7, <1>8 DEF AgentInv

\* An alert puts its own request into an empty queue.
LEMMA TakeStep ==
  ASSUME AgentInv, NEW p \in Partitions, Take(p)
  PROVE  AgentInv' /\ Settled' = Settled
<1> DEFINE req == <<<<p, position[p] + 1>>, "alert">>
<1>1. /\ Poll(p) /\ emitted' = FALSE /\ pc' = "infer"
      /\ request' = req /\ queue' = Append(queue, req)
      /\ UNCHANGED <<answered, topic, file, torn, outcome, rejoined>>
      /\ Upcoming(p) \in Alerts
  BY DEF Take, Enqueue, stores
<1>2. /\ GroupInv' /\ inHand' # None /\ Here' = <<p, position[p] + 1>>
      /\ Current' = Upcoming(p)
      /\ <<p, position[p] + 1>> \in Locations /\ UNCHANGED <<log, committed>>
  BY <1>1, PollKeeps DEF AgentInv
<1>3. pc = "poll" /\ queue = <<>>
  BY <1>1 DEF Poll, AgentInv, LoopTypes, Flow
<1>4. req \in Requests /\ req # None /\ req[1] = Here' /\ queue' = <<req>>
  <2>1. req \in Requests
    BY <1>2 DEF Requests
  <2>2. QED
    BY <1>1, <1>2, <1>3, <2>1, NoneIsNoRequest
<1>5. LoopTypes'
  BY <1>1, <1>2, <1>4 DEF AgentInv, LoopTypes
<1>6. Flow' /\ EmittedIsSettled'
  BY <1>1, <1>2, <1>4 DEF Flow, EmittedIsSettled
<1>7. AnswersMatch' /\ Advised' /\ Ignored' /\ Settled' = Settled
  BY <1>1, <1>2 DEF AgentInv, AnswersMatch, Advised, Ignored, Settled
<1>8. QED
  BY <1>2, <1>5, <1>6, <1>7 DEF AgentInv

-----------------------------------------------------------------------------
\* An emission ends: the record goes on to the aggregator or to the commit.
LEMMA EndTypes ==
  ASSUME AgentInv, pc \in {"infer", "publish", "append"},
         NEW ok \in BOOLEAN, EmissionEnds(ok), queue' = <<>>,
         UNCHANGED <<groupVars, rejoined>>, torn' \in BOOLEAN,
         topic' \subseteq Requests \X Requests, file' \subseteq topic',
         outcome' \subseteq Locations \X Hows
  PROVE  LoopTypes' /\ Flow' /\ GroupInv' /\ inHand # None
         /\ Here' = Here /\ Here \in Locations
<1>1. /\ emitted' = (emitted \/ ok) /\ request' = None /\ answered' = None
      /\ pc' \in {"observe", "commit"}
      /\ request \in Requests /\ request # None
  BY DEF EmissionEnds, AgentInv, LoopTypes
<1>2. inHand # None /\ inHand' = inHand
  BY DEF AgentInv, LoopTypes, groupVars
<1>3. GroupInv' /\ Here' = Here
  BY GroupStutter DEF AgentInv
<1>4. Here \in Locations
  BY <1>2, HereIsLocation DEF AgentInv
<1>5. LoopTypes'
  BY <1>1, <1>2 DEF AgentInv, LoopTypes
<1>6. Flow'
  <2>1. pc' = "observe" => Current' \in Alerts
    <3>1. Current' = Current
      BY DEF groupVars, Current
    <3>2. QED
      BY <3>1 DEF AgentInv, Flow
  <2>2. QED
    BY <1>1, <2>1 DEF Flow
<1>7. QED
  BY <1>2, <1>3, <1>4, <1>5, <1>6

\* Answered or raised, the provider leaves the queue empty.
LEMMA ProviderStep ==
  ASSUME AgentInv, ProviderAnswers \/ ProviderRaised
  PROVE  AgentInv' /\ Settled' = Settled
<1>1. /\ pc = "infer" /\ queue = <<request>>
      /\ request \in Requests /\ request # None /\ inHand # None
  BY DEF ProviderAnswers, ProviderRaised, AgentInv, LoopTypes, Flow
<1>2. Head(queue) = request /\ Tail(queue) = <<>>
  BY <1>1
<1>3. UNCHANGED <<groupVars, topic, file, torn, outcome, rejoined>>
  BY DEF ProviderAnswers, ProviderRaised, stores
<1>4. GroupInv' /\ Here' = Here
  BY <1>3, GroupStutter DEF AgentInv
<1>5. LoopTypes' /\ Flow' /\ EmittedIsSettled'
  <2>1. CASE ProviderAnswers
    <3>1. /\ answered' = request /\ queue' = <<>> /\ pc' = "publish"
          /\ UNCHANGED <<request, emitted, inHand, log, position>>
      BY <1>2, <1>3, <2>1 DEF ProviderAnswers, groupVars
    <3>2. QED
      BY <1>1, <1>3, <1>4, <3>1
         DEF AgentInv, LoopTypes, Flow, EmittedIsSettled, Settled, Current
  <2>2. CASE ProviderRaised
    <3>1. EmissionEnds(FALSE) /\ queue' = <<>>
      BY <1>2, <2>2 DEF ProviderRaised
    <3>2. LoopTypes' /\ Flow'
      BY <1>1, <1>3, <3>1, EndTypes DEF AgentInv, LoopTypes
    <3>3. EmittedIsSettled'
      BY <1>3, <1>4, <3>1
         DEF AgentInv, EmittedIsSettled, EmissionEnds, Settled, groupVars
    <3>4. QED
      BY <3>2, <3>3
  <2>3. QED
    BY <2>1, <2>2
<1>6. AnswersMatch' /\ Advised' /\ Ignored' /\ Settled' = Settled
  BY <1>3 DEF AgentInv, AnswersMatch, Advised, Ignored, Settled, groupVars
<1>7. QED
  BY <1>4, <1>5, <1>6 DEF AgentInv

\* A publication carries the answer to the request under way.
LEMMA PublishStep ==
  ASSUME AgentInv, PublishAcked \/ PublishFailed
  PROVE  AgentInv' /\ Settled' = Settled
<1>1. /\ pc = "publish" /\ queue = <<>> /\ answered = request
      /\ request \in Requests /\ request # None /\ inHand # None
  BY DEF PublishAcked, PublishFailed, AgentInv, LoopTypes, Flow
<1>2. /\ UNCHANGED <<groupVars, queue, file, torn, outcome, rejoined>>
      /\ topic' \in {topic, topic \cup {<<request, answered>>}}
  BY DEF PublishAcked, PublishFailed, Published, emission
<1>3. GroupInv' /\ Here' = Here
  BY <1>2, GroupStutter DEF AgentInv
<1>4. topic \subseteq topic' /\ topic' \subseteq Requests \X Requests
  BY <1>1, <1>2 DEF AgentInv, LoopTypes
<1>5. LoopTypes' /\ Flow' /\ EmittedIsSettled'
  <2>1. CASE PublishAcked
    <3>1. /\ <<request, answered>> \in topic' /\ pc' = "append"
          /\ UNCHANGED <<request, answered, emitted, inHand, log, position>>
      BY <1>2, <2>1 DEF PublishAcked, Published, emission, groupVars
    <3>2. QED
      BY <1>1, <1>2, <1>3, <1>4, <3>1
         DEF AgentInv, LoopTypes, Flow, EmittedIsSettled, Settled, Current
  <2>2. CASE PublishFailed
    <3>1. EmissionEnds(FALSE)
      BY <2>2 DEF PublishFailed
    <3>2. LoopTypes' /\ Flow'
      BY <1>1, <1>2, <1>4, <3>1, EndTypes DEF AgentInv, LoopTypes
    <3>3. EmittedIsSettled'
      BY <1>2, <1>3, <3>1
         DEF AgentInv, EmittedIsSettled, EmissionEnds, Settled, groupVars
    <3>4. QED
      BY <3>2, <3>3
  <2>3. QED
    BY <2>1, <2>2
<1>6. AnswersMatch'
  <2> SUFFICES ASSUME NEW s \in topic' \cup file'
               PROVE  s[1] = s[2]
    BY DEF AnswersMatch
  <2>1. CASE s \in topic \cup file
    BY <2>1 DEF AgentInv, AnswersMatch
  <2>2. CASE s = <<request, answered>>
    BY <1>1, <2>2
  <2>3. QED
    BY <1>2, <2>1, <2>2
<1>7. Advised' /\ Ignored' /\ Settled' = Settled
  BY <1>2, <1>4 DEF AgentInv, Advised, Ignored, Settled, groupVars
<1>8. QED
  BY <1>3, <1>5, <1>6, <1>7 DEF AgentInv

\* An append that returns settles the alert with a line or a glued one.
LEMMA AppendOkStep ==
  ASSUME AgentInv, AppendOk
  PROVE  AgentInv' /\ inHand # None /\ Settled' = Settled \cup {Here}
<1> DEFINE how == IF torn THEN "glued" ELSE "advised"
<1>1. /\ pc = "append" /\ queue = <<>> /\ answered = request
      /\ request \in Requests /\ request # None /\ inHand # None
      /\ request[1] = Here /\ <<request, answered>> \in topic
  BY DEF AppendOk, AgentInv, LoopTypes, Flow
<1>2. /\ UNCHANGED <<groupVars, queue, topic, rejoined>>
      /\ torn' = FALSE
      /\ file' = IF torn THEN file ELSE file \cup {<<request, answered>>}
      /\ outcome' = outcome \cup {<<Here, how>>}
      /\ EmissionEnds(TRUE)
  BY <1>1 DEF AppendOk, EndsAs
<1>3. GroupInv' /\ Here' = Here /\ Here \in Locations
  BY <1>1, <1>2, GroupStutter, HereIsLocation DEF AgentInv
<1>4. Settled' = Settled \cup {Here}
  BY <1>2, EndingSettles
<1>5. LoopTypes' /\ Flow'
  <2>1. topic' \subseteq Requests \X Requests /\ file' \subseteq topic'
    BY <1>1, <1>2 DEF AgentInv, LoopTypes
  <2>2. outcome' \subseteq Locations \X Hows
    BY <1>2, <1>3 DEF AgentInv, LoopTypes, Hows
  <2>3. QED
    BY <1>1, <1>2, <2>1, <2>2, EndTypes
<1>6. EmittedIsSettled'
  BY <1>3, <1>4 DEF EmittedIsSettled
<1>7. AnswersMatch'
  <2> SUFFICES ASSUME NEW s \in topic' \cup file'
               PROVE  s[1] = s[2]
    BY DEF AnswersMatch
  <2>1. s \in topic
    BY <1>1, <1>2 DEF AgentInv, LoopTypes
  <2>2. QED
    BY <2>1 DEF AgentInv, AnswersMatch
<1>8. Advised'
  <2> SUFFICES ASSUME NEW loc, <<loc, "advised">> \in outcome'
               PROVE  \E s \in topic' \cap file' : s[1][1] = loc
    BY DEF Advised
  <2>1. CASE <<loc, "advised">> \in outcome
    <3>1. PICK s \in topic \cap file : s[1][1] = loc
      BY <2>1 DEF AgentInv, Advised
    <3>2. QED
      BY <1>2, <3>1
  <2>2. CASE <<loc, "advised">> = <<Here, how>>
    <3>1. loc = Here /\ ~torn
      BY <2>2
    <3>2. <<request, answered>> \in topic' \cap file'
      BY <1>1, <1>2, <3>1
    <3>3. <<request, answered>>[1][1] = loc
      BY <1>1, <3>1
    <3>4. QED
      BY <3>2, <3>3
  <2>3. QED
    BY <1>2, <2>1, <2>2
<1>9. Ignored'
  <2>1. \A loc, h : <<loc, h>> \in outcome' /\ h \in {"junk", "minor"}
          => <<loc, h>> \in outcome
    BY <1>2
  <2>2. QED
    BY <1>2, <2>1 DEF AgentInv, Ignored, groupVars
<1>10. QED
  BY <1>1, <1>3, <1>4, <1>5, <1>6, <1>7, <1>8, <1>9 DEF AgentInv

\* An append that raises leaves the alert open.
LEMMA AppendRaisedStep ==
  ASSUME AgentInv, AppendRaised
  PROVE  AgentInv' /\ Settled' = Settled
<1>1. /\ pc = "append" /\ queue = <<>>
      /\ UNCHANGED <<groupVars, queue, topic, file, outcome, rejoined>>
      /\ torn' \in BOOLEAN /\ EmissionEnds(FALSE)
  BY DEF AppendRaised, AgentInv, LoopTypes, Flow
<1>2. GroupInv' /\ LoopTypes' /\ Flow' /\ Here' = Here
  BY <1>1, EndTypes DEF AgentInv, LoopTypes
<1>3. EmittedIsSettled'
  BY <1>1, <1>2
     DEF AgentInv, EmittedIsSettled, EmissionEnds, Settled, groupVars
<1>4. AnswersMatch' /\ Advised' /\ Ignored' /\ Settled' = Settled
  BY <1>1 DEF AgentInv, AnswersMatch, Advised, Ignored, Settled, groupVars
<1>5. QED
  BY <1>2, <1>3, <1>4 DEF AgentInv

\* A trigger starts the second emission from an empty queue.
LEMMA ObserveStep ==
  ASSUME AgentInv, Observe
  PROVE  AgentInv' /\ Settled' = Settled
<1>1. /\ pc = "observe" /\ queue = <<>> /\ inHand # None /\ request = None
      /\ Current \in Alerts
  BY DEF Observe, AgentInv, LoopTypes, Flow
<1>2. UNCHANGED <<groupVars, emitted, topic, file, torn, outcome, rejoined>>
  BY DEF Observe, stores
<1>3. \/ Enqueue(<<Here, "cluster">>)
      \/ pc' = "commit" /\ UNCHANGED <<request, queue, answered>>
  BY DEF Observe, emission
<1>4. GroupInv' /\ Here' = Here /\ Here \in Locations /\ Current' = Current
  BY <1>1, <1>2, GroupStutter, HereIsLocation DEF AgentInv, groupVars, Current
<1>5. LoopTypes' /\ Flow'
  <2>1. CASE Enqueue(<<Here, "cluster">>)
    <3> DEFINE req == <<Here, "cluster">>
    <3>1. /\ request' = req /\ queue' = <<req>> /\ pc' = "infer"
          /\ answered' = answered /\ req \in Requests /\ req # None
      BY <1>1, <1>4, <2>1, NoneIsNoRequest DEF Enqueue, Requests
    <3>2. LoopTypes'
      BY <1>1, <1>2, <3>1 DEF AgentInv, LoopTypes, groupVars
    <3>3. Flow'
      BY <1>1, <1>4, <3>1 DEF Flow
    <3>4. QED
      BY <3>2, <3>3
  <2>2. CASE pc' = "commit" /\ UNCHANGED <<request, queue, answered>>
    <3>1. LoopTypes'
      BY <1>1, <1>2, <2>2 DEF AgentInv, LoopTypes, groupVars
    <3>2. Flow'
      BY <1>1, <2>2 DEF Flow
    <3>3. QED
      BY <3>1, <3>2
  <2>3. QED
    BY <1>3, <2>1, <2>2
<1>6. EmittedIsSettled' /\ AnswersMatch' /\ Advised' /\ Ignored' /\ Settled' = Settled
  BY <1>2, <1>4 DEF AgentInv, EmittedIsSettled, AnswersMatch, Advised, Ignored,
                    Settled, groupVars
<1>7. QED
  BY <1>4, <1>5, <1>6 DEF AgentInv

\* Commit or give up: the record's handling has ended either way.
LEMMA CommitStep ==
  ASSUME AgentInv, Commit
  PROVE  /\ AgentInv'
         /\ inHand # None /\ inHand' = None /\ UNCHANGED <<log, position>>
         /\ \/ Here \in Settled /\ committed' \in {committed, position}
               /\ Settled' = Settled
            \/ committed' = committed /\ Settled' = Settled \cup {Here}
<1>1. /\ pc = "commit" /\ pc' = "poll" /\ inHand # None /\ inHand' = None
      /\ UNCHANGED <<request, queue, answered, emitted, topic, file, torn, rejoined>>
      /\ CommitIfNeeded(emitted)
  BY DEF Commit, CommitIfNeeded, emission, stores
<1>2. /\ GroupInv'
      /\ committed' \in {position, committed}
      /\ ~emitted => committed' = committed
      /\ UNCHANGED <<log, position, faults>>
  BY <1>1, CommitKeeps DEF AgentInv
<1>3. Here \in Locations
  BY <1>1, HereIsLocation DEF AgentInv
<1>4. \/ emitted /\ outcome' = outcome
      \/ ~emitted /\ outcome' = outcome \cup {<<Here, "abandoned">>}
  BY DEF Commit, EndsAs
<1>5. LoopTypes'
  <2>1. outcome' \subseteq Locations \X Hows
    BY <1>3, <1>4 DEF AgentInv, LoopTypes, Hows
  <2>2. QED
    BY <1>1, <2>1 DEF AgentInv, LoopTypes
<1>6. Flow' /\ EmittedIsSettled'
  BY <1>1 DEF AgentInv, LoopTypes, Flow, EmittedIsSettled
<1>7. AnswersMatch' /\ Advised'
  <2>1. \A loc : <<loc, "advised">> \in outcome' => <<loc, "advised">> \in outcome
    BY <1>4
  <2>2. QED
    BY <1>1, <2>1 DEF AgentInv, AnswersMatch, Advised
<1>8. Ignored'
  <2>1. \A loc, h : <<loc, h>> \in outcome' /\ h \in {"junk", "minor"}
          => <<loc, h>> \in outcome
    BY <1>4
  <2>2. QED
    BY <1>2, <2>1 DEF AgentInv, Ignored
<1>9. \/ Here \in Settled /\ committed' \in {committed, position}
         /\ Settled' = Settled
      \/ committed' = committed /\ Settled' = Settled \cup {Here}
  <2>1. CASE emitted
    BY <1>1, <1>2, <1>4, <2>1 DEF AgentInv, EmittedIsSettled, Settled
  <2>2. CASE ~emitted
    BY <1>2, <1>4, <2>2, EndingSettles
  <2>3. QED
    BY <2>1, <2>2
<1>10. QED
  BY <1>1, <1>2, <1>5, <1>6, <1>7, <1>8, <1>9 DEF AgentInv

\* A new file changes neither the loop nor what is readable.
LEMMA NewHourStep ==
  ASSUME AgentInv, NewHour
  PROVE  AgentInv' /\ Settled' = Settled
<1>1. /\ torn' = FALSE
      /\ UNCHANGED <<groupVars, pc, request, queue, answered, emitted, topic,
                     file, outcome, rejoined>>
  BY DEF NewHour, emission
<1>2. GroupInv' /\ Here' = Here /\ Current' = Current
  BY <1>1, GroupStutter DEF AgentInv, groupVars, Current
<1>3. QED
  BY <1>1, <1>2
     DEF AgentInv, LoopTypes, Flow, EmittedIsSettled, AnswersMatch, Advised,
         Ignored, Settled, groupVars

\* A rebalance between two records, or a restart after a crash.
LEMMA AssignStep ==
  ASSUME AgentInv, Rejoin \/ Restart
  PROVE  /\ AgentInv'
         /\ inHand' = None
         /\ position' = [p \in Partitions |-> ResumeAt(p)]
         /\ UNCHANGED <<log, committed>>
         /\ Settled' = Settled \cup ResumeSkips
<1>1. Assign /\ Skip /\ UNCHANGED <<topic, file, torn>> /\ rejoined' \in BOOLEAN
  BY DEF Rejoin, Rebalance, Restart, stores
<1>2. /\ pc' = "poll" /\ request' = None /\ queue' = <<>>
      /\ answered' \in Requests \cup {None} /\ emitted' \in BOOLEAN
  BY DEF Rejoin, Rebalance, Restart, emission, AgentInv, LoopTypes, Flow
<1>3. /\ GroupInv' /\ inHand' = None
      /\ position' = [p \in Partitions |-> ResumeAt(p)]
      /\ UNCHANGED <<log, committed>>
  BY <1>1, AssignKeeps DEF AgentInv
<1>4. LoopTypes'
  BY <1>1, <1>2, <1>3, SkipSettles DEF AgentInv, LoopTypes
<1>5. Flow' /\ EmittedIsSettled'
  BY <1>2, <1>3 DEF Flow, EmittedIsSettled
<1>6. AnswersMatch' /\ Advised' /\ Ignored'
  <2>1. \A loc, how : <<loc, how>> \in outcome' /\ how # "skipped" =>
          <<loc, how>> \in outcome
    BY <1>1, SkipSettles
  <2>2. Advised'
    BY <1>1, <2>1 DEF AgentInv, Advised
  <2>3. Ignored'
    BY <1>3, <2>1 DEF AgentInv, Ignored
  <2>4. QED
    BY <1>1, <2>2, <2>3 DEF AgentInv, AnswersMatch
<1>7. QED
  BY <1>1, <1>3, <1>4, <1>5, <1>6, SkipSettles DEF AgentInv

\* Every step keeps the invariant, one case per action.
LEMMA AgentStep ==
  ASSUME AgentInv, [Next]_vars
  PROVE  AgentInv'
<1>1. CASE UNCHANGED vars
  <2>1. UNCHANGED <<groupVars, pc, request, queue, answered, emitted, topic,
                    file, torn, outcome, rejoined>>
    BY <1>1 DEF vars, ownVars, emission, stores
  <2>2. GroupInv' /\ Here' = Here /\ Current' = Current
    BY <2>1, GroupStutter DEF AgentInv, groupVars, Current
  <2>3. QED
    BY <2>1, <2>2
       DEF AgentInv, LoopTypes, Flow, EmittedIsSettled, AnswersMatch, Advised,
           Ignored, Settled, groupVars
<1>2. ASSUME NEW p \in Partitions, NEW r \in Records, Alert(p, r)
      PROVE  AgentInv'
  BY <1>2, AlertStep
<1>3. ASSUME NEW p \in Partitions, TakeIgnored(p)
      PROVE  AgentInv'
  BY <1>3, TakeIgnoredStep
<1>4. ASSUME NEW p \in Partitions, Take(p)
      PROVE  AgentInv'
  BY <1>4, TakeStep
<1>5. CASE Emit
  BY <1>5, ProviderStep, PublishStep, AppendOkStep, AppendRaisedStep DEF Emit
<1>6. CASE Observe
  BY <1>6, ObserveStep
<1>7. CASE Commit
  BY <1>7, CommitStep
<1>8. CASE NewHour
  BY <1>8, NewHourStep
<1>9. CASE Rejoin \/ Restart
  BY <1>9, AssignStep
<1>10. QED
  BY <1>1, <1>2, <1>3, <1>4, <1>5, <1>6, <1>7, <1>8, <1>9 DEF Next

\* A suggestion is built from the answer to its own request, whatever
\* failed before (_run_inference_and_emit and run_once).
THEOREM SuggestionsAnswerTheirRequest == Spec => []AnswersMatch
<1>1. AgentInv => AnswersMatch
  BY DEF AgentInv
<1>2. QED
  BY AgentInit, AgentStep, <1>1, PTL DEF Spec

-----------------------------------------------------------------------------
\* The offset promise: the length of each partition is its end, the record
\* in hand is the hand, and a handling that left something is settled.
LEMMA InitMaps == Init => Ledger!Init
<1> SUFFICES ASSUME Init
             PROVE  Ledger!Init
  OBVIOUS
<1>1. [p \in Partitions |-> Len(log[p])] = [p \in Partitions |-> 0]
  BY DEF Init, GroupInit
<1>2. Settled = {}
  BY DEF Init, Settled
<1>3. QED
  BY <1>1, <1>2 DEF Init, GroupInit, Ledger!Init, Ledger!NoOffset, NoOffset

\* A rebalance or a restart resumes the ledger at the same offsets.
LEMMA AssignMaps ==
  ASSUME AgentInv, Rejoin \/ Restart
  PROVE  Ledger!Resume
<1>1. /\ inHand' = None
      /\ position' = [p \in Partitions |-> ResumeAt(p)]
      /\ UNCHANGED <<log, committed>>
      /\ Settled' = Settled \cup ResumeSkips
  BY AssignStep
<1>2. position' \in [Partitions -> Nat]
  BY <1>1, GroupRange DEF AgentInv
<1>3. \A p \in Partitions : position'[p] = ResumeAt(p)
  BY <1>1
<1>4. \A p \in Partitions : position'[p] \in Ledger!ResumePoints(p)
  BY <1>3 DEF Ledger!ResumePoints, ResumeAt, Ledger!NoOffset, NoOffset
<1>5. ResumeSkips = UNION {{<<p, n>> : n \in 1..position'[p]} : p \in Partitions}
  BY <1>3 DEF ResumeSkips
<1>6. QED
  BY <1>1, <1>2, <1>4, <1>5 DEF Ledger!Resume

\* Every step maps to a step of the ledger or to a stutter.
LEMMA StepMaps ==
  ASSUME AgentInv, [Next]_vars
  PROVE  [Ledger!Next]_(Ledger!vars)
<1> USE DEF Ledger!vars
<1>1. CASE UNCHANGED vars
  BY <1>1 DEF vars, groupVars, ownVars, Settled
<1>2. ASSUME NEW p \in Partitions, NEW r \in Records, Alert(p, r)
      PROVE  Ledger!Append(p)
  <2>1. Produce(p, r) /\ Settled' = Settled
    BY <1>2 DEF Alert, ownVars, Settled
  <2>2. \A q \in Partitions :
          Len(log'[q]) = IF q = p THEN Len(log[q]) + 1 ELSE Len(log[q])
    BY <2>1, ProduceKeeps DEF AgentInv
  <2>3. [q \in Partitions |-> Len(log'[q])] =
          [[q \in Partitions |-> Len(log[q])] EXCEPT ![p] = @ + 1]
    BY <2>2
  <2>4. QED
    BY <2>1, <2>3 DEF Ledger!Append, Produce
<1>3. ASSUME NEW p \in Partitions, TakeIgnored(p) \/ Take(p)
      PROVE  Ledger!Take(p)
  <2>1. Poll(p) /\ log' = log
    BY <1>3 DEF TakeIgnored, Take, Poll
  <2>2. Settled' = Settled \/ Settled' = Settled \cup {<<p, position[p] + 1>>}
    BY <1>3, TakeIgnoredStep, TakeStep
  <2>3. QED
    BY <2>1, <2>2 DEF Ledger!Take, Poll
<1>4. ASSUME AppendOk
      PROVE  Ledger!Settle
  <2>1. UNCHANGED <<log, position, committed, inHand>>
    BY <1>4 DEF AppendOk, groupVars
  <2>2. QED
    BY <1>4, <2>1, AppendOkStep DEF Ledger!Settle, Ledger!InHand, Here
<1>5. ASSUME \/ ProviderAnswers \/ ProviderRaised \/ PublishAcked \/ PublishFailed
             \/ AppendRaised \/ Observe \/ NewHour
      PROVE  UNCHANGED Ledger!vars
  <2>1. UNCHANGED groupVars
    BY <1>5 DEF ProviderAnswers, ProviderRaised, PublishAcked, PublishFailed,
                AppendRaised, Observe, NewHour
  <2>2. Settled' = Settled
    BY <1>5, ProviderStep, PublishStep, AppendRaisedStep, ObserveStep, NewHourStep
  <2>3. QED
    BY <2>1, <2>2 DEF groupVars
<1>6. ASSUME Commit
      PROVE  Ledger!Finish \/ Ledger!GiveUp
  BY <1>6, CommitStep DEF Ledger!Finish, Ledger!GiveUp, Ledger!InHand, Here
<1>7. ASSUME Rejoin \/ Restart
      PROVE  Ledger!Resume
  BY <1>7, AssignMaps
<1>8. QED
  BY <1>1, <1>2, <1>3, <1>4, <1>5, <1>6, <1>7 DEF Next, Emit, Ledger!Next

\* The AIOps agent implements the offset promise of a core consumer
\* (run_agent_loop, commit_if_needed).
THEOREM ImplementsLedger == Spec => LedgerSpec
<1>1. AgentInv /\ [Next]_vars => [Ledger!Next]_(Ledger!vars)
  BY StepMaps
<1>2. QED
  BY AgentInit, AgentStep, InitMaps, <1>1, PTL
     DEF Spec, LedgerSpec, Ledger!Spec

-----------------------------------------------------------------------------
\* The ledger's own theorems, read through the refinement mapping.
Proved ==
  INSTANCE OffsetLedger_proofs WITH
    end <- [p \in Partitions |-> Len(log[p])], hand <- inHand,
    settled <- Settled

\* What the ledger proves of committed offsets, read for the agent.
LEMMA PromiseKept == Spec => []Proved!CommittedIsSettled
<1>1. None \notin Partitions
  BY ConsumerAssumption DEF ConsumerAssumption
<1>2. Proved!Spec => [](Proved!TakenIsSettled /\ Proved!CommittedIsTaken
                         /\ Proved!CommittedIsSettled)
  BY <1>1, Proved!LedgerSafe
<1>3. Ledger!Init => Proved!Init
  BY DEF Ledger!Init, Proved!Init, Ledger!NoOffset, Proved!NoOffset
<1>4. [Ledger!Next]_(Ledger!vars) => [Proved!Next]_(Proved!vars)
  BY DEF Ledger!Next, Proved!Next, Ledger!vars, Proved!vars,
     Ledger!Append, Proved!Append, Ledger!Take, Proved!Take,
     Ledger!Settle, Proved!Settle, Ledger!Finish, Proved!Finish,
     Ledger!GiveUp, Proved!GiveUp, Ledger!Resume, Proved!Resume,
     Ledger!InHand, Proved!InHand, Ledger!ResumePoints, Proved!ResumePoints,
     Ledger!NoOffset, Proved!NoOffset
<1>5. QED
  BY ImplementsLedger, <1>2, <1>3, <1>4, PTL
     DEF LedgerSpec, Ledger!Spec, Proved!Spec

\* An alert behind a committed offset has a suggestion of either scope in
\* the topic and in a readable line, or a recorded reason to have none
\* (should_commit = alert_ok or cluster_ok, then commit of all positions).
THEOREM AdvisedOrExcused == Spec => []CommittedIsAdvised
<1>1. AgentInv /\ Proved!CommittedIsSettled => CommittedIsAdvised
  <2> SUFFICES ASSUME AgentInv, Proved!CommittedIsSettled,
                      NEW p \in Partitions, NEW n \in 1..committed[p]
               PROVE  LET loc == <<p, n>> IN
                      \/ log[p][n] \notin Alerts
                      \/ \E s \in topic \cap file : s[1][1] = loc
                      \/ \E how \in {"glued", "abandoned", "skipped"} :
                           <<loc, how>> \in outcome
    BY DEF CommittedIsAdvised
  <2>1. <<p, n>> \in Settled
    BY DEF Proved!CommittedIsSettled
  <2>2. PICK z \in outcome : z[1] = <<p, n>>
    BY <2>1 DEF Settled
  <2>3. z \in Locations \X Hows
    BY <2>2 DEF AgentInv, LoopTypes
  <2>4. z = <<<<p, n>>, z[2]>> /\ z[2] \in Hows
    BY <2>2, <2>3
  <2>5. n \in Nat
    BY GroupRange DEF AgentInv, NoOffset
  <2>6. CASE z[2] \in {"junk", "minor"}
    BY <2>2, <2>4, <2>5, <2>6 DEF AgentInv, Ignored
  <2>7. CASE z[2] = "advised"
    BY <2>2, <2>4, <2>7 DEF AgentInv, Advised
  <2>8. CASE z[2] \in {"glued", "abandoned", "skipped"}
    BY <2>2, <2>4, <2>8
  <2>9. QED
    BY <2>4, <2>6, <2>7, <2>8 DEF Hows
<1>2. QED
  BY AgentInit, AgentStep, PromiseKept, <1>1, PTL DEF Spec

-----------------------------------------------------------------------------
\* The aggregator.  An emit time is that of the key's last trigger.
LastEmitIsLatest ==
  \A t \in triggers : lastEmit[t.key] # Never /\ t.at <= lastEmit[t.key]

ClusterInv ==
  AggregatorTypeOK(Locations) /\ LastEmitIsLatest /\ ClustersAreSound

Entries == [at : Nat, from : Locations]

\* A set of naturals that is not empty has a least member.
LEMMA Least ==
  ASSUME NEW T, T \subseteq Nat, T # {}
  PROVE  \E m \in T : \A k \in T : m <= k
<1> DEFINE R == {ss \in Nat \X Nat : ss[1] < ss[2]}
<1>1. IsWellFoundedOn(R, Nat)
  BY NatLessThanWellFounded DEF OpToRel
<1>2. \E x \in T : \A y \in T : ~(<<y, x>> \in R)
  <2> HIDE DEF R
  <2> QED
    BY <1>1, WFMin
<1>3. PICK x \in T : \A y \in T : ~(<<y, x>> \in R)
  BY <1>2
<1>4. ASSUME NEW k \in T
      PROVE  x <= k
  <2>1. <<k, x>> \in R <=> k < x
    OBVIOUS
  <2>2. ~(<<k, x>> \in R)
    BY <1>3
  <2>3. k \in Nat /\ x \in Nat
    OBVIOUS
  <2> HIDE DEF R
  <2>4. QED
    BY <2>1, <2>2, <2>3
<1>5. QED
  BY <1>4

\* What is cut off the timeline has expired, and the rest is kept as it is.
LEMMA SlidIsEnd ==
  ASSUME AggregatorTypeOK(Locations), NEW key \in ClusterKeys, NEW entry \in Entries
  PROVE  LET all == Append(timeline[key], entry) IN
         \E head \in 1..Len(all) :
           /\ Slid(key, entry) \in Seq(Entries)
           /\ Len(Slid(key, entry)) = Len(all) - head + 1
           /\ \A i \in 1..Len(Slid(key, entry)) : Slid(key, entry)[i] = all[head + i - 1]
           /\ ~Expired(all[head], entry.at)
           /\ \A i \in 1..Len(all) : i < head => Expired(all[i], entry.at)
<1> DEFINE all   == Append(timeline[key], entry)
           fresh == {i \in 1..Len(all) : ~Expired(all[i], entry.at)}
           head  == CHOOSE i \in fresh : \A j \in fresh : i <= j
<1>1. timeline[key] \in Seq(Entries)
  BY DEF AggregatorTypeOK, Entries
<1>2. /\ all \in Seq(Entries) /\ Len(all) = Len(timeline[key]) + 1
      /\ Len(all) \in Nat \ {0} /\ all[Len(all)] = entry
  BY <1>1
<1>3. entry.at \in Nat /\ Window \in Nat \ {0}
  BY AggregatorAssumption DEF AggregatorAssumption, Entries
<1>4. Len(all) \in fresh
  BY <1>2, <1>3 DEF Expired
<1>5. head \in fresh /\ \A j \in fresh : head <= j
  <2>1. fresh \subseteq Nat /\ fresh # {}
    BY <1>2, <1>4
  <2>2. \E m \in fresh : \A k \in fresh : m <= k
    <3> HIDE DEF fresh
    <3> QED
      BY <2>1, Least
  <2> HIDE DEF fresh
  <2>3. QED
    BY <2>2
<1>6. Slid(key, entry) = SubSeq(all, head, Len(all))
  BY DEF Slid
<1>7. head \in 1..Len(all) /\ ~Expired(all[head], entry.at)
  <2> HIDE DEF head
  <2> QED
    BY <1>5
<1>8. \A i \in 1..Len(all) : i < head => Expired(all[i], entry.at)
  <2> HIDE DEF head
  <2> QED
    BY <1>5, <1>7
<1> HIDE DEF all, fresh, head
<1> DEFINE cut == SubSeq(all, head, Len(all))
<1>9. /\ cut \in Seq(Entries) /\ Len(cut) = Len(all) - head + 1
      /\ \A i \in 1..Len(cut) : cut[i] = all[head + i - 1]
  BY <1>2, <1>7
<1>10. QED
  BY <1>6, <1>7, <1>8, <1>9 DEF all

\* The cut timeline ends in the new entry and begins with one that has not
\* expired.
LEMMA SlidShape ==
  ASSUME AggregatorTypeOK(Locations), NEW key \in ClusterKeys, NEW entry \in Entries
  PROVE  /\ Slid(key, entry) \in Seq(Entries)
         /\ Len(Slid(key, entry)) \in Nat \ {0}
         /\ Slid(key, entry)[Len(Slid(key, entry))] = entry
         /\ ~Expired(Slid(key, entry)[1], entry.at)
<1>1. timeline[key] \in Seq(Entries)
  BY DEF AggregatorTypeOK, Entries
<1>2. PICK all : all = Append(timeline[key], entry)
  OBVIOUS
<1>3. Len(all) \in Nat \ {0} /\ all[Len(all)] = entry
  BY <1>1, <1>2
<1>4. PICK head \in 1..Len(all) :
        /\ Slid(key, entry) \in Seq(Entries)
        /\ Len(Slid(key, entry)) = Len(all) - head + 1
        /\ \A i \in 1..Len(Slid(key, entry)) : Slid(key, entry)[i] = all[head + i - 1]
        /\ ~Expired(all[head], entry.at)
  BY <1>2, SlidIsEnd
<1>5. QED
  BY <1>3, <1>4

\* What observe leaves is sound again.
LEMMA ObservedSound ==
  ASSUME ClusterInv, NEW key \in ClusterKeys, NEW entry \in Entries,
         Observed(key, entry)
  PROVE  ClusterInv'
<1> DEFINE slid == Slid(key, entry)
           new  == [key |-> key, at |-> entry.at, members |-> slid]
<1>1. /\ timeline' = [timeline EXCEPT ![key] = slid]
      /\ lastEmit' = LastEmitAfter(key, entry)
      /\ observed' =
           Append(observed, [key |-> key, at |-> entry.at, from |-> entry.from])
      /\ triggers' = IF Fires(key, entry) THEN triggers \cup {new} ELSE triggers
  BY DEF Observed
<1>2. AggregatorTypeOK(Locations)
  BY DEF ClusterInv
<1>3. /\ slid \in Seq(Entries) /\ Len(slid) \in Nat \ {0}
      /\ slid[Len(slid)] = entry /\ ~Expired(slid[1], entry.at)
  BY <1>2, SlidShape
<1> HIDE DEF slid
<1>4. entry.at \in Nat /\ entry.from \in Locations
  BY DEF Entries
<1>5. /\ lastEmit \in [ClusterKeys -> Nat \cup {Never}]
      /\ triggers \subseteq [key : ClusterKeys, at : Nat, members : Seq(Entries)]
      /\ timeline \in [ClusterKeys -> Seq(Entries)]
      /\ observed \in Seq([key : ClusterKeys, at : Nat, from : Locations])
  BY <1>2 DEF AggregatorTypeOK, Entries
<1>6. new \in [key : ClusterKeys, at : Nat, members : Seq(Entries)]
  BY <1>3, <1>4
<1>7. Fires(key, entry) => /\ lastEmit' = [lastEmit EXCEPT ![key] = entry.at]
                           /\ lastEmit[key] = Never \/ entry.at - lastEmit[key] >= Cooldown
                           /\ Len(slid) >= MinAlerts
  BY <1>1, <1>4, <1>5, AggregatorAssumption
     DEF Fires, LastEmitAfter, CoolingDown, slid, AggregatorAssumption, Never
<1>8. ~Fires(key, entry) => lastEmit' = lastEmit
  BY <1>1 DEF LastEmitAfter
<1>9. AggregatorTypeOK(Locations)'
  <2>1. timeline' \in [ClusterKeys -> Seq(Entries)]
    BY <1>1, <1>3, <1>5
  <2>2. lastEmit' \in [ClusterKeys -> Nat \cup {Never}]
    BY <1>4, <1>5, <1>7, <1>8
  <2>3. observed' \in Seq([key : ClusterKeys, at : Nat, from : Locations])
    <3>1. [key |-> key, at |-> entry.at, from |-> entry.from] \in
            [key : ClusterKeys, at : Nat, from : Locations]
      BY <1>4
    <3>2. QED
      BY <1>1, <1>5, <3>1
  <2>4. triggers' \subseteq [key : ClusterKeys, at : Nat, members : Seq(Entries)]
    BY <1>1, <1>5, <1>6
  <2>5. QED
    BY <2>1, <2>2, <2>3, <2>4 DEF AggregatorTypeOK, Entries
<1>10. LastEmitIsLatest'
  <2> SUFFICES ASSUME NEW t \in triggers'
               PROVE  lastEmit'[t.key] # Never /\ t.at <= lastEmit'[t.key]
    BY DEF LastEmitIsLatest
  <2>1. CASE t \in triggers
    <3>1. /\ lastEmit[t.key] # Never /\ t.at <= lastEmit[t.key]
          /\ t.key \in ClusterKeys /\ t.at \in Nat
      BY <1>5, <2>1 DEF ClusterInv, LastEmitIsLatest
    <3>2. CASE Fires(key, entry)
      <4>1. lastEmit' = [lastEmit EXCEPT ![key] = entry.at]
        BY <1>7, <3>2
      <4>2. CASE t.key = key
        <5>1. lastEmit'[t.key] = entry.at
          BY <1>5, <4>1, <4>2
        <5>2. lastEmit[key] \in Nat /\ entry.at - lastEmit[key] >= Cooldown
          BY <1>5, <1>7, <3>1, <3>2, <4>2 DEF Never
        <5>3. Cooldown \in Nat
          BY AggregatorAssumption DEF AggregatorAssumption
        <5>4. QED
          BY <1>4, <3>1, <4>2, <5>1, <5>2, <5>3 DEF Never
      <4>3. CASE t.key # key
        BY <1>5, <3>1, <4>1, <4>3
      <4>4. QED
        BY <4>2, <4>3
    <3>3. CASE ~Fires(key, entry)
      BY <1>8, <3>1, <3>3
    <3>4. QED
      BY <3>2, <3>3
  <2>2. CASE t \notin triggers
    BY <1>1, <1>4, <1>5, <1>7, <2>2 DEF Never
  <2>3. QED
    BY <2>1, <2>2
<1>11. ClustersAreSound'
  <2>1. Cooldown \in Nat \ {0} /\ Window \in Nat \ {0} /\ MinAlerts \in Nat
    BY AggregatorAssumption DEF AggregatorAssumption
  <2>2. ASSUME NEW t \in triggers, t.key = key, Fires(key, entry)
        PROVE  entry.at - t.at >= Cooldown
    <3>1. lastEmit[key] \in Nat /\ t.at <= lastEmit[key] /\ t.at \in Nat
      BY <1>5, <2>2 DEF ClusterInv, LastEmitIsLatest, Never
    <3>2. QED
      BY <1>4, <1>7, <2>1, <2>2, <3>1 DEF Never
  <2>3. ASSUME NEW t \in triggers', NEW u \in triggers', t.key = u.key, t # u
        PROVE  t.at - u.at >= Cooldown \/ u.at - t.at >= Cooldown
    <3>1. CASE t \in triggers /\ u \in triggers
      BY <2>3, <3>1 DEF ClusterInv, ClustersAreSound
    <3>2. CASE t \in triggers /\ u \notin triggers
      BY <1>1, <2>2, <2>3, <3>2
    <3>3. CASE t \notin triggers /\ u \in triggers
      BY <1>1, <2>2, <2>3, <3>3
    <3>4. CASE t \notin triggers /\ u \notin triggers
      BY <1>1, <2>3, <3>4
    <3>5. QED
      BY <3>1, <3>2, <3>3, <3>4
  <2>4. ASSUME NEW t \in triggers',
               \A i, j \in 1..Len(t.members) :
                 i < j => t.members[i].at <= t.members[j].at
        PROVE  /\ Len(t.members) >= MinAlerts
               /\ \A i \in 1..Len(t.members) : t.at - t.members[i].at \in 0..Window
    <3>1. CASE t \in triggers
      BY <2>4, <3>1 DEF ClusterInv, ClustersAreSound
    <3>2. CASE t \notin triggers
      <4>1. Fires(key, entry) /\ t = new
        BY <1>1, <3>2
      <4>2. t.members = slid /\ t.at = entry.at
        BY <4>1
      <4>3. ASSUME NEW i \in 1..Len(slid)
            PROVE  entry.at - slid[i].at \in 0..Window
        <5>1. slid[i].at \in Nat /\ slid[1].at \in Nat
          <6>1. 1 \in 1..Len(slid)
            BY <1>3
          <6>2. slid[i] \in Entries /\ slid[1] \in Entries
            BY <1>3, <4>3, <6>1
          <6>3. QED
            BY <6>2 DEF Entries
        <5>2. slid[1].at <= slid[i].at /\ slid[i].at <= slid[Len(slid)].at
          BY <1>3, <2>4, <4>2, <5>1
        <5>3. slid[1].at >= entry.at - Window
          BY <1>3, <1>4, <2>1, <5>1 DEF Expired
        <5>4. QED
          BY <1>3, <1>4, <2>1, <5>1, <5>2, <5>3
      <4>4. QED
        BY <1>7, <4>1, <4>2, <4>3
    <3>3. QED
      BY <3>1, <3>2
  <2>5. QED
    BY <2>3, <2>4 DEF ClustersAreSound
<1>12. QED
  BY <1>9, <1>10, <1>11 DEF ClusterInv

\* An empty aggregator is sound.
LEMMA ClusterInit == AggregatorInit => ClusterInv
<1> SUFFICES ASSUME AggregatorInit
             PROVE  ClusterInv
  OBVIOUS
<1>1. /\ timeline = [k \in ClusterKeys |-> <<>>]
      /\ lastEmit = [k \in ClusterKeys |-> Never]
      /\ observed = <<>> /\ triggers = {}
  BY DEF AggregatorInit
<1>2. AggregatorTypeOK(Locations)
  BY <1>1 DEF AggregatorTypeOK
<1>3. LastEmitIsLatest /\ ClustersAreSound
  BY <1>1 DEF LastEmitIsLatest, ClustersAreSound
<1>4. QED
  BY <1>2, <1>3 DEF ClusterInv

\* Only observe and a restart touch the aggregator, and it stays sound.
LEMMA ClusterStep ==
  ASSUME AgentInv, ClusterInv, [Next]_vars
  PROVE  ClusterInv'
<1>1. CASE UNCHANGED aggregatorVars
  BY <1>1 DEF ClusterInv, AggregatorTypeOK, LastEmitIsLatest, ClustersAreSound,
              aggregatorVars
<1>2. CASE Observe
  <2>1. /\ pc = "observe" /\ inHand # None /\ Current \in Alerts
        /\ Here \in Locations
    BY <1>2, HereIsLocation DEF Observe, AgentInv, LoopTypes, Flow
  <2>2. PICK now \in Stamps[Current] :
          Observed(KeyOf[Current], [at |-> now, from |-> Here])
    BY <1>2 DEF Observe
  <2>3. KeyOf[Current] \in ClusterKeys /\ [at |-> now, from |-> Here] \in Entries
    BY <2>1, <2>2, AgentAssumption DEF AgentAssumption, Entries
  <2>4. QED
    BY <2>2, <2>3, ObservedSound
<1>3. CASE Restart
  <2>1. AggregatorLost
    BY <1>3 DEF Restart
  <2>2. /\ timeline' = [k \in ClusterKeys |-> <<>>]
        /\ lastEmit' = [k \in ClusterKeys |-> Never]
        /\ observed' = <<>> /\ triggers' = {}
    BY <2>1 DEF AggregatorLost
  <2>3. AggregatorTypeOK(Locations)'
    BY <2>2 DEF AggregatorTypeOK
  <2>4. LastEmitIsLatest' /\ ClustersAreSound'
    BY <2>2 DEF LastEmitIsLatest, ClustersAreSound
  <2>5. QED
    BY <2>3, <2>4 DEF ClusterInv
<1>4. QED
  BY <1>1, <1>2, <1>3
     DEF Next, vars, Alert, TakeIgnored, Take, Emit, ProviderAnswers,
         ProviderRaised, PublishAcked, PublishFailed, AppendOk, AppendRaised,
         Commit, NewHour, Rejoin

\* Both invariants hold in every reachable state.
LEMMA Inductive == Spec => [](AgentInv /\ ClusterInv)
<1>1. Init => AgentInv /\ ClusterInv
  BY AgentInit, ClusterInit DEF Init
<1>2. AgentInv /\ ClusterInv /\ [Next]_vars => (AgentInv /\ ClusterInv)'
  BY AgentStep, ClusterStep
<1>3. QED
  BY <1>1, <1>2, PTL DEF Spec

\* Triggers of one key are a cooldown apart, and a cluster whose alerts came
\* in order has at least min_alerts of them, all within its window (observe).
THEOREM ClustersSound == Spec => []ClustersAreSound
<1>1. ClusterInv => ClustersAreSound
  BY DEF ClusterInv
<1>2. QED
  BY Inductive, <1>1, PTL

\* Loop, stores, outcomes and aggregator keep their types.
THEOREM TypeCorrect == Spec => []TypeOK
<1>1. AgentInv /\ ClusterInv => TypeOK
  <2> SUFFICES ASSUME AgentInv, ClusterInv
               PROVE  TypeOK
    OBVIOUS
  <2>1. queue \in Seq(Requests)
    <3>1. CASE pc = "infer"
      <4>1. queue = <<request>> /\ request \in Requests
        BY <3>1 DEF AgentInv, LoopTypes, Flow
      <4>2. QED
        BY <4>1
    <3>2. CASE pc # "infer"
      BY <3>2 DEF AgentInv, Flow
    <3>3. QED
      BY <3>1, <3>2
  <2>2. QED
    BY <2>1 DEF AgentInv, GroupInv, LoopTypes, ClusterInv, TypeOK
<1>2. QED
  BY Inductive, <1>1, PTL

-----------------------------------------------------------------------------
(***************************************************************************)
(* No burst stays silent.  Each entry of a timeline stands for an          *)
(* observation, and an observation of the key that no entry stands for is  *)
(* older than the window of a later one: the alerts of a window that ends  *)
(* in the latest time are all in the timeline, so min_alerts of them make  *)
(* it long enough to fire or find the cooldown of a trigger running.       *)
(***************************************************************************)
\* The observations of a key, and those that a later time has put out of the
\* window.
OfKey(k) == {m \in 1..Len(observed) : observed[m].key = k}
Passed(m) == \E n \in OfKey(observed[m].key) : observed[m].at < observed[n].at - Window

\* f tells which observation an entry of a timeline stands for.
Stands(f, k) ==
  /\ \A i \in 1..Len(timeline[k]) : observed[f[i]].at = timeline[k][i].at
  /\ \A m \in OfKey(k) : Passed(m) \/ \E i \in 1..Len(timeline[k]) : f[i] = m

\* What is not in a key's timeline has passed.
TimelineIsRecent ==
  \A k \in ClusterKeys : \E f \in [1..Len(timeline[k]) -> 1..Len(observed)] : Stands(f, k)

\* An emit time is that of a trigger, and of an observation.
EmitIsATrigger ==
  \A k \in ClusterKeys : lastEmit[k] # Never =>
    /\ \E t \in triggers : t.key = k /\ t.at = lastEmit[k]
    /\ \E m \in OfKey(k) : observed[m].at = lastEmit[k]

BurstInv == TimelineIsRecent /\ EmitIsATrigger /\ BurstsMakeClusters

\* As many members as places that stand for them, or fewer.
LEMMA NoMoreThanPlaces ==
  ASSUME NEW n \in Nat, NEW f \in [1..n -> Nat], NEW S, \A m \in S : \E i \in 1..n : f[i] = m
  PROVE  Cardinality(S) \in Nat /\ Cardinality(S) <= n
<1> DEFINE T == {f[i] : i \in 1..n}
<1>1. f \in Surjection(1..n, T)
  BY DEF Surjection
<1>2. IsFiniteSet(1..n) /\ Cardinality(1..n) = n
  BY FS_Interval
<1>3. IsFiniteSet(T) /\ Cardinality(T) <= n
  BY <1>1, <1>2, FS_Surjection
<1>4. S \in SUBSET T
  OBVIOUS
<1>5. IsFiniteSet(S) /\ Cardinality(S) <= Cardinality(T)
  BY <1>3, <1>4, FS_Subset
<1>6. QED
  BY <1>3, <1>5, FS_CardinalityType

\* An observation is appended: the earlier ones are as they were.
LEMMA OneMoreObserved ==
  ASSUME AggregatorTypeOK(Locations), NEW key \in ClusterKeys, NEW entry \in Entries,
         NEW n, n = Len(observed) + 1, Observed(key, entry)
  PROVE  /\ n \in Nat \ {0} /\ Len(observed) \in Nat /\ Len(observed') = n
         /\ observed'[n].key = key /\ observed'[n].at = entry.at
         /\ \A m \in 1..Len(observed) : observed'[m] = observed[m]
         /\ \A m \in 1..Len(observed') : observed'[m].key \in ClusterKeys /\ observed'[m].at \in Nat
         /\ \A m \in 1..n : m \in 1..Len(observed) \/ m = n
<1>1. PICK o : o = [key |-> key, at |-> entry.at, from |-> entry.from]
  OBVIOUS
<1>2. /\ o \in [key : ClusterKeys, at : Nat, from : Locations] /\ o.key = key /\ o.at = entry.at
      /\ observed' = Append(observed, o)
      /\ observed \in Seq([key : ClusterKeys, at : Nat, from : Locations])
  BY <1>1 DEF Observed, AggregatorTypeOK, Entries
<1>3. /\ observed' \in Seq([key : ClusterKeys, at : Nat, from : Locations])
      /\ Len(observed) \in Nat /\ Len(observed') = n /\ observed'[n] = o
      /\ \A m \in 1..Len(observed) : observed'[m] = observed[m]
  <2>1. PICK S : S = [key : ClusterKeys, at : Nat, from : Locations]
    OBVIOUS
  <2>2. o \in S /\ observed \in Seq(S) /\ observed' = Append(observed, o)
    BY <1>2, <2>1
  <2>3. /\ observed' \in Seq(S)
        /\ Len(observed) \in Nat /\ Len(observed') = Len(observed) + 1
        /\ observed'[Len(observed) + 1] = o
        /\ \A m \in 1..Len(observed) : observed'[m] = observed[m]
    BY <2>2
  <2>4. QED
    BY <2>1, <2>3
<1>4. \A m \in 1..Len(observed') : observed'[m].key \in ClusterKeys /\ observed'[m].at \in Nat
  <2>1. \A m \in 1..Len(observed') : observed'[m] \in [key : ClusterKeys, at : Nat, from : Locations]
    <3>1. PICK S : S = [key : ClusterKeys, at : Nat, from : Locations]
      OBVIOUS
    <3>2. observed' \in Seq(S)
      BY <1>3, <3>1
    <3>3. \A m \in 1..Len(observed') : observed'[m] \in S
      BY <3>2
    <3>4. QED
      BY <3>1, <3>3
  <2>2. QED
    BY <2>1
<1>5. QED
  BY <1>2, <1>3, <1>4

\* Observing keeps an entry or a passing for every observation.
LEMMA RecentKept ==
  ASSUME AggregatorTypeOK(Locations), TimelineIsRecent,
         NEW key \in ClusterKeys, NEW entry \in Entries, Observed(key, entry)
  PROVE  TimelineIsRecent'
<1>1. PICK n, slid : n = Len(observed) + 1 /\ slid = Slid(key, entry)
  OBVIOUS
<1>2. /\ n \in Nat \ {0} /\ Len(observed) \in Nat /\ Len(observed') = n
      /\ observed'[n].key = key /\ observed'[n].at = entry.at
      /\ \A m \in 1..Len(observed) : observed'[m] = observed[m]
      /\ \A m \in 1..n : m \in 1..Len(observed) \/ m = n
      /\ 1..Len(observed) \subseteq 1..n /\ n \in 1..n
  BY <1>1, OneMoreObserved
<1>3. \A k \in ClusterKeys \ {key} : timeline'[k] = timeline[k]
  BY DEF Observed, AggregatorTypeOK
<1>4. timeline'[key] = slid
  BY <1>1 DEF Observed, AggregatorTypeOK
<1>5. ASSUME NEW m \in 1..Len(observed), Passed(m) PROVE Passed(m)'
  <2>1. PICK later \in OfKey(observed[m].key) : observed[m].at < observed[later].at - Window
    BY <1>5 DEF Passed
  <2>2. later \in 1..Len(observed) /\ observed[later].key = observed[m].key
    BY <2>1 DEF OfKey
  <2>3. QED
    BY <1>2, <2>1, <2>2 DEF Passed, OfKey
<1>6. ASSUME NEW k \in ClusterKeys \ {key}
      PROVE  \E f \in [1..Len(timeline'[k]) -> 1..Len(observed')] : Stands(f, k)'
  <2>1. PICK f \in [1..Len(timeline[k]) -> 1..Len(observed)] : Stands(f, k)
    BY DEF TimelineIsRecent
  <2>2. f \in [1..Len(timeline'[k]) -> 1..Len(observed')]
    BY <1>2, <1>3, <2>1
  <2>3. \A i \in 1..Len(timeline[k]) : observed'[f[i]].at = timeline[k][i].at
    BY <1>2, <2>1 DEF Stands
  <2>4. \A m \in 1..n : observed'[m].key = k => m \in OfKey(k)
    BY <1>2 DEF OfKey
  <2>5. \A m \in 1..n : observed'[m].key = k => Passed(m)' \/ \E i \in 1..Len(timeline[k]) : f[i] = m
    BY <1>5, <2>1, <2>4 DEF Stands, OfKey
  <2>6. Stands(f, k)'
    BY <1>2, <1>3, <2>3, <2>5 DEF Stands, OfKey
  <2>7. QED
    BY <2>2, <2>6
<1>7. \E f \in [1..Len(timeline'[key]) -> 1..Len(observed')] : Stands(f, key)'
  <2>1. PICK f \in [1..Len(timeline[key]) -> 1..Len(observed)] : Stands(f, key)
    BY DEF TimelineIsRecent
  <2>2. PICK all, size : all = Append(timeline[key], entry) /\ size = Len(timeline[key])
    OBVIOUS
  <2>3. timeline[key] \in Seq(Entries)
    BY DEF AggregatorTypeOK, Entries
  <2>4. /\ size \in Nat /\ Len(all) = size + 1 /\ all[size + 1] = entry
        /\ \A i \in 1..size : all[i] = timeline[key][i]
    BY <2>2, <2>3
  <2>5. PICK head \in 1..Len(all) :
          /\ Len(slid) = Len(all) - head + 1
          /\ \A i \in 1..Len(slid) : slid[i] = all[head + i - 1]
          /\ \A i \in 1..Len(all) : i < head => Expired(all[i], entry.at)
    BY <1>1, <2>2, SlidIsEnd
  <2>6. PICK g : g = [i \in 1..Len(slid) |-> IF head + i - 1 \in 1..size THEN f[head + i - 1] ELSE n]
    OBVIOUS
  <2>7. \A i \in 1..Len(slid) : head + i - 1 \in 1..size \/ head + i - 1 = size + 1
    BY <2>4, <2>5
  <2>8. g \in [1..Len(slid) -> 1..n]
    BY <1>2, <2>1, <2>2, <2>6
  <2>9. ASSUME NEW i \in 1..Len(slid) PROVE observed'[g[i]].at = slid[i].at
    <3>1. CASE head + i - 1 \in 1..size
      <4>1. g[i] = f[head + i - 1] /\ f[head + i - 1] \in 1..Len(observed)
        BY <2>1, <2>2, <2>6, <3>1
      <4>2. observed[f[head + i - 1]].at = timeline[key][head + i - 1].at
        BY <2>1, <2>2, <3>1 DEF Stands
      <4>3. QED
        BY <1>2, <2>4, <2>5, <3>1, <4>1, <4>2
    <3>2. CASE head + i - 1 = size + 1
      <4>1. head + i - 1 \notin 1..size
        BY <2>4, <3>2
      <4>2. g[i] = n
        BY <2>6, <4>1
      <4>3. slid[i] = entry
        BY <2>4, <2>5, <3>2
      <4>4. QED
        BY <1>2, <4>2, <4>3
    <3>3. QED
      BY <2>7, <3>1, <3>2
  <2>10. ASSUME NEW m \in 1..n, observed'[m].key = key
         PROVE  Passed(m)' \/ \E i \in 1..Len(slid) : g[i] = m
    <3>1. CASE m = n
      <4>1. Len(slid) \in 1..Len(slid) /\ head + Len(slid) - 1 = size + 1
        BY <2>4, <2>5
      <4>2. head + Len(slid) - 1 \notin 1..size
        BY <2>4, <4>1
      <4>3. g[Len(slid)] = n
        BY <2>6, <4>1, <4>2
      <4>4. QED
        BY <3>1, <4>1, <4>3
    <3>2. CASE m \in 1..Len(observed)
      <4>1. m \in OfKey(key)
        BY <1>2, <2>10, <3>2 DEF OfKey
      <4>2. CASE Passed(m)
        BY <1>5, <3>2, <4>2
      <4>3. ASSUME NEW i \in 1..size, f[i] = m
            PROVE  Passed(m)' \/ \E j \in 1..Len(slid) : g[j] = m
        <5>1. CASE i < head
          <6>1. Expired(timeline[key][i], entry.at)
            <7>1. i \in 1..Len(all) /\ all[i] = timeline[key][i]
              BY <2>4
            <7>2. Expired(all[i], entry.at)
              BY <2>5, <5>1, <7>1
            <7>3. QED
              BY <7>1, <7>2
          <6>2. observed'[m].at = timeline[key][i].at
            BY <1>2, <2>1, <2>2, <3>2, <4>3 DEF Stands
          <6>3. n \in OfKey(key)' /\ observed'[m].key = key
            BY <1>2, <2>10 DEF OfKey
          <6>4. observed'[m].at < observed'[n].at - Window
            BY <1>2, <6>1, <6>2 DEF Expired
          <6>5. QED
            BY <6>3, <6>4 DEF Passed
        <5>2. CASE ~(i < head)
          <6>1. PICK j : j = i - head + 1
            OBVIOUS
          <6>2. j \in 1..Len(slid) /\ head + j - 1 = i
            BY <2>4, <2>5, <5>2, <6>1
          <6>3. g[j] = m
            BY <2>6, <4>3, <6>2
          <6>4. QED
            BY <6>2, <6>3
        <5>3. QED
          BY <5>1, <5>2
      <4>4. QED
        BY <2>1, <2>2, <4>1, <4>2, <4>3 DEF Stands
    <3>3. QED
      BY <1>2, <3>1, <3>2
  <2>11. Stands(g, key)'
    BY <1>2, <1>4, <2>9, <2>10 DEF Stands, OfKey
  <2>12. QED
    BY <1>2, <1>4, <2>8, <2>11
<1>8. QED
  BY <1>6, <1>7 DEF TimelineIsRecent

\* An emit time comes with its trigger and its observation.
LEMMA EmitKept ==
  ASSUME AggregatorTypeOK(Locations), EmitIsATrigger,
         NEW key \in ClusterKeys, NEW entry \in Entries, Observed(key, entry)
  PROVE  EmitIsATrigger'
<1>1. PICK n, slid : n = Len(observed) + 1 /\ slid = Slid(key, entry)
  OBVIOUS
<1>2. /\ n \in Nat \ {0} /\ Len(observed') = n
      /\ observed'[n].key = key /\ observed'[n].at = entry.at
      /\ \A m \in 1..Len(observed) : observed'[m] = observed[m]
      /\ 1..Len(observed) \subseteq 1..n /\ n \in 1..n
  BY <1>1, OneMoreObserved
<1>3. \A k \in ClusterKeys : OfKey(k) \subseteq OfKey(k)'
  BY <1>2 DEF OfKey
<1>4. n \in OfKey(key)'
  BY <1>2 DEF OfKey
<1>5. ASSUME NEW k \in ClusterKeys, lastEmit'[k] # Never
      PROVE  /\ \E t \in triggers' : t.key = k /\ t.at = lastEmit'[k]
             /\ \E m \in OfKey(k)' : observed'[m].at = lastEmit'[k]
  <2>1. CASE lastEmit'[k] = lastEmit[k]
    <3>1. PICK t \in triggers : t.key = k /\ t.at = lastEmit[k]
      BY <1>5, <2>1 DEF EmitIsATrigger
    <3>2. PICK m \in OfKey(k) : observed[m].at = lastEmit[k]
      BY <1>5, <2>1 DEF EmitIsATrigger
    <3>3. t \in triggers' /\ m \in OfKey(k)' /\ observed'[m].at = lastEmit[k]
      BY <1>2, <1>3, <3>1, <3>2 DEF Observed, OfKey
    <3>4. QED
      BY <2>1, <3>1, <3>3
  <2>2. CASE lastEmit'[k] # lastEmit[k]
    <3>1. Fires(key, entry) /\ k = key /\ lastEmit'[k] = entry.at
      BY <2>2 DEF Observed, LastEmitAfter, AggregatorTypeOK
    <3>2. [key |-> key, at |-> entry.at, members |-> slid] \in triggers'
      BY <1>1, <3>1 DEF Observed
    <3>3. QED
      BY <1>2, <1>4, <3>1, <3>2
  <2>3. QED
    BY <2>1, <2>2
<1>6. QED
  BY <1>5 DEF EmitIsATrigger

\* A burst that the new alert completes has a trigger.
LEMMA BurstsKept ==
  ASSUME AggregatorTypeOK(Locations), BurstInv,
         NEW key \in ClusterKeys, NEW entry \in Entries, Observed(key, entry)
  PROVE  BurstInv'
<1>1. PICK n, slid : n = Len(observed) + 1 /\ slid = Slid(key, entry)
  OBVIOUS
<1>2. /\ n \in Nat \ {0} /\ Len(observed) \in Nat /\ Len(observed') = n
      /\ observed'[n].key = key /\ observed'[n].at = entry.at
      /\ \A m \in 1..Len(observed) : observed'[m] = observed[m]
      /\ \A m \in 1..n : observed'[m].key \in ClusterKeys /\ observed'[m].at \in Nat
      /\ \A m \in 1..n : m \in 1..Len(observed) \/ m = n
      /\ 1..Len(observed) \subseteq 1..n /\ n \in 1..n
  BY <1>1, OneMoreObserved
<1>3. TimelineIsRecent' /\ EmitIsATrigger'
  BY RecentKept, EmitKept DEF BurstInv
<1>4. ASSUME NEW j \in 1..Len(observed), InOrder(j)', (Cardinality(InWindow(j)) >= MinAlerts)'
      PROVE  \E t \in triggers' :
               /\ t.key = observed'[j].key
               /\ t.at <= observed'[j].at /\ observed'[j].at - t.at < Cooldown
  <2>1. 1..j \subseteq 1..Len(observed)
    BY <1>2
  <2>2. SameKey(j)' = SameKey(j)
    BY <1>2, <2>1 DEF SameKey
  <2>3. InOrder(j) /\ InWindow(j)' = InWindow(j)
    BY <1>2, <1>4, <2>1, <2>2 DEF InOrder, InWindow, SameKey
  <2>4. PICK t \in triggers : /\ t.key = observed[j].key
                              /\ t.at <= observed[j].at /\ observed[j].at - t.at < Cooldown
    BY <1>4, <2>3 DEF BurstInv, BurstsMakeClusters
  <2>5. QED
    BY <1>2, <2>4 DEF Observed
<1>5. ASSUME InOrder(n)', (Cardinality(InWindow(n)) >= MinAlerts)'
      PROVE  \E t \in triggers' :
               /\ t.key = key /\ t.at <= entry.at /\ entry.at - t.at < Cooldown
  <2>1. PICK f \in [1..Len(timeline'[key]) -> 1..Len(observed')] : Stands(f, key)'
    BY <1>3 DEF TimelineIsRecent
  <2>2. timeline'[key] = slid /\ Len(slid) \in Nat
    BY <1>1, SlidShape DEF Observed, AggregatorTypeOK
  <2>3. f \in [1..Len(slid) -> Nat]
    BY <1>2, <2>1, <2>2
  <2>4. Window \in Nat /\ Cooldown \in Nat \ {0} /\ entry.at \in Nat /\ MinAlerts \in Nat
    BY AggregatorAssumption DEF AggregatorAssumption, Entries
  <2>5. ASSUME NEW m \in InWindow(n)' PROVE \E i \in 1..Len(slid) : f[i] = m
    <3>1. /\ m \in 1..n /\ observed'[m].key = key
          /\ observed'[m].at >= entry.at - Window
      BY <1>2, <2>5 DEF InWindow, SameKey
    <3>2. \A later \in 1..n : observed'[later].key = key => observed'[later].at <= entry.at
      BY <1>2, <1>5 DEF InOrder, SameKey
    <3>3. ~Passed(m)'
      BY <1>2, <2>4, <3>1, <3>2 DEF Passed, OfKey
    <3>4. QED
      BY <1>2, <2>1, <2>2, <3>1, <3>3 DEF Stands, OfKey
  <2>6. Cardinality(InWindow(n)') \in Nat /\ Cardinality(InWindow(n)') <= Len(slid)
    BY <2>2, <2>3, <2>5, NoMoreThanPlaces
  <2>7. Len(slid) >= MinAlerts
    BY <1>5, <2>2, <2>4, <2>6
  <2>8. CASE Fires(key, entry)
    <3>1. [key |-> key, at |-> entry.at, members |-> slid] \in triggers'
      BY <1>1, <2>8 DEF Observed
    <3>2. entry.at <= entry.at /\ entry.at - entry.at < Cooldown
      BY <2>4
    <3>3. QED
      BY <3>1, <3>2
  <2>9. CASE ~Fires(key, entry)
    <3>1. lastEmit[key] # Never /\ entry.at - lastEmit[key] < Cooldown
      BY <1>1, <2>7, <2>9 DEF Fires, CoolingDown
    <3>2. PICK t \in triggers : t.key = key /\ t.at = lastEmit[key]
      BY <3>1 DEF BurstInv, EmitIsATrigger
    <3>3. PICK m \in OfKey(key) : observed[m].at = lastEmit[key]
      BY <3>1 DEF BurstInv, EmitIsATrigger
    <3>4. m \in 1..n /\ observed'[m].key = key /\ observed'[m].at = lastEmit[key]
      BY <1>2, <3>3 DEF OfKey
    <3>5. observed'[m].at <= entry.at
      BY <1>2, <1>5, <3>4 DEF InOrder, SameKey
    <3>6. QED
      BY <3>1, <3>2, <3>4, <3>5 DEF Observed
  <2>10. QED
    BY <2>8, <2>9
<1>6. BurstsMakeClusters'
  BY <1>2, <1>4, <1>5 DEF BurstsMakeClusters
<1>7. QED
  BY <1>3, <1>6 DEF BurstInv

\* An aggregator that has observed nothing.
LEMMA NothingObserved ==
  ASSUME timeline = [k \in ClusterKeys |-> <<>>], lastEmit = [k \in ClusterKeys |-> Never],
         observed = <<>>
  PROVE  BurstInv
<1>1. Len(<<>>) = 0 /\ 1..0 = {} /\ \A k : OfKey(k) = {}
  BY DEF OfKey
<1>2. TimelineIsRecent
  <2> SUFFICES ASSUME NEW k \in ClusterKeys
               PROVE  \E f \in [1..0 -> 1..0] : Stands(f, k)
    BY <1>1 DEF TimelineIsRecent
  <2>1. PICK f : f = [i \in 1..0 |-> i]
    OBVIOUS
  <2>2. f \in [1..0 -> 1..0] /\ Stands(f, k)
    BY <1>1, <2>1 DEF Stands
  <2>3. QED
    BY <2>2
<1>3. EmitIsATrigger /\ BurstsMakeClusters
  BY <1>1 DEF EmitIsATrigger, BurstsMakeClusters
<1>4. QED
  BY <1>2, <1>3 DEF BurstInv

\* Nor has one that was emptied.
LEMMA NothingObservedNext ==
  ASSUME timeline' = [k \in ClusterKeys |-> <<>>], lastEmit' = [k \in ClusterKeys |-> Never],
         observed' = <<>>
  PROVE  BurstInv'
<1>1. Len(<<>>) = 0 /\ 1..0 = {} /\ \A k : OfKey(k)' = {}
  BY DEF OfKey
<1>2. TimelineIsRecent'
  <2> SUFFICES ASSUME NEW k \in ClusterKeys
               PROVE  \E f \in [1..0 -> 1..0] : Stands(f, k)'
    BY <1>1 DEF TimelineIsRecent
  <2>1. PICK f : f = [i \in 1..0 |-> i]
    OBVIOUS
  <2>2. f \in [1..0 -> 1..0] /\ Stands(f, k)'
    BY <1>1, <2>1 DEF Stands
  <2>3. QED
    BY <2>2
<1>3. EmitIsATrigger' /\ BurstsMakeClusters'
  BY <1>1 DEF EmitIsATrigger, BurstsMakeClusters
<1>4. QED
  BY <1>2, <1>3 DEF BurstInv

-----------------------------------------------------------------------------
(***************************************************************************)
(* No alert counts twice.  Between two rebalances the positions only grow, *)
(* so what is taken next was not observed before; what is in hand reaches  *)
(* the aggregator once, whatever became of its suggestion.                 *)
(***************************************************************************)
Apart(s) == \A i, j \in 1..Len(s) : s[i].from = s[j].from => i = j

\* The alert in hand has not reached the aggregator.
NotObserved == pc = "observe" \/ (request # None /\ request[2] = "alert")

\* The aggregator knows an alert that was taken, once, and not yet the one in
\* hand.
CountInv ==
  ~rejoined =>
    /\ \A k \in ClusterKeys : Apart(timeline[k])
    /\ \A k \in ClusterKeys : \A i \in 1..Len(timeline[k]) :
         LET from == timeline[k][i].from IN
         from[2] <= position[from[1]] /\ (NotObserved => from # Here)
    /\ \A t \in triggers : Apart(t.members)

\* A step that leaves the aggregator alone, moves no position back and puts no
\* alert in hand that was observed.
LEMMA CountSame ==
  ASSUME AgentInv, ClusterInv, CountInv, UNCHANGED <<timeline, triggers>>, rejoined' = rejoined,
         \A p \in Partitions : position'[p] \in Nat /\ position'[p] >= position[p],
         ~rejoined /\ NotObserved' => \A k \in ClusterKeys : \A i \in 1..Len(timeline[k]) :
                                        timeline[k][i].from # Here'
  PROVE  CountInv'
<1> SUFFICES ASSUME ~rejoined, NEW k \in ClusterKeys, NEW i \in 1..Len(timeline[k])
             PROVE  timeline[k][i].from[2] <= position'[timeline[k][i].from[1]]
  BY DEF CountInv
<1>1. timeline[k] \in Seq(Entries)
  BY DEF ClusterInv, AggregatorTypeOK, Entries
<1>2. timeline[k][i].from \in Locations
  <2>1. timeline[k][i] \in Entries
    BY <1>1
  <2>2. QED
    BY <2>1 DEF Entries
<1>3. PICK from : from = timeline[k][i].from
  OBVIOUS
<1>4. from[1] \in Partitions /\ from[2] \in Nat
  BY <1>2, <1>3 DEF Locations
<1>5. from[2] <= position[from[1]]
  BY <1>3 DEF CountInv
<1>6. position[from[1]] \in Nat
  BY <1>4, GroupRange DEF AgentInv
<1>7. QED
  BY <1>3, <1>4, <1>5, <1>6

\* A record that is taken lies after all that were observed.
LEMMA CountTake ==
  ASSUME AgentInv, ClusterInv, CountInv, NEW p \in Partitions, TakeIgnored(p) \/ Take(p)
  PROVE  CountInv'
<1>1. /\ Poll(p) /\ UNCHANGED <<timeline, triggers, rejoined>>
  BY DEF TakeIgnored, Take, aggregatorVars
<1>2. Here' = <<p, position[p] + 1>> /\ position' = [position EXCEPT ![p] = @ + 1]
  BY <1>1, PollKeeps DEF AgentInv
<1>3. \A q \in Partitions : position[q] \in Nat
  BY GroupRange DEF AgentInv
<1>4. position \in [Partitions -> Nat]
  BY DEF AgentInv, GroupInv, GroupTypeOK
<1>5. \A q \in Partitions : position'[q] \in Nat /\ position'[q] >= position[q]
  BY <1>2, <1>3, <1>4
<1>6. ASSUME ~rejoined, NEW k \in ClusterKeys, NEW i \in 1..Len(timeline[k])
      PROVE  timeline[k][i].from # Here'
  <2>1. timeline[k][i].from[2] <= position[timeline[k][i].from[1]]
    BY <1>6 DEF CountInv
  <2>2. <<p, position[p] + 1>>[1] = p /\ <<p, position[p] + 1>>[2] = position[p] + 1
    OBVIOUS
  <2>3. ~(position[p] + 1 <= position[p])
    BY <1>3
  <2>4. QED
    BY <1>2, <2>1, <2>2, <2>3
<1>7. QED
  BY <1>1, <1>5, <1>6, CountSame

\* Within the handling of a record.
LEMMA CountEmit ==
  ASSUME AgentInv, ClusterInv, CountInv,
         Emit \/ Commit \/ NewHour \/ UNCHANGED vars
         \/ \E p \in Partitions : \E r \in Records : Alert(p, r)
  PROVE  CountInv'
<1>1. UNCHANGED <<timeline, triggers, rejoined, position>>
  BY DEF Emit, ProviderAnswers, ProviderRaised, PublishAcked, PublishFailed, AppendOk, AppendRaised,
         Commit, CommitIfNeeded, NewHour, Alert, Produce, vars, ownVars, aggregatorVars, groupVars
<1>2. \A p \in Partitions : position[p] \in Nat /\ position[p] >= position[p]
  BY GroupRange DEF AgentInv
<1>3. CASE Commit
  <2>1. pc' = "poll" /\ request' = request /\ pc = "commit"
    BY <1>3 DEF Commit, emission
  <2>2. ~NotObserved'
    BY <2>1 DEF NotObserved, AgentInv, LoopTypes
  <2>3. QED
    BY <1>1, <1>2, <2>2, CountSame
<1>4. CASE Emit
  <2>1. inHand' = inHand
    BY <1>4 DEF Emit, ProviderAnswers, ProviderRaised, PublishAcked, PublishFailed, AppendOk,
                AppendRaised, groupVars
  <2>2. NotObserved' => NotObserved
    <3>1. request # None
      BY <1>4 DEF Emit, ProviderAnswers, ProviderRaised, PublishAcked, PublishFailed, AppendOk,
                  AppendRaised, AgentInv, LoopTypes
    <3>2. \/ request' = request /\ pc' \in {"publish", "append"}
          \/ request' = None /\ (pc' = "observe" => request[2] = "alert")
      BY <1>4 DEF Emit, ProviderAnswers, ProviderRaised, PublishAcked, PublishFailed, AppendOk,
                  AppendRaised, EmissionEnds, emission
    <3>3. QED
      BY <3>1, <3>2 DEF NotObserved
  <2>3. Here' = Here
    BY <1>1, <2>1 DEF Here
  <2>4. QED
    BY <1>1, <1>2, <2>2, <2>3, CountSame DEF CountInv
<1>5. ASSUME NewHour \/ UNCHANGED vars \/ \E p \in Partitions : \E r \in Records : Alert(p, r)
      PROVE  CountInv'
  <2>1. UNCHANGED <<inHand, pc, request>>
    BY <1>5 DEF NewHour, Alert, Produce, vars, ownVars, emission, groupVars
  <2>2. Here' = Here /\ NotObserved' = NotObserved
    BY <1>1, <2>1 DEF Here, NotObserved
  <2>3. QED
    BY <1>1, <1>2, <2>2, CountSame DEF CountInv
<1>6. QED
  BY <1>3, <1>4, <1>5

\* The alert in hand was not in any timeline, and now it is, once.
LEMMA CountObserve ==
  ASSUME AgentInv, ClusterInv, CountInv, Observe
  PROVE  CountInv'
<1> SUFFICES ASSUME ~rejoined
             PROVE  CountInv'
  BY DEF Observe, CountInv
<1>1. PICK now \in Stamps[Current] :
        /\ Observed(KeyOf[Current], [at |-> now, from |-> Here])
        /\ \/ Enqueue(<<Here, "cluster">>)
           \/ pc' = "commit" /\ UNCHANGED emission
  BY DEF Observe
<1>2. PICK key, entry, slid :
        key = KeyOf[Current] /\ entry = [at |-> now, from |-> Here] /\ slid = Slid(key, entry)
  OBVIOUS
<1>3. /\ pc = "observe" /\ inHand # None /\ Current \in Alerts /\ Here \in Locations
      /\ request = None /\ UNCHANGED <<groupVars, rejoined>>
  BY HereIsLocation DEF Observe, AgentInv, LoopTypes, Flow
<1>4. key \in ClusterKeys /\ entry \in Entries /\ entry.from = Here
  BY <1>1, <1>2, <1>3, AgentAssumption DEF AgentAssumption, Entries
<1>5. /\ Observed(key, entry) /\ timeline \in [ClusterKeys -> Seq(Entries)]
      /\ timeline' = [timeline EXCEPT ![key] = slid]
      /\ triggers' \subseteq triggers \cup {[key |-> key, at |-> entry.at, members |-> slid]}
  BY <1>1, <1>2 DEF Observed, ClusterInv, AggregatorTypeOK, Entries
<1>6. /\ \A k \in ClusterKeys : Apart(timeline[k])
      /\ \A k \in ClusterKeys : \A i \in 1..Len(timeline[k]) :
           timeline[k][i].from[2] <= position[timeline[k][i].from[1]] /\ timeline[k][i].from # Here
      /\ \A t \in triggers : Apart(t.members)
  BY <1>3 DEF CountInv, NotObserved
<1>7. ~NotObserved'
  <2>1. pc' # "observe" /\ (request' = None \/ request' = <<Here, "cluster">>)
    BY <1>1, <1>3 DEF Enqueue, emission
  <2>2. <<Here, "cluster">>[2] = "cluster"
    OBVIOUS
  <2>3. QED
    BY <2>1, <2>2 DEF NotObserved
<1>8. PICK all : all = Append(timeline[key], entry)
  OBVIOUS
<1>9. PICK head \in 1..Len(all) :
        /\ Len(slid) = Len(all) - head + 1
        /\ \A i \in 1..Len(slid) : slid[i] = all[head + i - 1]
  <2>1. AggregatorTypeOK(Locations)
    BY DEF ClusterInv
  <2>2. QED
    <3>1. \E head \in 1..Len(Append(timeline[key], entry)) :
            /\ Len(Slid(key, entry)) = Len(Append(timeline[key], entry)) - head + 1
            /\ \A i \in 1..Len(Slid(key, entry)) :
                 Slid(key, entry)[i] = Append(timeline[key], entry)[head + i - 1]
      BY <1>4, <2>1, SlidIsEnd
    <3>2. QED
      BY <1>2, <1>8, <3>1
<1>10. PICK size : size = Len(timeline[key])
  OBVIOUS
<1>11. /\ size \in Nat /\ Len(all) = size + 1 /\ all[size + 1] = entry
       /\ \A i \in 1..size : all[i] = timeline[key][i]
  <2>1. timeline[key] \in Seq(Entries)
    BY <1>4, <1>5
  <2>2. QED
    BY <1>4, <1>8, <1>10, <2>1
<1>12. \A i \in 1..Len(all) : i \in 1..size \/ i = size + 1
  BY <1>11
<1>13. Apart(all)
  BY <1>4, <1>6, <1>10, <1>11, <1>12 DEF Apart
<1>14. \A i \in 1..Len(slid) : head + i - 1 \in 1..Len(all)
  BY <1>9, <1>11
<1>15. Apart(slid)
  <2> SUFFICES ASSUME NEW i \in 1..Len(slid), NEW j \in 1..Len(slid), slid[i].from = slid[j].from
               PROVE  i = j
    BY DEF Apart
  <2>1. all[head + i - 1].from = all[head + j - 1].from
    BY <1>9
  <2>2. head + i - 1 = head + j - 1
    BY <1>13, <1>14, <2>1 DEF Apart
  <2>3. head \in Nat /\ i \in Nat /\ j \in Nat
    BY <1>9, <1>11
  <2>4. QED
    BY <2>2, <2>3
<1>16. \A i \in 1..Len(all) : all[i].from[2] <= position[all[i].from[1]]
  <2>1. Here[2] = position[Here[1]] /\ position[inHand] \in Nat
    BY <1>3, HereIsLocation, GroupRange DEF Here, AgentInv
  <2>2. Here[2] <= position[Here[1]]
    BY <2>1 DEF Here
  <2>3. QED
    BY <1>4, <1>6, <1>10, <1>11, <1>12, <2>2
<1>17. \A k \in ClusterKeys : timeline'[k] = IF k = key THEN slid ELSE timeline[k]
  BY <1>5
<1>18. \A k \in ClusterKeys : Apart(timeline'[k])
  BY <1>6, <1>15, <1>17
<1>19. \A k \in ClusterKeys : \A i \in 1..Len(timeline'[k]) :
         timeline'[k][i].from[2] <= position[timeline'[k][i].from[1]]
  <2>1. \A i \in 1..Len(slid) : slid[i].from[2] <= position[slid[i].from[1]]
    <3>1. ASSUME NEW i \in 1..Len(slid) PROVE slid[i].from[2] <= position[slid[i].from[1]]
      <4>1. PICK j \in 1..Len(all) : slid[i] = all[j]
        BY <1>9, <1>14
      <4>2. QED
        BY <1>16, <4>1
    <3>2. QED
      BY <3>1
  <2>2. QED
    BY <1>6, <1>17, <2>1
<1>20. \A t \in triggers' : Apart(t.members)
  BY <1>5, <1>6, <1>15
<1>21. position' = position
  BY <1>3 DEF groupVars
<1>22. QED
  BY <1>7, <1>18, <1>19, <1>20, <1>21 DEF CountInv, Apart

\* What the aggregator counts and what it reports, over every step.
LEMMA AggregatorStep ==
  ASSUME AgentInv, ClusterInv, BurstInv, CountInv, [Next]_vars
  PROVE  BurstInv' /\ CountInv'
<1>1. CASE Observe
  <2>1. /\ pc = "observe" /\ inHand # None /\ Current \in Alerts
        /\ Here \in Locations
    BY <1>1, HereIsLocation DEF Observe, AgentInv, LoopTypes, Flow
  <2>2. PICK now \in Stamps[Current] :
          Observed(KeyOf[Current], [at |-> now, from |-> Here])
    BY <1>1 DEF Observe
  <2>3. KeyOf[Current] \in ClusterKeys /\ [at |-> now, from |-> Here] \in Entries
    BY <2>1, <2>2, AgentAssumption DEF AgentAssumption, Entries
  <2>4. BurstInv'
    BY <2>2, <2>3, BurstsKept DEF ClusterInv
  <2>5. QED
    BY <1>1, <2>4, CountObserve
<1>2. CASE Restart
  <2>1. /\ timeline' = [k \in ClusterKeys |-> <<>>]
        /\ lastEmit' = [k \in ClusterKeys |-> Never]
        /\ observed' = <<>> /\ triggers' = {}
    BY <1>2 DEF Restart, AggregatorLost
  <2>2. BurstInv'
    BY <2>1, NothingObservedNext
  <2>3. CountInv'
    BY <2>1 DEF CountInv, Apart
  <2>4. QED
    BY <2>2, <2>3
<1>3. CASE ~Observe /\ ~Restart
  <2>1. UNCHANGED aggregatorVars
    BY <1>3 DEF Next, vars, Alert, TakeIgnored, Take, Emit, ProviderAnswers,
         ProviderRaised, PublishAcked, PublishFailed, AppendOk, AppendRaised,
         Commit, NewHour, Rejoin
  <2>2. BurstInv'
    BY <2>1 DEF aggregatorVars, BurstInv, TimelineIsRecent, Stands, OfKey, Passed, EmitIsATrigger,
                BurstsMakeClusters, InOrder, InWindow, SameKey
  <2>3. CASE Rejoin
    BY <2>2, <2>3 DEF Rejoin, CountInv
  <2>4. CASE \E p \in Partitions : TakeIgnored(p) \/ Take(p)
    BY <2>2, <2>4, CountTake
  <2>5. CASE Emit \/ Commit \/ NewHour \/ UNCHANGED vars
             \/ \E p \in Partitions : \E r \in Records : Alert(p, r)
    BY <2>2, <2>5, CountEmit
  <2>6. QED
    BY <1>3, <2>2, <2>3, <2>4, <2>5 DEF Next
<1>4. QED
  BY <1>1, <1>2, <1>3

\* All four invariants hold in every reachable state.
LEMMA AllInductive == Spec => [](AgentInv /\ ClusterInv /\ BurstInv /\ CountInv)
<1>1. Init => AgentInv /\ ClusterInv
  BY AgentInit, ClusterInit DEF Init
<1>2. Init => BurstInv
  BY NothingObserved DEF Init, AggregatorInit
<1>3. Init => CountInv
  BY DEF Init, AggregatorInit, CountInv, Apart
<1>4. AgentInv /\ ClusterInv /\ BurstInv /\ CountInv /\ [Next]_vars
        => (AgentInv /\ ClusterInv /\ BurstInv /\ CountInv)'
  BY AgentStep, ClusterStep, AggregatorStep
<1>5. QED
  BY <1>1, <1>2, <1>3, <1>4, PTL DEF Spec

\* Alerts of a key that reach min_alerts within a window, the last of them not
\* before the others, have a trigger less than a cooldown old (observe).
THEOREM BurstsAreClustered == Spec => []BurstsMakeClusters
<1>1. BurstInv => BurstsMakeClusters
  BY DEF BurstInv
<1>2. QED
  BY AllInductive, <1>1, PTL

\* A cluster counts an alert twice only after a rebalance in the same life of the
\* process has handed it out again (run_agent_loop, observe).
THEOREM AlertsCountOnce == Spec => []CountedOnce
<1>1. CountInv => CountedOnce
  BY DEF CountInv, CountedOnce, Apart
<1>2. QED
  BY AllInductive, <1>1, PTL

-----------------------------------------------------------------------------
(* Sorting and picking: what Places does to a sequence. *)

\* Every set of naturals that is not empty has a least element.
LEMMA LeastNumber ==
  ASSUME NEW T \in SUBSET Nat, T # {}
  PROVE  \E n \in T : \A m \in T : n <= m
<1> DEFINE R == OpToRel(<, Nat)
<1>1. IsWellFoundedOn(R, Nat)
  BY NatLessThanWellFounded
<1>2. \A m, n \in Nat : m < n => <<m, n>> \in R
  BY DEF OpToRel
<1> HIDE DEF R
<1>3. PICK n \in T : \A m \in T : ~(<<m, n>> \in R)
  BY <1>1, WFMin
<1>4. \A m \in T : ~(m < n) /\ m \in Nat /\ n \in Nat
  BY <1>2, <1>3
<1>5. \A m \in T : n <= m
  BY <1>4
<1> QED
  BY <1>3, <1>5

\* A set that holds 0 and with a number below n the next one holds every number
\* up to n.
LEMMA Upward ==
  ASSUME NEW n \in Nat, NEW P, 0 \in P,
         \A m \in 0..n : m \in P /\ m < n => m + 1 \in P
  PROVE  \A m \in 0..n : m \in P
<1> DEFINE T == {m \in 0..n : m \notin P}
<1> SUFFICES ASSUME T # {} PROVE FALSE
  OBVIOUS
<1>1. T \in SUBSET Nat
  OBVIOUS
<1>2. PICK m \in T : \A o \in T : m <= o
  BY <1>1, LeastNumber
<1>3. m # 0 /\ m - 1 \in 0..n /\ m - 1 < n /\ m - 1 < m /\ (m - 1) + 1 = m
  BY <1>2
<1>4. m - 1 \in P
  BY <1>2, <1>3
<1> QED
  BY <1>2, <1>3, <1>4

\* The element of rank n, when D has the elements up to each.
Rank(S, D) == [n \in 1..Cardinality(S) |-> CHOOSE i \in S : Cardinality(D[i]) = n]

\* When of two elements one is always behind the other, every rank is taken once.
LEMMA Ranks ==
  ASSUME NEW S, IsFiniteSet(S), NEW D \in [S -> SUBSET S],
         \A i \in S : i \in D[i],
         \A i, j \in S : i # j => (D[i] \subseteq D[j] /\ j \notin D[i])
                                  \/ (D[j] \subseteq D[i] /\ i \notin D[j])
  PROVE  /\ Cardinality(S) \in Nat
         /\ Rank(S, D) \in [1..Cardinality(S) -> S]
         /\ \A n \in 1..Cardinality(S) : Cardinality(D[Rank(S, D)[n]]) = n
         /\ \A i \in S : /\ Cardinality(D[i]) \in 1..Cardinality(S)
                         /\ Rank(S, D)[Cardinality(D[i])] = i
         /\ \A m, n \in 1..Cardinality(S) : m < n => Rank(S, D)[n] \notin D[Rank(S, D)[m]]
<1> DEFINE N == Cardinality(S)
           r == [i \in S |-> Cardinality(D[i])]
           pick == Rank(S, D)
<1>1. N \in Nat /\ IsFiniteSet(1..N) /\ Cardinality(1..N) = N
  BY FS_CardinalityType, FS_Interval
<1>2. ASSUME NEW i \in S
      PROVE  IsFiniteSet(D[i]) /\ Cardinality(D[i]) \in 1..N
  <2>1. IsFiniteSet(D[i]) /\ Cardinality(D[i]) <= N /\ Cardinality(D[i]) \in Nat
    BY FS_Subset, FS_CardinalityType
  <2>2. Cardinality(D[i]) # 0
    BY <2>1, FS_EmptySet
  <2> QED
    BY <1>1, <2>1, <2>2
<1>3. ASSUME NEW i \in S, NEW j \in S, D[i] \subseteq D[j], j \notin D[i]
      PROVE  Cardinality(D[i]) < Cardinality(D[j])
  BY <1>2, <1>3, FS_Subset
<1>4. ASSUME NEW i \in S, NEW j \in S, Cardinality(D[i]) = Cardinality(D[j])
      PROVE  i = j
  BY <1>2, <1>3, <1>4
<1>5. r \in Injection(S, 1..N)
  <2>1. r \in [S -> 1..N]
    BY <1>2
  <2>2. ASSUME NEW i \in S, NEW j \in S, r[i] = r[j] PROVE i = j
    BY <1>4, <2>2
  <2> QED
    BY <2>1, <2>2 DEF Injection, IsInjective
<1>6. \A n \in 1..N : \E i \in S : Cardinality(D[i]) = n
  <2>1. r \in Surjection(S, 1..N)
    BY <1>1, <1>5, FS_Injection
  <2> QED
    BY <2>1 DEF Surjection
<1>7. \A n \in 1..N : pick[n] \in S /\ Cardinality(D[pick[n]]) = n
  BY <1>6 DEF Rank
<1> HIDE DEF r
<1>8. \A i \in S : pick[Cardinality(D[i])] = i
  <2> TAKE i \in S
  <2>1. Cardinality(D[i]) \in 1..N
    BY <1>2
  <2> QED
    BY <1>4, <1>7, <2>1
<1>9. pick \in [1..N -> S]
  BY <1>7 DEF Rank
<1>10. ASSUME NEW m \in 1..N, NEW n \in 1..N, m < n
       PROVE  pick[n] \notin D[pick[m]]
  <2> HIDE DEF pick
  <2>1. Cardinality(D[pick[m]]) = m /\ Cardinality(D[pick[n]]) = n /\ pick[m] \in S /\ pick[n] \in S
    BY <1>7
  <2>2. pick[m] # pick[n] /\ ~(Cardinality(D[pick[n]]) < Cardinality(D[pick[m]]))
    BY <1>1, <1>10, <2>1
  <2> QED
    BY <1>3, <2>1, <2>2
<1> HIDE DEF pick
<1>11. /\ \A n \in 1..N : Cardinality(D[pick[n]]) = n
       /\ \A i \in S : Cardinality(D[i]) \in 1..N /\ pick[Cardinality(D[i])] = i
       /\ \A m, n \in 1..N : m < n => pick[n] \notin D[pick[m]]
  BY <1>2, <1>7, <1>8, <1>10
<1> QED
  BY <1>1, <1>9, <1>11 DEF pick

\* The first has only itself up to it, the last has all.
LEMMA Ends ==
  ASSUME NEW S, IsFiniteSet(S), S # {}, NEW D \in [S -> SUBSET S],
         \A i \in S : i \in D[i],
         \A i, j \in S : i # j => (D[i] \subseteq D[j] /\ j \notin D[i])
                                  \/ (D[j] \subseteq D[i] /\ i \notin D[j])
  PROVE  (\E i \in S : D[i] = {i}) /\ (\E i \in S : D[i] = S)
<1> DEFINE N == Cardinality(S)
           pick == Rank(S, D)
<1>1. /\ N \in Nat /\ pick \in [1..N -> S]
      /\ \A n \in 1..N : Cardinality(D[pick[n]]) = n
  BY Ranks
<1> HIDE DEF pick
<1>2. 1 \in 1..N /\ N \in 1..N
  <2>1. N # 0
    BY FS_EmptySet
  <2> QED
    BY <1>1, <2>1
<1>3. \A i \in S : D[i] \subseteq S /\ i \in D[i] /\ IsFiniteSet(D[i])
  BY FS_Subset
<1>4. D[pick[1]] = {pick[1]}
  <2>1. pick[1] \in S /\ Cardinality(D[pick[1]]) = 1
    BY <1>1, <1>2
  <2>2. \E x : D[pick[1]] = {x}
    BY <1>3, <2>1, FS_Singleton
  <2> QED
    BY <1>3, <2>1, <2>2
<1>5. D[pick[N]] = S
  <2>1. pick[N] \in S /\ Cardinality(D[pick[N]]) = Cardinality(S)
    BY <1>1, <1>2
  <2> QED
    BY <1>3, <2>1, FS_Subset
<1> QED
  BY <1>1, <1>2, <1>4, <1>5

\* A set of integers that is finite and not empty has a least and a largest
\* element.
LEMMA Extremes ==
  ASSUME NEW S \in SUBSET Int, IsFiniteSet(S), S # {}
  PROVE  /\ Smallest(S) \in S /\ \A y \in S : Smallest(S) <= y
         /\ Largest(S) \in S /\ \A y \in S : y <= Largest(S)
<1> DEFINE D == [x \in S |-> {y \in S : y <= x}]
<1>1. \A x \in S : x \in Int
  OBVIOUS
<1>2. D \in [S -> SUBSET S] /\ \A x, y \in S : y \in D[x] <=> y <= x
  OBVIOUS
<1> HIDE DEF D
<1>3. \A x \in S : x \in D[x]
  BY <1>1, <1>2
<1>4. \A x, y \in S : x # y => (D[x] \subseteq D[y] /\ y \notin D[x])
                               \/ (D[y] \subseteq D[x] /\ x \notin D[y])
  <2> TAKE x, y \in S
  <2> HAVE x # y
  <2>1. \A u \in D[x] : u \in S
    BY <1>2
  <2>2. \A u \in D[y] : u \in S
    BY <1>2
  <2>3. x < y \/ y < x
    BY <1>1
  <2>4. CASE x < y
    <3>1. \A u \in D[x] : u \in D[y]
      BY <1>1, <1>2, <2>1, <2>4
    <3>2. y \notin D[x]
      BY <1>1, <1>2, <2>4
    <3> QED
      BY <3>1, <3>2
  <2>5. CASE y < x
    <3>1. \A u \in D[y] : u \in D[x]
      BY <1>1, <1>2, <2>2, <2>5
    <3>2. x \notin D[y]
      BY <1>1, <1>2, <2>5
    <3> QED
      BY <3>1, <3>2
  <2> QED
    BY <2>3, <2>4, <2>5
<1>5. (\E x \in S : D[x] = {x}) /\ (\E x \in S : D[x] = S)
  BY <1>2, <1>3, <1>4, Ends
<1>6. \E x \in S : \A y \in S : x <= y
  BY <1>1, <1>2, <1>5
<1>7. \E x \in S : \A y \in S : y <= x
  BY <1>1, <1>2, <1>5
<1> QED
  BY <1>6, <1>7 DEF Smallest, Largest

\* Keys of whole numbers are in a linear order.
LEMMA AboveIsLinear ==
  ASSUME NEW n \in Nat
  PROVE  /\ \A k \in [1..n -> Int] : ~Above(k, k)
         /\ \A k, l, m \in [1..n -> Int] : Above(k, l) /\ Above(l, m) => Above(k, m)
         /\ \A k, l \in [1..n -> Int] : k # l => Above(k, l) \/ Above(l, k)
<1>1. \A k, l \in [1..n -> Int] :
        Above(k, l) <=> \E x \in 1..n : k[x] > l[x] /\ \A y \in 1..(x - 1) : k[y] = l[y]
  BY DEF Above
<1>2. ASSUME NEW k \in [1..n -> Int] PROVE ~Above(k, k)
  <2>1. \A x \in 1..n : k[x] \in Int /\ ~(k[x] > k[x])
    OBVIOUS
  <2> QED
    BY <1>1, <2>1
<1>3. ASSUME NEW k \in [1..n -> Int], NEW l \in [1..n -> Int], NEW m \in [1..n -> Int],
             Above(k, l), Above(l, m)
      PROVE  Above(k, m)
  <2>1. PICK x \in 1..n : k[x] > l[x] /\ \A y \in 1..(x - 1) : k[y] = l[y]
    BY <1>1, <1>3
  <2>2. PICK z \in 1..n : l[z] > m[z] /\ \A y \in 1..(z - 1) : l[y] = m[y]
    BY <1>1, <1>3
  <2>3. \A y \in 1..n : k[y] \in Int /\ l[y] \in Int /\ m[y] \in Int
    OBVIOUS
  <2>4. CASE x <= z
    <3>1. \A y \in 1..(x - 1) : y \in 1..(z - 1)
      BY <2>4
    <3>2. l[x] >= m[x]
      BY <2>2, <2>3, <2>4
    <3>3. k[x] > m[x]
      BY <2>1, <2>3, <3>2
    <3>4. \A y \in 1..(x - 1) : k[y] = m[y]
      BY <2>1, <2>2, <3>1
    <3> QED
      BY <1>1, <3>3, <3>4
  <2>5. CASE z < x
    <3>1. \A y \in 1..(z - 1) : y \in 1..(x - 1)
      BY <2>5
    <3>2. z \in 1..(x - 1)
      BY <2>5
    <3>3. k[z] > m[z] /\ \A y \in 1..(z - 1) : k[y] = m[y]
      BY <2>1, <2>2, <2>3, <3>1, <3>2
    <3> QED
      BY <1>1, <3>3
  <2> QED
    BY <2>4, <2>5
<1>4. ASSUME NEW k \in [1..n -> Int], NEW l \in [1..n -> Int], k # l
      PROVE  Above(k, l) \/ Above(l, k)
  <2> DEFINE T == {x \in 1..n : k[x] # l[x]}
  <2>1. T \in SUBSET Nat /\ T # {}
    BY <1>4
  <2>2. PICK x \in T : \A y \in T : x <= y
    BY <2>1, LeastNumber
  <2>3. x \in 1..n /\ k[x] \in Int /\ l[x] \in Int /\ k[x] # l[x]
    OBVIOUS
  <2>4. \A y \in 1..(x - 1) : k[y] = l[y]
    <3> TAKE y \in 1..(x - 1)
    <3>1. y \in 1..n /\ ~(x <= y)
      BY <2>3
    <3> QED
      BY <2>2, <3>1
  <2> HIDE DEF T
  <2>5. CASE k[x] > l[x]
    BY <1>1, <2>3, <2>4, <2>5
  <2>6. CASE l[x] > k[x]
    BY <1>1, <2>3, <2>4, <2>6
  <2> QED
    BY <2>3, <2>5, <2>6
<1> QED
  BY <1>2, <1>3, <1>4

\* The places of a sequence in the order of their keys: a permutation.
LEMMA OrderedBy ==
  ASSUME NEW X, NEW s \in Seq(X), NEW n \in Nat, NEW keys \in [1..Len(s) -> [1..n -> Int]]
  PROVE  \E p \in [1..Len(s) -> 1..Len(s)] :
           /\ Ordered(s, keys) = [k \in 1..Len(s) |-> s[p[k]]]
           /\ \A i \in 1..Len(s) : \E k \in 1..Len(s) : p[k] = i
           /\ \A j, k \in 1..Len(s) : p[j] = p[k] => j = k
           /\ \A j, k \in 1..Len(s) : j < k => ~Above(keys[p[j]], keys[p[k]])
<1> DEFINE S == 1..Len(s)
           D == [i \in S |-> UpTo(keys, i)]
           p == Rank(S, D)
<1>1. Len(s) \in Nat /\ S \subseteq Nat /\ DOMAIN keys = S /\ \A i \in S : keys[i] \in [1..n -> Int]
  OBVIOUS
<1>2. IsFiniteSet(S) /\ Cardinality(S) = Len(s)
  <2>1. IsFiniteSet(S) /\ Cardinality(S) = IF 1 > Len(s) THEN 0 ELSE Len(s) - 1 + 1
    BY <1>1, FS_Interval
  <2> QED
    BY <1>1, <2>1
<1>3. \A i, j \in S : j \in D[i] <=>
        Above(keys[i], keys[j]) \/ (keys[i] = keys[j] /\ j <= i)
  BY <1>1 DEF UpTo
<1>4. D \in [S -> SUBSET S]
  BY <1>1 DEF UpTo
<1>5. \A i \in S : D[i] = UpTo(keys, i)
  OBVIOUS
<1> HIDE DEF D
<1>6. \A i \in S : i \in D[i]
  BY <1>1, <1>3
<1>7. ASSUME NEW i \in S, NEW j \in S, Above(keys[j], keys[i]) \/ (keys[i] = keys[j] /\ i < j)
      PROVE  D[i] \subseteq D[j] /\ j \notin D[i]
  <2>1. ~Above(keys[i], keys[j])
    BY <1>1, <1>7, AboveIsLinear
  <2>2. j \notin D[i]
    <3>1. CASE Above(keys[j], keys[i])
      BY <1>1, <1>3, <2>1, <3>1, AboveIsLinear
    <3>2. CASE keys[i] = keys[j] /\ i < j
      BY <1>1, <1>3, <2>1, <3>2
    <3> QED
      BY <1>7, <3>1, <3>2
  <2>3. ASSUME NEW u \in D[i] PROVE u \in D[j]
    <3>1. u \in S
      BY <1>4
    <3>2. CASE Above(keys[i], keys[u])
      <4>1. Above(keys[j], keys[u])
        BY <1>1, <1>7, <3>1, <3>2, AboveIsLinear
      <4> QED
        BY <1>3, <3>1, <4>1
    <3>3. CASE keys[i] = keys[u] /\ u <= i
      <4>1. Above(keys[j], keys[u]) \/ (keys[j] = keys[u] /\ u <= j)
        BY <1>1, <1>7, <3>1, <3>3
      <4> QED
        BY <1>3, <3>1, <4>1
    <3> QED
      BY <1>3, <3>1, <3>2, <3>3
  <2> QED
    BY <2>2, <2>3
<1>8. \A i, j \in S : i # j => (D[i] \subseteq D[j] /\ j \notin D[i])
                               \/ (D[j] \subseteq D[i] /\ i \notin D[j])
  <2> TAKE i, j \in S
  <2> HAVE i # j
  <2>1. \/ Above(keys[j], keys[i]) \/ (keys[i] = keys[j] /\ i < j)
        \/ Above(keys[i], keys[j]) \/ (keys[j] = keys[i] /\ j < i)
    BY <1>1, AboveIsLinear
  <2> QED
    BY <1>7, <2>1
<1>9. /\ p \in [1..Len(s) -> S]
      /\ \A i \in S : Cardinality(D[i]) \in 1..Len(s) /\ p[Cardinality(D[i])] = i
      /\ \A j, k \in 1..Len(s) : j < k => p[k] \notin D[p[j]]
      /\ \A m \in 1..Len(s) : Cardinality(D[p[m]]) = m
  <2> HIDE DEF S
  <2>1. /\ p \in [1..Cardinality(S) -> S]
        /\ \A i \in S : Cardinality(D[i]) \in 1..Cardinality(S) /\ p[Cardinality(D[i])] = i
        /\ \A j, k \in 1..Cardinality(S) : j < k => p[k] \notin D[p[j]]
        /\ \A m \in 1..Cardinality(S) : Cardinality(D[p[m]]) = m
    BY <1>2, <1>4, <1>6, <1>8, Ranks
  <2> HIDE DEF p
  <2> QED
    BY <1>2, <2>1
<1> HIDE DEF p
<1>11. \A j, k \in 1..Len(s) : j < k => ~Above(keys[p[j]], keys[p[k]])
  <2> TAKE j, k \in 1..Len(s)
  <2> HAVE j < k
  <2>1. p[k] \notin D[p[j]] /\ p[j] \in S /\ p[k] \in S
    BY <1>9
  <2> QED
    BY <1>3, <2>1
<1>12. \A i \in 1..Len(s) : \E k \in 1..Len(s) : p[k] = i
  BY <1>9
<1>13. \A j, k \in 1..Len(s) : p[j] = p[k] => j = k
  BY <1>9
<1>14. Ordered(s, keys) = [k \in 1..Len(s) |-> s[p[k]]]
  <2> DEFINE q(m) == CHOOSE i \in S : Cardinality(UpTo(keys, i)) = m
  <2>1. \A m \in 1..Len(s) : q(m) \in S /\ Cardinality(UpTo(keys, q(m))) = m
    BY <1>5, <1>9
  <2>2. Ordered(s, keys) = [k \in 1..Len(s) |-> s[q(k)]]
    BY DEF Ordered
  <2> HIDE DEF q, S
  <2>3. \A m \in 1..Len(s) : q(m) = p[m]
    BY <1>5, <1>9, <2>1
  <2> QED
    BY <2>2, <2>3
<1> QED
  BY <1>9, <1>11, <1>12, <1>13, <1>14

\* The places picked from a sequence, in their order.
LEMMA AtPicks ==
  ASSUME NEW X, NEW s \in Seq(X), NEW S \in SUBSET (1..Len(s))
  PROVE  /\ IsFiniteSet(S) /\ Cardinality(S) \in Nat /\ Cardinality(S) <= Len(s)
         /\ At(s, S) \in Seq(X) /\ Len(At(s, S)) = Cardinality(S)
         /\ \E p \in [1..Cardinality(S) -> S] :
              /\ At(s, S) = [k \in 1..Cardinality(S) |-> s[p[k]]]
              /\ \A i \in S : \E k \in 1..Cardinality(S) : p[k] = i
              /\ \A j, k \in 1..Cardinality(S) : j < k => p[j] < p[k]
<1> DEFINE D == [i \in S |-> {j \in S : j <= i}]
           N == Cardinality(S)
           p == Rank(S, D)
<1>1. Len(s) \in Nat /\ \A i \in S : i \in Int /\ i \in 1..Len(s)
  OBVIOUS
<1>2. IsFiniteSet(S) /\ N \in Nat /\ N <= Len(s)
  <2>1. IsFiniteSet(1..Len(s)) /\ Cardinality(1..Len(s)) = IF 1 > Len(s) THEN 0 ELSE Len(s) - 1 + 1
    BY <1>1, FS_Interval
  <2>2. IsFiniteSet(S) /\ Cardinality(S) <= Cardinality(1..Len(s))
    BY <2>1, FS_Subset
  <2> QED
    BY <1>1, <2>1, <2>2, FS_CardinalityType
<1>3. D \in [S -> SUBSET S] /\ \A i, j \in S : j \in D[i] <=> j <= i
  <2>1. \A i \in S : D[i] = {j \in S : j <= i}
    OBVIOUS
  <2>2. D \in [S -> SUBSET S]
    OBVIOUS
  <2> QED
    BY <2>1, <2>2
<1>4. \A i \in S : D[i] = {j \in S : j <= i}
  OBVIOUS
<1> HIDE DEF D
<1>5. \A i \in S : i \in D[i]
  BY <1>1, <1>3
<1>6. ASSUME NEW i \in S, NEW j \in S, i < j PROVE D[i] \subseteq D[j] /\ j \notin D[i]
  <2>1. j \notin D[i]
    BY <1>1, <1>3, <1>6
  <2>2. ASSUME NEW u \in D[i] PROVE u \in D[j]
    <3>1. u \in S /\ u <= i
      BY <1>3
    <3>2. u <= j
      BY <1>1, <1>6, <3>1
    <3> QED
      BY <1>3, <3>1, <3>2
  <2> QED
    BY <2>1, <2>2
<1>7. \A i, j \in S : i # j => (D[i] \subseteq D[j] /\ j \notin D[i])
                               \/ (D[j] \subseteq D[i] /\ i \notin D[j])
  BY <1>1, <1>6
<1>8. /\ p \in [1..N -> S]
      /\ \A i \in S : Cardinality(D[i]) \in 1..N /\ p[Cardinality(D[i])] = i
      /\ \A j, k \in 1..N : j < k => p[k] \notin D[p[j]]
      /\ \A m \in 1..N : Cardinality(D[p[m]]) = m
  BY <1>2, <1>3, <1>5, <1>7, Ranks
<1> HIDE DEF p, N
<1>9. \A j, k \in 1..N : j < k => p[j] < p[k]
  <2> TAKE j, k \in 1..N
  <2> HAVE j < k
  <2>1. p[k] \notin D[p[j]] /\ p[j] \in S /\ p[k] \in S
    BY <1>8
  <2> QED
    BY <1>1, <1>3, <2>1
<1>10. \A i \in S : \E k \in 1..N : p[k] = i
  BY <1>8
<1>11. \A k \in 1..N : s[p[k]] \in X
  <2>1. \A i \in S : s[i] \in X
    OBVIOUS
  <2>2. \A k \in 1..N : p[k] \in S
    BY <1>8
  <2> QED
    BY <2>1, <2>2
<1>12. At(s, S) = [k \in 1..N |-> s[p[k]]]
  <2> DEFINE q(m) == CHOOSE i \in S : Cardinality({j \in S : j <= i}) = m
  <2>1. ASSUME NEW m \in 1..N
        PROVE  q(m) \in S /\ Cardinality({j \in S : j <= q(m)}) = m
    <3>1. p[m] \in S /\ Cardinality({j \in S : j <= p[m]}) = m
      <4>1. p[m] \in S /\ Cardinality(D[p[m]]) = m
        BY <1>8
      <4> QED
        BY <1>4, <4>1
    <3> QED
      BY <3>1
  <2>2. At(s, S) = [k \in 1..N |-> s[q(k)]]
    BY DEF At, N
  <2> HIDE DEF q
  <2>3. \A m \in 1..N : q(m) = p[m]
    BY <1>4, <1>8, <2>1
  <2> QED
    BY <2>2, <2>3
<1>13. At(s, S) \in Seq(X) /\ Len(At(s, S)) = N
  BY <1>2, <1>11, <1>12
<1> QED
  BY <1>2, <1>8, <1>9, <1>10, <1>12, <1>13 DEF N

\* A best element is one of the sequence.
LEMMA FirstBestIn ==
  ASSUME NEW X, NEW s \in Seq(X), s # <<>>, NEW n \in Nat,
         NEW keys \in [1..Len(s) -> [1..n -> Int]]
  PROVE  \E i \in 1..Len(s) : FirstBest(s, keys) = s[i]
<1> DEFINE S == 1..Len(s)
           D == [i \in S |-> {j \in S : Above(keys[j], keys[i]) \/ (keys[i] = keys[j] /\ j <= i)}]
<1>1. Len(s) \in Nat /\ S # {} /\ \A i \in S : i \in Nat /\ keys[i] \in [1..n -> Int]
  OBVIOUS
<1>2. IsFiniteSet(S)
  BY <1>1, FS_Interval
<1>3. D \in [S -> SUBSET S] /\ \A i, j \in S : j \in D[i] <=>
        Above(keys[j], keys[i]) \/ (keys[i] = keys[j] /\ j <= i)
  OBVIOUS
<1> HIDE DEF D
<1>4. \A i \in S : i \in D[i]
  BY <1>1, <1>3
<1>5. ASSUME NEW i \in S, NEW j \in S, Above(keys[i], keys[j]) \/ (keys[i] = keys[j] /\ i < j)
      PROVE  D[i] \subseteq D[j] /\ j \notin D[i]
  <2>1. j \notin D[i]
    <3>1. CASE Above(keys[i], keys[j])
      BY <1>1, <1>3, <3>1, AboveIsLinear
    <3>2. CASE keys[i] = keys[j] /\ i < j
      BY <1>1, <1>3, <3>2, AboveIsLinear
    <3> QED
      BY <1>5, <3>1, <3>2
  <2>2. ASSUME NEW u \in D[i] PROVE u \in D[j]
    <3>1. u \in S
      BY <1>3
    <3>2. CASE Above(keys[u], keys[i])
      <4>1. Above(keys[u], keys[j])
        BY <1>1, <1>5, <3>1, <3>2, AboveIsLinear
      <4> QED
        BY <1>3, <3>1, <4>1
    <3>3. CASE keys[i] = keys[u] /\ u <= i
      <4>1. Above(keys[u], keys[j]) \/ (keys[j] = keys[u] /\ u <= j)
        BY <1>1, <1>5, <3>1, <3>3
      <4> QED
        BY <1>3, <3>1, <4>1
    <3> QED
      BY <1>3, <3>1, <3>2, <3>3
  <2> QED
    BY <2>1, <2>2
<1>6. \A i, j \in S : i # j => (D[i] \subseteq D[j] /\ j \notin D[i])
                               \/ (D[j] \subseteq D[i] /\ i \notin D[j])
  <2> TAKE i, j \in S
  <2> HAVE i # j
  <2>1. \/ Above(keys[i], keys[j]) \/ (keys[i] = keys[j] /\ i < j)
        \/ Above(keys[j], keys[i]) \/ (keys[j] = keys[i] /\ j < i)
    <3>1. CASE keys[i] = keys[j]
      BY <1>1, <3>1
    <3>2. CASE keys[i] # keys[j]
      BY <1>1, <3>2, AboveIsLinear
    <3> QED
      BY <3>1, <3>2
  <2> QED
    BY <1>5, <2>1
<1>7. PICK i \in S : D[i] = {i}
  <2> HIDE DEF S
  <2> QED
    BY <1>1, <1>2, <1>3, <1>4, <1>6, Ends
<1>8. \A j \in S : ~Above(keys[j], keys[i])
  <2> TAKE j \in S
  <2>1. CASE j = i
    BY <1>1, <2>1, AboveIsLinear
  <2>2. CASE j # i
    BY <1>3, <1>7, <2>2
  <2> QED
    BY <2>1, <2>2
<1>9. \A j \in 1..(i - 1) : Above(keys[i], keys[j])
  <2> TAKE j \in 1..(i - 1)
  <2>1. j \in S /\ j # i /\ j <= i
    BY <1>1
  <2>2. j \notin D[i]
    BY <1>7, <2>1
  <2> QED
    BY <1>1, <1>3, <2>1, <2>2, AboveIsLinear
<1> QED
  BY <1>8, <1>9 DEF FirstBest

-----------------------------------------------------------------------------
(* Representatives: the greedy selections end and return alerts. *)

\* What a function takes of a finite set is finite.
LEMMA ImageIsFinite ==
  ASSUME NEW S, IsFiniteSet(S), NEW f
  PROVE  IsFiniteSet({f[x] : x \in S}) /\ Cardinality({f[x] : x \in S}) <= Cardinality(S)
<1> DEFINE T == {f[x] : x \in S}
           g == [x \in S |-> f[x]]
<1>1. g \in Surjection(S, T)
  BY DEF Surjection
<1> QED
  BY <1>1, FS_Surjection

\* The elements of a sequence are finitely many.
LEMMA ElementsOf ==
  ASSUME NEW X, NEW s \in Seq(X)
  PROVE  /\ Elements(s) \subseteq X /\ IsFiniteSet(Elements(s))
         /\ Cardinality(Elements(s)) \in Nat /\ (s # <<>> => Elements(s) # {})
         /\ \A e : e \in Elements(s) <=> \E i \in 1..Len(s) : s[i] = e
<1>1. Len(s) \in Nat /\ \A i \in 1..Len(s) : s[i] \in X
  OBVIOUS
<1>2. IsFiniteSet(1..Len(s))
  BY <1>1, FS_Interval
<1>3. Elements(s) = {s[i] : i \in 1..Len(s)}
  BY DEF Elements
<1>4. IsFiniteSet(Elements(s))
  BY <1>2, <1>3, ImageIsFinite
<1>5. s # <<>> => Elements(s) # {}
  <2> SUFFICES ASSUME s # <<>> PROVE s[1] \in Elements(s)
    OBVIOUS
  <2>1. 1 \in 1..Len(s)
    OBVIOUS
  <2> QED
    BY <1>3, <2>1
<1> QED
  BY <1>1, <1>3, <1>4, <1>5, FS_CardinalityType

\* The elements picked are those at the places picked.
LEMMA PickedElements ==
  ASSUME NEW X, NEW s \in Seq(X), NEW S \in SUBSET (1..Len(s))
  PROVE  Elements(At(s, S)) = {s[i] : i \in S}
<1> DEFINE N == Cardinality(S)
<1>1. Len(At(s, S)) = N /\ N \in Nat
  BY AtPicks
<1>2. PICK p \in [1..N -> S] : /\ At(s, S) = [k \in 1..N |-> s[p[k]]]
                               /\ \A i \in S : \E k \in 1..N : p[k] = i
  BY AtPicks
<1> HIDE DEF N
<1>3. \A k \in 1..N : At(s, S)[k] = s[p[k]] /\ p[k] \in S
  BY <1>2
<1>4. Elements(At(s, S)) = {At(s, S)[k] : k \in 1..N}
  BY <1>1 DEF Elements
<1>5. ASSUME NEW i \in S PROVE s[i] \in Elements(At(s, S))
  BY <1>2, <1>3, <1>4
<1>6. ASSUME NEW e \in Elements(At(s, S)) PROVE \E i \in S : e = s[i]
  BY <1>3, <1>4
<1> QED
  BY <1>5, <1>6

\* Nothing is picked where there is no place to pick.
LEMMA PickedNothing ==
  ASSUME NEW X, NEW s \in Seq(X), NEW S \in SUBSET (1..Len(s))
  PROVE  At(s, S) = <<>> <=> S = {}
<1>1. IsFiniteSet(S) /\ At(s, S) \in Seq(X) /\ Len(At(s, S)) = Cardinality(S)
  BY AtPicks
<1>2. Cardinality(S) = 0 <=> S = {}
  BY <1>1, FS_EmptySet
<1>3. At(s, S) = <<>> <=> Len(At(s, S)) = 0
  BY <1>1
<1> QED
  BY <1>1, <1>2, <1>3

\* Sorting keeps the elements.
LEMMA OrderedElements ==
  ASSUME NEW X, NEW s \in Seq(X), NEW n \in Nat, NEW keys \in [1..Len(s) -> [1..n -> Int]]
  PROVE  /\ Ordered(s, keys) \in Seq(X) /\ Len(Ordered(s, keys)) = Len(s)
         /\ Elements(Ordered(s, keys)) = Elements(s)
<1> DEFINE t == Ordered(s, keys)
<1>1. PICK p \in [1..Len(s) -> 1..Len(s)] :
        /\ t = [k \in 1..Len(s) |-> s[p[k]]]
        /\ \A i \in 1..Len(s) : \E k \in 1..Len(s) : p[k] = i
        /\ \A j, k \in 1..Len(s) : p[j] = p[k] => j = k
        /\ \A j, k \in 1..Len(s) : j < k => ~Above(keys[p[j]], keys[p[k]])
  BY OrderedBy
<1> HIDE DEF t
<1>2. \A k \in 1..Len(s) : p[k] \in 1..Len(s) /\ t[k] = s[p[k]]
  BY <1>1
<1>3. t \in Seq(X) /\ Len(t) = Len(s)
  <2>1. \A k \in 1..Len(s) : s[p[k]] \in X
    BY <1>2
  <2> QED
    BY <1>1, <2>1
<1>4. ASSUME NEW i \in 1..Len(s) PROVE s[i] \in Elements(t)
  BY <1>1, <1>2, <1>3 DEF Elements
<1>5. ASSUME NEW k \in 1..Len(s) PROVE t[k] \in Elements(s)
  BY <1>2 DEF Elements
<1>6. Elements(t) = Elements(s)
  BY <1>3, <1>4, <1>5 DEF Elements
<1> QED
  BY <1>3, <1>6 DEF t

\* The numbers of an alert.
LEMMA AlertFields ==
  /\ \A a \in AlertRecords : /\ a.id \in Nat /\ a.ts \in Int /\ a.fanout \in Nat
                             /\ a.ts = NoTime \/ a.ts \in Nat
  /\ \A s \in Seq(AlertRecords) : \A i \in 1..Len(s) :
       /\ s[i] \in AlertRecords /\ s[i].id \in Nat /\ s[i].ts \in Int
       /\ s[i].ts = NoTime \/ s[i].ts \in Nat
<1>1. \A a \in AlertRecords : /\ a.id \in Nat /\ a.ts \in Int /\ a.fanout \in Nat
                              /\ a.ts = NoTime \/ a.ts \in Nat
  BY DEF AlertRecords, NoTime
<1>2. \A s \in Seq(AlertRecords) : \A i \in 1..Len(s) : s[i] \in AlertRecords
  OBVIOUS
<1> QED
  BY <1>1, <1>2

\* Alerts sorted by time and id are the same alerts.
LEMMA SortedElements ==
  ASSUME NEW s \in Seq(AlertRecords)
  PROVE  /\ Sorted(s) \in Seq(AlertRecords) /\ Len(Sorted(s)) = Len(s)
         /\ Elements(Sorted(s)) = Elements(s)
<1> DEFINE keys == [i \in 1..Len(s) |-> <<s[i].ts, s[i].id>>]
<1>1. \A i \in 1..Len(s) : s[i].ts \in Int /\ s[i].id \in Int
  BY AlertFields
<1>2. keys \in [1..Len(s) -> [1..2 -> Int]]
  BY <1>1
<1>3. Sorted(s) = Ordered(s, keys)
  BY DEF Sorted
<1> HIDE DEF keys
<1> QED
  BY <1>2, <1>3, OrderedElements

\* Two, one or no element.
LEMMA SmallSets ==
  /\ \A x : IsFiniteSet({x}) /\ \A t : IsFiniteSet(Given(t, x))
  /\ \A S, T : IsFiniteSet(S) /\ IsFiniteSet(T) => IsFiniteSet(S \cup T)
<1>1. \A x : IsFiniteSet({x})
  BY FS_Singleton
<1>2. \A x, t : Given(t, x) = {x} \/ Given(t, x) = {}
  BY DEF Given
<1> QED
  BY <1>1, <1>2, FS_EmptySet, FS_Union

\* The features of an alert are finitely many.
LEMMA FeaturesAreFinite ==
  /\ \A a : IsFiniteSet(CoverageFeatures(a))
  /\ \A a, spec : IsFiniteSet(BranchFeatures(a, spec))
<1>1. ASSUME NEW a PROVE IsFiniteSet(CoverageFeatures(a))
  <2> DEFINE t == IF a.ts = NoTime THEN NoTime ELSE a.ts \div 300
           S == {<<"device", a.device>>, <<"path", a.path>>, <<"scenario", a.scenario>>,
                 <<"time", t>>}
  <2>1. CoverageFeatures(a) = S \cup Given(IsHighValue(a), <<"value">>)
          \cup Given(a.fanout >= 10, <<"pressure">>)
          \cup Given(a.severity = "critical", <<"severity">>)
    BY DEF CoverageFeatures
  <2>2. IsFiniteSet(S)
    <3>1. S = (({<<"device", a.device>>} \cup {<<"path", a.path>>})
               \cup {<<"scenario", a.scenario>>}) \cup {<<"time", t>>}
      OBVIOUS
    <3> HIDE DEF S, t
    <3> QED
      BY <3>1, SmallSets
  <2> HIDE DEF S
  <2>3. IsFiniteSet(S \cup Given(IsHighValue(a), <<"value">>))
    BY <2>2, SmallSets
  <2>4. IsFiniteSet(S \cup Given(IsHighValue(a), <<"value">>)
                      \cup Given(a.fanout >= 10, <<"pressure">>))
    BY <2>3, SmallSets
  <2>5. IsFiniteSet(S \cup Given(IsHighValue(a), <<"value">>)
                      \cup Given(a.fanout >= 10, <<"pressure">>)
                      \cup Given(a.severity = "critical", <<"severity">>))
    BY <2>4, SmallSets
  <2> QED
    BY <2>1, <2>5
<1>2. ASSUME NEW a, NEW spec PROVE IsFiniteSet(BranchFeatures(a, spec))
  BY SmallSets DEF BranchFeatures
<1> QED
  BY <1>1, <1>2

\* Gains are numbers.
LEMMA GainIsNumber ==
  ASSUME NEW F, IsFiniteSet(F)
  PROVE  \A C : Cardinality(F \ C) \in Nat /\ WeightedGain(F \ C) \in Int
<1> TAKE C
<1> DEFINE of(tags) == Cardinality({f \in F \ C : f[1] \in tags})
<1>1. IsFiniteSet(F \ C)
  BY FS_Difference
<1>2. \A tags : of(tags) \in Nat
  <2> TAKE tags
  <2>1. {f \in F \ C : f[1] \in tags} \subseteq F \ C
    OBVIOUS
  <2> QED
    BY <1>1, <2>1, FS_Subset, FS_CardinalityType
<1>3. WeightedGain(F \ C) =
        5 * of({"branch"}) + 4 * of({"family", "value"}) + 3 * of({"time"})
        + 2 * of({"pressure"}) + of({"device", "path", "scenario", "severity"})
  BY DEF WeightedGain
<1> HIDE DEF of
<1>4. WeightedGain(F \ C) \in Int
  BY <1>2, <1>3
<1> QED
  BY <1>1, <1>4, FS_CardinalityType

\* A turn of the greedy coverage takes one of the alerts that are left.
LEMMA FeaturesTurn ==
  ASSUME NEW s, NEW U, s.chosen \in Seq(AlertRecords), s.left \in Seq(AlertRecords)
  PROVE  /\ PickFeatures(s, U).chosen \in Seq(AlertRecords)
         /\ PickFeatures(s, U).left \in Seq(AlertRecords)
<1> DEFINE keys == [i \in 1..Len(s.left) |->
                      <<Cardinality(CoverageFeatures(s.left[i]) \ s.covered),
                        Bit(IsHighValue(s.left[i])), s.left[i].fanout>>]
           best == FirstBest(s.left, keys)
<1>1. CASE s.left = <<>> \/ U \subseteq s.covered
  BY <1>1 DEF PickFeatures
<1>2. CASE ~(s.left = <<>> \/ U \subseteq s.covered)
  <2>1. \A i \in 1..Len(s.left) :
          /\ Cardinality(CoverageFeatures(s.left[i]) \ s.covered) \in Int
          /\ Bit(IsHighValue(s.left[i])) \in Int /\ s.left[i].fanout \in Int
    <3> TAKE i \in 1..Len(s.left)
    <3>1. IsFiniteSet(CoverageFeatures(s.left[i]))
      BY FeaturesAreFinite
    <3>2. Cardinality(CoverageFeatures(s.left[i]) \ s.covered) \in Nat
      BY <3>1, GainIsNumber
    <3>3. s.left[i] \in AlertRecords
      OBVIOUS
    <3>4. s.left[i].fanout \in Nat
      BY <3>3 DEF AlertRecords
    <3> QED
      BY <3>2, <3>4 DEF Bit
  <2>2. keys \in [1..Len(s.left) -> [1..3 -> Int]]
    BY <2>1
  <2>3. PickFeatures(s, U) = TakeFeatures(s, best)
    BY <1>2 DEF PickFeatures
  <2> HIDE DEF keys
  <2>4. best \in AlertRecords
    <3>1. PICK i \in 1..Len(s.left) : best = s.left[i]
      BY <1>2, <2>2, FirstBestIn
    <3> QED
      BY <3>1
  <2> HIDE DEF best
  <2>5. Without(s.left, best) \in Seq(AlertRecords)
    BY AtPicks DEF Without, Picked
  <2> QED
    BY <2>3, <2>4, <2>5 DEF TakeFeatures
<1> QED
  BY <1>1, <1>2

\* The coverage of the features ends with a sequence of alerts.
LEMMA LegacySelects ==
  ASSUME NEW alerts \in Seq(AlertRecords), NEW limit \in Nat
  PROVE  SelectLegacy(alerts, limit) \in Seq(AlertRecords)
<1> DEFINE U == CoverageUniverse(alerts)
           s0 == [chosen |-> <<>>, covered |-> {}, left |-> alerts]
           Turns(f, n) == f = [m \in 0..n |-> IF m = 0 THEN s0 ELSE PickFeatures(f[m - 1], U)]
           P == {n \in Nat : \E f : Turns(f, n)}
           after == CHOOSE f : Turns(f, limit)
           Q == {n \in Nat : n <= limit => /\ after[n].chosen \in Seq(AlertRecords)
                                           /\ after[n].left \in Seq(AlertRecords)}
<1>1. 0 \in P
  <2>1. Turns([m \in 0..0 |-> s0], 0)
    OBVIOUS
  <2> HIDE DEF Turns
  <2> QED
    BY <2>1
<1>2. ASSUME NEW n \in 0..limit, n \in P, n < limit PROVE n + 1 \in P
  <2>1. PICK f : Turns(f, n)
    BY <1>2
  <2> DEFINE g == [m \in 0..(n + 1) |-> IF m = n + 1 THEN PickFeatures(f[n], U) ELSE f[m]]
  <2>2. \A m \in 0..n : f[m] = IF m = 0 THEN s0 ELSE PickFeatures(f[m - 1], U)
    BY <2>1
  <2> HIDE DEF s0, U
  <2>3. \A m \in 0..(n + 1) : g[m] = IF m = 0 THEN s0 ELSE PickFeatures(g[m - 1], U)
    <3> TAKE m \in 0..(n + 1)
    <3>1. CASE m = n + 1
      <4>1. n \in 0..(n + 1) /\ n # n + 1 /\ m # 0 /\ m - 1 = n
        BY <3>1
      <4> QED
        BY <3>1, <4>1
    <3>2. CASE m = 0
      BY <2>2, <3>2
    <3>3. CASE m \in 1..n
      <4>1. m \in 0..n /\ m - 1 \in 0..(n + 1) /\ m # n + 1 /\ m - 1 # n + 1 /\ m # 0
        BY <3>3
      <4> QED
        BY <2>2, <4>1
    <3> QED
      BY <3>1, <3>2, <3>3
  <2>4. g = [m \in 0..(n + 1) |-> g[m]]
    OBVIOUS
  <2> HIDE DEF g
  <2>5. Turns(g, n + 1)
    BY <2>3, <2>4
  <2> HIDE DEF Turns
  <2> QED
    BY <2>5
<1>3. Turns(after, limit)
  <2> HIDE DEF Turns
  <2>1. \A m \in 0..limit : m \in P
    <3> HIDE DEF P
    <3> QED
      BY <1>1, <1>2, Upward
  <2> QED
    BY <2>1
<1>4. SelectLegacy(alerts, limit) = after[limit].chosen
  BY DEF SelectLegacy
<1>5. \A m \in 0..limit : after[m] = IF m = 0 THEN s0 ELSE PickFeatures(after[m - 1], U)
  <2> HIDE DEF after
  <2> QED
    BY <1>3
<1> HIDE DEF after
<1>6. 0 \in Q
  <2>1. after[0] = s0
    BY <1>5
  <2>2. s0.chosen = <<>> /\ s0.left = alerts
    OBVIOUS
  <2> HIDE DEF s0
  <2>3. after[0].chosen \in Seq(AlertRecords) /\ after[0].left \in Seq(AlertRecords)
    BY <2>1, <2>2
  <2> QED
    BY <2>3
<1> HIDE DEF U, s0
<1>7. ASSUME NEW n \in 0..limit, n \in Q, n < limit PROVE n + 1 \in Q
  <2>1. after[n].chosen \in Seq(AlertRecords) /\ after[n].left \in Seq(AlertRecords)
    BY <1>7
  <2>2. after[n + 1] = PickFeatures(after[n], U)
    BY <1>5, <1>7
  <2> QED
    BY <2>1, <2>2, FeaturesTurn
<1>8. limit \in Q
  <2> HIDE DEF Q
  <2>1. \A m \in 0..limit : m \in Q
    BY <1>6, <1>7, Upward
  <2> QED
    BY <2>1
<1> QED
  BY <1>4, <1>8

\* A turn of the branch-preserving coverage takes one of the alerts that are left.
LEMMA BranchTurn ==
  ASSUME NEW s, NEW spec, s.chosen \in Seq(AlertRecords), s.left \in Seq(AlertRecords)
  PROVE  /\ PickBranch(s, spec).chosen \in Seq(AlertRecords)
         /\ PickBranch(s, spec).left \in Seq(AlertRecords)
<1> DEFINE keys == [i \in 1..Len(s.left) |->
                      <<WeightedGain(BranchFeatures(s.left[i], spec) \ s.covered),
                        WeightedGain(CoverageFeatures(s.left[i]) \ s.features),
                        Bit(IsHighValue(s.left[i])), s.left[i].fanout,
                        Bit(Family(s.left[i]) = "fault")>>]
           best == FirstBest(s.left, keys)
<1>1. CASE s.left = <<>> \/ BranchUniverse(spec) \subseteq s.covered
  BY <1>1 DEF PickBranch
<1>2. CASE ~(s.left = <<>> \/ BranchUniverse(spec) \subseteq s.covered)
  <2>1. \A i \in 1..Len(s.left) :
          /\ WeightedGain(BranchFeatures(s.left[i], spec) \ s.covered) \in Int
          /\ WeightedGain(CoverageFeatures(s.left[i]) \ s.features) \in Int
          /\ Bit(IsHighValue(s.left[i])) \in Int /\ s.left[i].fanout \in Int
          /\ Bit(Family(s.left[i]) = "fault") \in Int
    <3> TAKE i \in 1..Len(s.left)
    <3>1. IsFiniteSet(CoverageFeatures(s.left[i])) /\ IsFiniteSet(BranchFeatures(s.left[i], spec))
      BY FeaturesAreFinite
    <3>2. /\ WeightedGain(BranchFeatures(s.left[i], spec) \ s.covered) \in Int
          /\ WeightedGain(CoverageFeatures(s.left[i]) \ s.features) \in Int
      BY <3>1, GainIsNumber
    <3>3. s.left[i] \in AlertRecords
      OBVIOUS
    <3>4. s.left[i].fanout \in Nat
      BY <3>3 DEF AlertRecords
    <3> QED
      BY <3>2, <3>4 DEF Bit
  <2>2. keys \in [1..Len(s.left) -> [1..5 -> Int]]
    BY <2>1
  <2>3. PickBranch(s, spec) = TakeBranch(s, best, spec)
    BY <1>2 DEF PickBranch
  <2> HIDE DEF keys
  <2>4. best \in AlertRecords
    <3>1. PICK i \in 1..Len(s.left) : best = s.left[i]
      BY <1>2, <2>2, FirstBestIn
    <3> QED
      BY <3>1
  <2> HIDE DEF best
  <2>5. Without(s.left, best) \in Seq(AlertRecords)
    BY AtPicks DEF Without, Picked
  <2> QED
    BY <2>3, <2>4, <2>5 DEF TakeBranch
<1> QED
  BY <1>1, <1>2

\* The branch-preserving coverage ends with a sequence of alerts, too.
LEMMA BranchSelects ==
  ASSUME NEW alerts \in Seq(AlertRecords), NEW limit \in Nat, NEW spec
  PROVE  SelectBranchPreserving(alerts, limit, spec) \in Seq(AlertRecords)
<1> DEFINE s0 == [chosen |-> <<>>, covered |-> {}, features |-> {}, left |-> alerts]
           Turns(f, n) == f = [m \in 0..n |-> IF m = 0 THEN s0 ELSE PickBranch(f[m - 1], spec)]
           P == {n \in Nat : \E f : Turns(f, n)}
           after == CHOOSE f : Turns(f, limit)
           Q == {n \in Nat : n <= limit => /\ after[n].chosen \in Seq(AlertRecords)
                                           /\ after[n].left \in Seq(AlertRecords)}
<1>1. 0 \in P
  <2>1. Turns([m \in 0..0 |-> s0], 0)
    OBVIOUS
  <2> HIDE DEF Turns
  <2> QED
    BY <2>1
<1>2. ASSUME NEW n \in 0..limit, n \in P, n < limit PROVE n + 1 \in P
  <2>1. PICK f : Turns(f, n)
    BY <1>2
  <2> DEFINE g == [m \in 0..(n + 1) |-> IF m = n + 1 THEN PickBranch(f[n], spec) ELSE f[m]]
  <2>2. \A m \in 0..n : f[m] = IF m = 0 THEN s0 ELSE PickBranch(f[m - 1], spec)
    BY <2>1
  <2> HIDE DEF s0
  <2>3. \A m \in 0..(n + 1) : g[m] = IF m = 0 THEN s0 ELSE PickBranch(g[m - 1], spec)
    <3> TAKE m \in 0..(n + 1)
    <3>1. CASE m = n + 1
      <4>1. n \in 0..(n + 1) /\ n # n + 1 /\ m # 0 /\ m - 1 = n
        BY <3>1
      <4> QED
        BY <3>1, <4>1
    <3>2. CASE m = 0
      BY <2>2, <3>2
    <3>3. CASE m \in 1..n
      <4>1. m \in 0..n /\ m - 1 \in 0..(n + 1) /\ m # n + 1 /\ m - 1 # n + 1 /\ m # 0
        BY <3>3
      <4> QED
        BY <2>2, <4>1
    <3> QED
      BY <3>1, <3>2, <3>3
  <2>4. g = [m \in 0..(n + 1) |-> g[m]]
    OBVIOUS
  <2> HIDE DEF g
  <2>5. Turns(g, n + 1)
    BY <2>3, <2>4
  <2> HIDE DEF Turns
  <2> QED
    BY <2>5
<1>3. Turns(after, limit)
  <2> HIDE DEF Turns
  <2>1. \A m \in 0..limit : m \in P
    <3> HIDE DEF P
    <3> QED
      BY <1>1, <1>2, Upward
  <2> QED
    BY <2>1
<1>4. SelectBranchPreserving(alerts, limit, spec) =
        IF BranchUniverse(spec) = {} THEN SelectLegacy(alerts, limit)
        ELSE FillUp(after[limit], alerts, limit)
  BY DEF SelectBranchPreserving
<1>5. \A m \in 0..limit : after[m] = IF m = 0 THEN s0 ELSE PickBranch(after[m - 1], spec)
  <2> HIDE DEF after
  <2> QED
    BY <1>3
<1> HIDE DEF after
<1>6. 0 \in Q
  <2>1. s0.chosen \in Seq(AlertRecords) /\ s0.left \in Seq(AlertRecords)
    OBVIOUS
  <2> HIDE DEF s0
  <2>2. after[0] = s0
    BY <1>5
  <2>3. after[0].chosen \in Seq(AlertRecords) /\ after[0].left \in Seq(AlertRecords)
    BY <2>1, <2>2
  <2> QED
    BY <2>3
<1> HIDE DEF s0
<1>7. ASSUME NEW n \in 0..limit, n \in Q, n < limit PROVE n + 1 \in Q
  <2>1. after[n].chosen \in Seq(AlertRecords) /\ after[n].left \in Seq(AlertRecords)
    BY <1>7
  <2>2. after[n + 1] = PickBranch(after[n], spec)
    BY <1>5, <1>7
  <2> QED
    BY <2>1, <2>2, BranchTurn
<1>8. limit \in Q
  <2> HIDE DEF Q
  <2>1. \A m \in 0..limit : m \in Q
    BY <1>6, <1>7, Upward
  <2> QED
    BY <2>1
<1>9. FillUp(after[limit], alerts, limit) \in Seq(AlertRecords)
  <2> DEFINE s == after[limit]
             rest == SelectLegacy(s.left, limit - Len(s.chosen))
  <2>1. s.chosen \in Seq(AlertRecords) /\ s.left \in Seq(AlertRecords)
    BY <1>8
  <2> SUFFICES FillUp(s, alerts, limit) \in Seq(AlertRecords)
    OBVIOUS
  <2> HIDE DEF s
  <2>2. CASE Len(s.chosen) < limit
    <3>1. limit - Len(s.chosen) \in Nat
      BY <2>1, <2>2
    <3>2. rest \in Seq(AlertRecords)
      BY <2>1, <3>1, LegacySelects
    <3> HIDE DEF rest
    <3>3. Picked(rest, LAMBDA a : a.id # 0) \in Seq(AlertRecords)
      BY <3>2, AtPicks DEF Picked
    <3> QED
      BY <2>1, <3>3 DEF FillUp, rest
  <2>3. CASE ~(Len(s.chosen) < limit)
    BY <2>1, <2>3 DEF FillUp
  <2> QED
    BY <2>2, <2>3
<1> QED
  BY <1>4, <1>9, LegacySelects

\* The ids of some alerts, without those that are missing.
LEMMA IdsAre ==
  ASSUME NEW s \in Seq(AlertRecords)
  PROVE  /\ IdsOf(s) \in Seq(Nat) /\ Len(IdsOf(s)) <= Len(s)
         /\ \A x : x \in Elements(IdsOf(s)) <=> x # 0 /\ \E a \in Elements(s) : x = a.id
<1> DEFINE t == [i \in 1..Len(s) |-> s[i].id]
           S == {i \in 1..Len(t) : t[i] # 0}
<1>1. \A i \in 1..Len(s) : s[i].id \in Nat
  BY AlertFields
<1>2. t \in Seq(Nat) /\ Len(t) = Len(s) /\ \A i \in 1..Len(s) : t[i] = s[i].id
  BY <1>1
<1>3. IdsOf(s) = At(t, S)
  BY DEF IdsOf, Picked
<1> HIDE DEF t
<1>4. S \in SUBSET (1..Len(t)) /\ \A i : i \in S <=> i \in 1..Len(s) /\ s[i].id # 0
  BY <1>2
<1> HIDE DEF S
<1>5. At(t, S) \in Seq(Nat) /\ Len(At(t, S)) = Cardinality(S) /\ Cardinality(S) <= Len(t)
  BY <1>2, <1>4, AtPicks
<1>6. Elements(At(t, S)) = {t[i] : i \in S}
  BY <1>2, <1>4, PickedElements
<1>7. \A x : x \in Elements(IdsOf(s)) <=> x # 0 /\ \E i \in 1..Len(s) : x = s[i].id
  BY <1>2, <1>3, <1>4, <1>6
<1>8. \A a : a \in Elements(s) <=> \E i \in 1..Len(s) : s[i] = a
  BY ElementsOf
<1> QED
  BY <1>2, <1>3, <1>5, <1>7, <1>8

\* Representatives are named by a sequence of ids.
LEMMA RepresentativesAreIds ==
  ASSUME NEW alerts \in Seq(AlertRecords), NEW limit \in Nat, NEW reference, NEW strategy,
         NEW story
  PROVE  RepresentativeIds(alerts, limit, reference, strategy, story) \in Seq(Nat)
<1> DEFINE sorted == Sorted(alerts)
           candidates == Picked(sorted, IsHighValue)
                         \o Picked(sorted, LAMBDA a : ~IsHighValue(a))
           spec == BranchSpec(reference, story)
<1>1. sorted \in Seq(AlertRecords)
  BY SortedElements
<1> HIDE DEF sorted
<1>2. candidates \in Seq(AlertRecords)
  <2>1. Picked(sorted, IsHighValue) \in Seq(AlertRecords)
    BY <1>1, AtPicks DEF Picked
  <2>2. Picked(sorted, LAMBDA a : ~IsHighValue(a)) \in Seq(AlertRecords)
    BY <1>1, AtPicks DEF Picked
  <2> QED
    BY <2>1, <2>2
<1>3. RepresentativeIds(alerts, limit, reference, strategy, story) =
        IF alerts = <<>> THEN <<>>
        ELSE IdsOf(IF strategy = "legacy" THEN SelectLegacy(candidates, limit)
                   ELSE SelectBranchPreserving(candidates, limit, spec))
  BY DEF RepresentativeIds, sorted
<1> HIDE DEF candidates, spec
<1>4. /\ SelectLegacy(candidates, limit) \in Seq(AlertRecords)
      /\ SelectBranchPreserving(candidates, limit, spec) \in Seq(AlertRecords)
  BY <1>2, LegacySelects, BranchSelects
<1> QED
  BY <1>3, <1>4, IdsAre

-----------------------------------------------------------------------------
(* The gaps that are learnt are numbers, and not below the least gap. *)

\* Rounding keeps what is at least a whole number, or at most, on its side.
LEMMA RoundedBounds ==
  ASSUME NEW d \in {100, 400}, NEW n \in Int, NEW k \in Int
  PROVE  /\ Rounded(n, d) \in Int
         /\ (d * k <= n => k <= Rounded(n, d))
         /\ (n <= d * k => Rounded(n, d) <= k)
<1>1. CASE d = 100
  BY <1>1 DEF Rounded
<1>2. CASE d = 400
  BY <1>2 DEF Rounded
<1> QED
  BY <1>1, <1>2

\* Quantiles of whole numbers are whole numbers.
LEMMA QuantileIsNumber ==
  ASSUME NEW values \in Seq(Int), NEW q \in {5, 10, 15, 18}
  PROVE  Quantile(values, q) \in Int
<1> DEFINE keys == [i \in 1..Len(values) |-> <<values[i]>>]
           s == Ordered(values, keys)
           at == q * (Len(s) - 1)
           low == 1 + at \div 20
           high == Smaller(low + 1, Len(s))
<1>1. keys \in [1..Len(values) -> [1..1 -> Int]]
  OBVIOUS
<1>2. Quantile(values, q) = IF s = <<>> THEN 0 ELSE s[low] * (20 - (at % 20)) + s[high] * (at % 20)
  BY DEF Quantile
<1> HIDE DEF keys
<1>3. s \in Seq(Int)
  BY <1>1, OrderedElements
<1> HIDE DEF s
<1>4. CASE s = <<>>
  BY <1>2, <1>4
<1>5. CASE s # <<>>
  <2>1. Len(s) \in Nat /\ Len(s) >= 1
    BY <1>3, <1>5
  <2>2. at \in Int /\ at % 20 \in Int /\ low \in 1..Len(s)
    BY <2>1
  <2> HIDE DEF low, at
  <2>3. high \in 1..Len(s)
    BY <2>1, <2>2 DEF Smaller
  <2> HIDE DEF high
  <2>4. s[low] \in Int /\ s[high] \in Int
    BY <1>3, <2>2, <2>3
  <2> QED
    BY <1>2, <1>5, <2>2, <2>4
<1> QED
  BY <1>4, <1>5

\* So is the distance from the median.
LEMMA SpreadIsNumber ==
  ASSUME NEW values \in Seq(Int)
  PROVE  Spread(values) \in Int
<1> DEFINE median == Quantile(values, 10)
           from(v) == IF 20 * v >= median THEN 20 * v - median ELSE median - 20 * v
           t == [i \in 1..Len(values) |-> from(values[i])]
<1>1. Spread(values) = Quantile(t, 10)
  BY DEF Spread
<1>2. median \in Int
  BY QuantileIsNumber
<1> HIDE DEF median
<1>3. t \in Seq(Int)
  BY <1>2
<1> HIDE DEF t
<1> QED
  BY <1>1, <1>3, QuantileIsNumber

\* _estimate_group_idle_gap_sec never goes below the least gap.
LEMMA GroupGapBound ==
  ASSUME NEW gs \in Seq(Int), NEW default \in Nat \ {0}, NEW longest \in Nat
  PROVE  /\ GroupIdleGap(gs, default, longest) \in Int
         /\ LeastGap(default) \in Int /\ 60 <= LeastGap(default)
         /\ LeastGap(default) <= GroupIdleGap(gs, default, longest)
<1> DEFINE positive == Picked(gs, LAMBDA g : g > 0)
           q(n) == 20 * Quantile(positive, n)
           tail == Larger(q(15) + Larger(q(15) - q(5), 400),
                          q(10) + 3 * Larger(Spread(positive), 400))
           candidate == Smaller(Larger(q(18), tail), 400 * longest)
           least == LeastGap(default)
<1>1. least \in Int /\ 60 <= least
  BY DEF LeastGap, Larger
<1>2. GroupIdleGap(gs, default, longest) =
        IF Len(positive) < 3 THEN Larger(least, default)
        ELSE Rounded(Larger(400 * least, candidate), 400)
  BY DEF GroupIdleGap
<1>3. positive \in Seq(Int)
  BY AtPicks DEF Picked
<1> HIDE DEF positive, least
<1>4. q(5) \in Int /\ q(10) \in Int /\ q(15) \in Int /\ q(18) \in Int /\ Spread(positive) \in Int
  BY <1>3, QuantileIsNumber, SpreadIsNumber
<1> HIDE DEF q
<1>5. tail \in Int
  BY <1>4 DEF Larger
<1> HIDE DEF tail
<1>6. candidate \in Int
  BY <1>4, <1>5 DEF Larger, Smaller
<1> HIDE DEF candidate
<1>7. Larger(400 * least, candidate) \in Int /\ 400 * least <= Larger(400 * least, candidate)
  BY <1>1, <1>6 DEF Larger
<1>8. /\ Rounded(Larger(400 * least, candidate), 400) \in Int
      /\ least <= Rounded(Larger(400 * least, candidate), 400)
  BY <1>1, <1>7, RoundedBounds
<1>9. Larger(least, default) \in Int /\ least <= Larger(least, default)
  BY <1>1 DEF Larger
<1> QED
  BY <1>1, <1>2, <1>8, <1>9 DEF least

\* _dynamic_idle_gap_sec stays between the least gap and the gap of the group.
LEMMA DynamicGapBound ==
  ASSUME NEW gs \in Seq(Int), NEW idle \in Int, NEW default \in Nat \ {0}, NEW longest \in Nat,
         LeastGap(default) <= idle
  PROVE  /\ DynamicIdleGap(gs, idle, default, longest) \in Int
         /\ DynamicIdleGap(gs, idle, default, longest) <= idle
         /\ LeastGap(default) <= DynamicIdleGap(gs, idle, default, longest)
<1> DEFINE tail == SubSeq(gs, Larger(1, Len(gs) - 2), Len(gs))
           median == 20 * Quantile(tail, 10)
           local == Larger(3 * median, median + 3 * Larger(Spread(tail), 400))
           candidate == Smaller(Smaller(400 * idle, local), 400 * longest)
           least == LeastGap(default)
           n == Larger(400 * least, candidate)
<1>1. least \in Int
  BY DEF LeastGap, Larger
<1>2. DynamicIdleGap(gs, idle, default, longest) = IF gs = <<>> THEN idle ELSE Rounded(n, 400)
  BY DEF DynamicIdleGap
<1>3. tail \in Seq(Int)
  <2> DEFINE k == Larger(1, Len(gs) - 2)
  <2>1. k \in Int /\ k >= 1 /\ (k <= Len(gs) \/ Len(gs) = 0)
    BY DEF Larger
  <2> HIDE DEF k
  <2>2. \A i \in k..Len(gs) : gs[i] \in Int
    BY <2>1
  <2>3. SubSeq(gs, k, Len(gs)) \in Seq(Int)
    BY <2>1, <2>2
  <2> QED
    BY <2>3 DEF k
<1> HIDE DEF tail
<1>4. median \in Int /\ Spread(tail) \in Int
  BY <1>3, QuantileIsNumber, SpreadIsNumber
<1> HIDE DEF median
<1>5. local \in Int
  BY <1>4 DEF Larger
<1> HIDE DEF local
<1>6. candidate \in Int /\ candidate <= 400 * idle
  BY <1>5 DEF Smaller
<1> HIDE DEF candidate
<1>7. least <= idle
  OBVIOUS
<1> HIDE DEF least
<1>8. n \in Int /\ 400 * least <= n /\ n <= 400 * idle
  BY <1>1, <1>6, <1>7 DEF Larger
<1> HIDE DEF n
<1>9. Rounded(n, 400) \in Int /\ least <= Rounded(n, 400) /\ Rounded(n, 400) <= idle
  <2>1. idle \in Int /\ Rounded(n, 400) \in Int /\ (n <= 400 * idle => Rounded(n, 400) <= idle)
    BY <1>8, RoundedBounds
  <2>2. 400 * least <= n => least <= Rounded(n, 400)
    BY <1>1, <1>8, RoundedBounds
  <2> QED
    BY <1>8, <2>1, <2>2
<1> QED
  BY <1>2, <1>7, <1>9 DEF least

-----------------------------------------------------------------------------
(* What a window says of its alerts. *)

\* A window is what is said of its alerts, with its risk.
LEMMA WindowFields ==
  ASSUME NEW id, NEW alerts, NEW gap, NEW longest, NEW limit, NEW strategy, NEW d, NEW w,
         d = Described(id, alerts, gap, longest, limit, strategy),
         w = BuildWindow(id, alerts, gap, longest, limit, strategy)
  PROVE  /\ w.id = d.id /\ w.alerts = d.alerts /\ w.ids = d.ids
         /\ w.gap = d.gap /\ w.longest = d.longest /\ w.start = d.start
         /\ w.devices = d.devices /\ w.paths = d.paths /\ w.shapes = d.shapes
         /\ w.fanout = d.fanout /\ w.high = d.high /\ w.healing = d.healing
         /\ w.recurrence = d.recurrence /\ w.spread = d.spread /\ w.topology = d.topology
         /\ w.label = d.label /\ w.pressure = d.pressure /\ w.action = d.action
         /\ w.targets = d.targets
         /\ w.atoms = RiskAtoms(d) /\ w.score = Risk(d).score
         /\ w.tier = TierOf(w.score, d.label)
<1>1. DOMAIN d = {"id", "alerts", "ids", "gap", "longest", "start", "devices", "paths",
                  "shapes", "fanout", "high", "healing", "recurrence", "spread",
                  "topology", "label", "pressure", "action", "proxy", "targets"}
  BY DEF Described
<1>2. w = Joined(Risk(d), d)
  BY DEF BuildWindow
<1>3. /\ DOMAIN Risk(d) = {"atoms", "score", "tier"}
      /\ Risk(d).atoms = RiskAtoms(d) /\ Risk(d).tier = TierOf(Risk(d).score, d.label)
  BY DEF Risk
<1>4. \A f \in DOMAIN d : f \notin {"atoms", "score", "tier"} => w[f] = d[f]
  BY <1>2, <1>3 DEF Joined
<1>5. \A f \in {"atoms", "score", "tier"} : w[f] = Risk(d)[f]
  BY <1>2, <1>3 DEF Joined
<1>6. w.atoms = RiskAtoms(d) /\ w.score = Risk(d).score /\ w.tier = TierOf(w.score, d.label)
  BY <1>3, <1>5
<1>7. /\ w.id = d.id /\ w.alerts = d.alerts /\ w.ids = d.ids
      /\ w.gap = d.gap /\ w.longest = d.longest /\ w.start = d.start
      /\ w.devices = d.devices /\ w.paths = d.paths /\ w.shapes = d.shapes
      /\ w.fanout = d.fanout /\ w.high = d.high
  BY <1>1, <1>4
<1>8. /\ w.healing = d.healing
      /\ w.recurrence = d.recurrence /\ w.spread = d.spread /\ w.topology = d.topology
      /\ w.label = d.label /\ w.pressure = d.pressure /\ w.action = d.action
      /\ w.targets = d.targets
  BY <1>1, <1>4
<1> QED
  BY <1>6, <1>7, <1>8

-----------------------------------------------------------------------------
(* The types of the walk over the alerts. *)

GroupKeys == {GroupKey(batch, a) : a \in Elements(batch.alerts)}

KeyedGroups == [key : GroupKeys, left : Seq(AlertRecords), idle : Int]

BuiltWindows ==
  {BuildWindow(id, alerts, gap, longest, batch.limit, batch.strategy) :
     id \in Int \X GroupKeys, alerts \in Seq(AlertRecords) \ {<<>>}, gap \in Int, longest \in Int}

\* A group to be cut has alerts left, or has its last ones in the open window.
WalkTypes ==
  /\ batch \in Cases /\ phase \in {"cut", "floor", "spend", "done"}
  /\ groups \in Seq(KeyedGroups)
  /\ current \in Seq(AlertRecords) /\ start \in Int /\ last \in Int /\ gaps \in Seq(Int)
  /\ windows \in Seq(BuiltWindows)
  /\ \A i \in 1..Len(groups) : groups[i].left = <<>> => i = 1 /\ current # <<>>
  /\ groups = <<>> => current = <<>>

\* What a case is.
LEMMA CaseTypes ==
  ASSUME NEW b \in Cases
  PROVE  /\ b.alerts \in Seq(AlertRecords) /\ b.mode \in Modes /\ b.gap \in Nat \ {0}
         /\ b.longest \in Nat /\ b.limit \in Nat /\ b.budget \in Nat /\ b.floor \in BOOLEAN
BY CasesAssumption DEF CasesAssumption

\* A finite set can be listed.
LEMMA Listing ==
  ASSUME NEW S, IsFiniteSet(S)
  PROVE  /\ SetToSeq(S) \in Seq(S) /\ Len(SetToSeq(S)) = Cardinality(S)
         /\ \A x \in S : \E i \in 1..Len(SetToSeq(S)) : SetToSeq(S)[i] = x
         /\ \A i, j \in 1..Len(SetToSeq(S)) : SetToSeq(S)[i] = SetToSeq(S)[j] => i = j
<1> DEFINE N == Cardinality(S)
           s == SetToSeq(S)
<1>1. N \in Nat /\ IsFiniteSet(1..N) /\ Cardinality(1..N) = N
  BY FS_CardinalityType, FS_Interval
<1>2. PICK f : f \in Bijection(1..N, S)
  BY <1>1, FS_SameCardinalityBij DEF ExistsBijection
<1>3. f \in [1..N -> S] /\ \A i, j \in 1..N : f[i] = f[j] => i = j
  BY <1>2 DEF Bijection, Injection, IsInjective
<1>4. s = CHOOSE g \in [1..N -> S] : IsInjective(g)
  BY DEF SetToSeq
<1>5. IsInjective(f)
  BY <1>3 DEF IsInjective
<1> HIDE DEF N
<1>6. s \in [1..N -> S] /\ IsInjective(s)
  BY <1>3, <1>4, <1>5
<1> HIDE DEF s
<1>7. s \in Injection(1..N, S)
  BY <1>6 DEF Injection
<1>8. s \in Surjection(1..N, S)
  BY <1>1, <1>7, FS_Injection DEF N
<1>9. \A x \in S : \E i \in 1..N : s[i] = x
  BY <1>8 DEF Surjection
<1>10. \A i, j \in 1..N : s[i] = s[j] => i = j
  BY <1>6 DEF IsInjective
<1>11. s \in Seq(S) /\ Len(s) = N
  BY <1>1, <1>6
<1> QED
  BY <1>9, <1>10, <1>11 DEF s, N

\* Keys of groups start with the number of a bucket.
LEMMA KeyNumbers ==
  ASSUME NEW b \in Cases
  PROVE  \A a \in AlertRecords : GroupKey(b, a)[1] \in Int
<1> TAKE a \in AlertRecords
<1>1. a.ts \in Int /\ b.gap \in Nat \ {0}
  BY AlertFields, CaseTypes
<1>2. BucketOf(b, a) \in Int
  BY <1>1 DEF BucketOf
<1> QED
  BY <1>2 DEF GroupKey

\* The alerts of a group are those with its key, in order.
LEMMA GroupTypes ==
  ASSUME NEW b \in Cases, NEW key
  PROVE  /\ GroupOf(b, key) = [key |-> key, left |-> GroupOf(b, key).left,
                               idle |-> GroupOf(b, key).idle]
         /\ GroupOf(b, key).idle \in Int
         /\ GroupOf(b, key).left \in Seq(AlertRecords)
         /\ GroupOf(b, key).left =
              At(Sorted(b.alerts), {i \in 1..Len(Sorted(b.alerts)) :
                                      GroupKey(b, Sorted(b.alerts)[i]) = key})
         /\ b.mode \notin {"fixed", "session"} =>
              LeastGap(b.gap) <= GroupOf(b, key).idle
<1> DEFINE s == Sorted(b.alerts)
           S == {i \in 1..Len(s) : GroupKey(b, s[i]) = key}
           alerts == At(s, S)
           learnt == GroupIdleGap(ObservedGaps(alerts), b.gap, Larger(b.gap, b.longest))
           g == GroupOf(b, key)
<1>1. s \in Seq(AlertRecords) /\ b.gap \in Nat \ {0} /\ Larger(b.gap, b.longest) \in Nat
  BY CaseTypes, SortedElements DEF Larger
<1>2. g = [key |-> key, left |-> alerts,
           idle |-> IF b.mode \in {"fixed", "session"} THEN b.gap ELSE learnt]
  BY DEF GroupOf, Picked
<1> HIDE DEF s, g
<1>3. alerts \in Seq(AlertRecords)
  BY <1>1, AtPicks
<1> HIDE DEF alerts
<1>4. ObservedGaps(alerts) \in Seq(Int)
  <2> DEFINE timed == Picked(alerts, LAMBDA a : a.ts # NoTime)
  <2>1. timed \in Seq(AlertRecords)
    BY <1>3, AtPicks DEF Picked
  <2>2. ObservedGaps(alerts) = [i \in 1..(Len(timed) - 1) |-> timed[i + 1].ts - timed[i].ts]
    BY DEF ObservedGaps
  <2> HIDE DEF timed
  <2>3. \A i \in 1..(Len(timed) - 1) : timed[i + 1].ts - timed[i].ts \in Int
    <3> TAKE i \in 1..(Len(timed) - 1)
    <3>1. i \in 1..Len(timed) /\ i + 1 \in 1..Len(timed)
      BY <2>1
    <3>2. timed[i].ts \in Int /\ timed[i + 1].ts \in Int
      BY <2>1, <3>1, AlertFields
    <3> QED
      BY <3>2
  <2>4. Len(timed) - 1 \in Nat \/ Len(timed) = 0
    BY <2>1
  <2> QED
    BY <2>2, <2>3, <2>4
<1>5. learnt \in Int /\ LeastGap(b.gap) <= learnt
  BY <1>1, <1>4, GroupGapBound
<1> HIDE DEF learnt
<1>6. g.left = alerts /\ g.idle = IF b.mode \in {"fixed", "session"} THEN b.gap ELSE learnt
  BY <1>2
<1>7. g = [key |-> key, left |-> g.left, idle |-> g.idle]
  BY <1>2
<1> QED
  BY <1>1, <1>3, <1>5, <1>6, <1>7 DEF alerts, s, g

\* Every group of a batch has an alert, every key has a group.
LEMMA GroupsListed ==
  ASSUME batch \in Cases
  PROVE  /\ GroupsOf(batch) \in Seq(KeyedGroups)
         /\ \A i \in 1..Len(GroupsOf(batch)) :
              /\ GroupsOf(batch)[i] = GroupOf(batch, GroupsOf(batch)[i].key)
              /\ GroupsOf(batch)[i].key \in GroupKeys
              /\ GroupsOf(batch)[i].left # <<>>
         /\ \A i, j \in 1..Len(GroupsOf(batch)) :
              GroupsOf(batch)[i].key = GroupsOf(batch)[j].key => i = j
         /\ \A key \in GroupKeys : \E i \in 1..Len(GroupsOf(batch)) : GroupsOf(batch)[i].key = key
<1> DEFINE keys == SetToSeq(GroupKeys)
           gs == GroupsOf(batch)
<1>1. batch.alerts \in Seq(AlertRecords)
  BY CaseTypes
<1>2. IsFiniteSet(GroupKeys)
  <2> DEFINE f == [a \in Elements(batch.alerts) |-> GroupKey(batch, a)]
  <2>1. IsFiniteSet(Elements(batch.alerts))
    BY <1>1, ElementsOf
  <2>2. GroupKeys = {f[a] : a \in Elements(batch.alerts)}
    BY DEF GroupKeys
  <2> HIDE DEF f
  <2> QED
    BY <2>1, <2>2, ImageIsFinite
<1>3. /\ keys \in Seq(GroupKeys)
      /\ \A x \in GroupKeys : \E i \in 1..Len(keys) : keys[i] = x
      /\ \A i, j \in 1..Len(keys) : keys[i] = keys[j] => i = j
  BY <1>2, Listing
<1>4. gs = [i \in 1..Len(keys) |-> GroupOf(batch, keys[i])]
  BY DEF GroupsOf, GroupKeys
<1> HIDE DEF keys, gs
<1>5. ASSUME NEW i \in 1..Len(keys)
      PROVE  /\ gs[i] = GroupOf(batch, keys[i]) /\ gs[i].key = keys[i]
             /\ keys[i] \in GroupKeys /\ gs[i] \in KeyedGroups /\ gs[i].left # <<>>
  <2> DEFINE k == keys[i]
             g == GroupOf(batch, k)
             s == Sorted(batch.alerts)
             S == {j \in 1..Len(s) : GroupKey(batch, s[j]) = k}
  <2>1. gs[i] = g /\ k \in GroupKeys
    BY <1>3, <1>4
  <2> HIDE DEF k
  <2>2. /\ g = [key |-> k, left |-> g.left, idle |-> g.idle]
        /\ g.idle \in Int /\ g.left \in Seq(AlertRecords) /\ g.left = At(s, S)
    BY GroupTypes
  <2> HIDE DEF g
  <2>3. s \in Seq(AlertRecords) /\ Elements(s) = Elements(batch.alerts)
    BY <1>1, SortedElements
  <2> HIDE DEF s
  <2>4. S # {}
    <3>1. PICK a \in Elements(s) : GroupKey(batch, a) = k
      BY <2>1, <2>3 DEF GroupKeys
    <3>2. PICK j \in 1..Len(s) : s[j] = a
      BY <2>3, <3>1, ElementsOf
    <3> QED
      BY <3>1, <3>2
  <2> HIDE DEF S
  <2>5. S \in SUBSET (1..Len(s))
    BY DEF S
  <2>6. g.left # <<>>
    BY <2>2, <2>3, <2>4, <2>5, PickedNothing
  <2>7. g.key = k /\ g \in KeyedGroups
    BY <2>1, <2>2 DEF KeyedGroups
  <2> QED
    BY <2>1, <2>6, <2>7 DEF g, k
<1>6. Len(gs) = Len(keys) /\ gs \in Seq(KeyedGroups)
  BY <1>3, <1>4, <1>5
<1> QED
  BY <1>3, <1>5, <1>6 DEF gs

\* Of a sequence a count is a number, and some are counted or none.
LEMMA CountIsNumber ==
  ASSUME NEW n \in Nat, NEW S \in SUBSET (1..n)
  PROVE  Cardinality(S) \in Nat /\ (Cardinality(S) > 0 <=> S # {}) /\ Cardinality(S) <= n
         /\ (Cardinality(S) = n => S = 1..n)
<1>1. IsFiniteSet(1..n) /\ Cardinality(1..n) = IF 1 > n THEN 0 ELSE n - 1 + 1
  BY FS_Interval
<1>2. Cardinality(1..n) = n
  BY <1>1
<1>3. /\ IsFiniteSet(S) /\ Cardinality(S) <= Cardinality(1..n)
      /\ Cardinality(1..n) = Cardinality(S) => 1..n = S
  BY <1>1, FS_Subset
<1>4. Cardinality(S) \in Nat /\ (Cardinality(S) = 0 <=> S = {})
  BY <1>3, FS_CardinalityType, FS_EmptySet
<1>5. Cardinality(S) = n => S = 1..n
  BY <1>2, <1>3
<1>6. Cardinality(S) > 0 <=> S # {}
  <2> DEFINE c == Cardinality(S)
  <2>1. c \in Nat /\ (c = 0 <=> S = {})
    BY <1>4
  <2> HIDE DEF c
  <2>2. c > 0 <=> ~(c = 0)
    BY <2>1
  <2>3. c > 0 <=> S # {}
    BY <2>1, <2>2, Zenon
  <2> QED
    BY <2>3 DEF c
<1>7. Cardinality(S) <= n
  BY <1>2, <1>3
<1> QED
  BY <1>4, <1>5, <1>6, <1>7

\* What is known of a window.
LEMMA WindowIs ==
  ASSUME NEW w \in BuiltWindows
  PROVE  /\ w.alerts \in Seq(AlertRecords) /\ w.alerts # <<>>
         /\ w.id \in Int \X GroupKeys /\ w.ids = IdsOf(w.alerts)
         /\ w.gap \in Int /\ w.longest \in Int /\ w.start \in Int
         /\ w.start = LET times == {a.ts : a \in Elements(w.alerts)} \ {NoTime} IN
                      IF times = {} THEN w.id[1] * w.gap ELSE Smallest(times)
         /\ w.devices = {a.device : a \in Elements(w.alerts)} \ {""}
         /\ w.paths = {PathOf(a) : a \in Elements(w.alerts)} \ {""}
         /\ w.high = Count(w.alerts, IsHighValue) /\ w.healing = Count(w.alerts, IsTransient)
         /\ w.recurrence = (Len(w.alerts) >= 3) /\ w.spread = (Cardinality(w.devices) >= 2)
         /\ w.topology = (w.spread \/ Cardinality(w.paths) >= 2 \/ w.fanout >= 10)
         /\ w.label =
              WindowLabel(w.high, w.healing, Len(w.alerts), w.recurrence, w.topology, w.spread)
         /\ w.pressure \in Int
         /\ w.action = IF w.label \in ExternalLabels THEN "external" ELSE "local"
         /\ w.targets = EvidenceTargets(w.alerts, w.label, batch.limit, batch.strategy)
         /\ w.tier = TierOf(w.score, w.label)
<1>1. PICK id \in Int \X GroupKeys, alerts \in Seq(AlertRecords) \ {<<>>}, gap \in Int,
           longest \in Int :
             w = BuildWindow(id, alerts, gap, longest, batch.limit, batch.strategy)
  BY DEF BuiltWindows
<1> DEFINE d == Described(id, alerts, gap, longest, batch.limit, batch.strategy)
           times == {a.ts : a \in Elements(alerts)} \ {NoTime}
<1>6. d = Described(id, alerts, gap, longest, batch.limit, batch.strategy)
  OBVIOUS
<1> HIDE DEF d
<1>2. /\ d.id = id /\ d.alerts = alerts /\ d.ids = IdsOf(alerts)
      /\ d.gap = gap /\ d.longest = longest
      /\ d.start = IF times = {} THEN id[1] * gap ELSE Smallest(times)
      /\ d.devices = {a.device : a \in Elements(alerts)} \ {""}
      /\ d.paths = {PathOf(a) : a \in Elements(alerts)} \ {""}
      /\ d.high = Count(alerts, IsHighValue) /\ d.healing = Count(alerts, IsTransient)
      /\ d.recurrence = (Len(alerts) >= 3) /\ d.spread = (Cardinality(d.devices) >= 2)
      /\ d.topology = (d.spread \/ Cardinality(d.paths) >= 2 \/ d.fanout >= 10)
      /\ d.label = WindowLabel(d.high, d.healing, Len(alerts), d.recurrence, d.topology, d.spread)
      /\ d.pressure = Bit(d.recurrence) + Bit(d.topology) + Bit(d.spread) + Bit(d.fanout >= 10)
      /\ d.action = IF d.label \in ExternalLabels THEN "external" ELSE "local"
      /\ d.targets = EvidenceTargets(alerts, d.label, batch.limit, batch.strategy)
  BY <1>6 DEF Described
<1>3. /\ w.id = d.id /\ w.alerts = d.alerts /\ w.ids = d.ids
      /\ w.gap = d.gap /\ w.longest = d.longest /\ w.start = d.start
      /\ w.devices = d.devices /\ w.paths = d.paths
      /\ w.fanout = d.fanout /\ w.high = d.high /\ w.healing = d.healing
      /\ w.recurrence = d.recurrence /\ w.spread = d.spread /\ w.topology = d.topology
      /\ w.label = d.label /\ w.pressure = d.pressure /\ w.action = d.action
      /\ w.targets = d.targets
      /\ w.tier = TierOf(w.score, d.label)
  BY <1>1, <1>6, WindowFields
<1>4. d.start \in Int
  <2>1. CASE times = {}
    <3>1. \A m, n \in Int : m * n \in Int
      OBVIOUS
    <3>2. id[1] * gap \in Int
      BY <3>1
    <3> QED
      BY <1>2, <2>1, <3>2
  <2>2. CASE times # {}
    <3> DEFINE f == [a \in Elements(alerts) |-> a.ts]
    <3>1. IsFiniteSet(Elements(alerts)) /\ Elements(alerts) \subseteq AlertRecords
      BY ElementsOf
    <3>2. {f[a] : a \in Elements(alerts)} = {a.ts : a \in Elements(alerts)}
      OBVIOUS
    <3> HIDE DEF f
    <3>3. IsFiniteSet({f[a] : a \in Elements(alerts)})
      BY <3>1, ImageIsFinite
    <3>4. IsFiniteSet(times)
      BY <3>2, <3>3, FS_Subset
    <3>5. times \in SUBSET Int
      BY <3>1, AlertFields
    <3>6. Smallest(times) \in Int
      BY <2>2, <3>4, <3>5, Extremes
    <3> QED
      BY <1>2, <2>2, <3>6
  <2> QED
    BY <2>1, <2>2
<1>5. d.pressure \in Int
  <2>1. /\ Bit(d.recurrence) \in Int /\ Bit(d.topology) \in Int /\ Bit(d.spread) \in Int
        /\ Bit(d.fanout >= 10) \in Int
    BY DEF Bit
  <2>2. d.pressure = Bit(d.recurrence) + Bit(d.topology) + Bit(d.spread) + Bit(d.fanout >= 10)
    BY <1>2
  <2>3. \A i, j, k, l \in Int : i + j + k + l \in Int
    OBVIOUS
  <2> QED
    BY <2>1, <2>2, <2>3
<1> HIDE DEF times
<1> QED
  BY <1>2, <1>3, <1>4, <1>5 DEF times

-----------------------------------------------------------------------------
(* The walk keeps its types. *)

\* The walk starts with its types.
LEMMA WalkInit == AdmissionInit => WalkTypes
<1> SUFFICES ASSUME AdmissionInit PROVE WalkTypes
  OBVIOUS
<1>1. /\ batch \in Cases /\ groups = GroupsOf(batch) /\ phase = "cut"
      /\ current = <<>> /\ start = NoTime /\ last = NoTime /\ gaps = <<>> /\ windows = <<>>
  BY DEF AdmissionInit
<1>2. groups \in Seq(KeyedGroups) /\ \A i \in 1..Len(groups) : groups[i].left # <<>>
  BY <1>1, GroupsListed
<1>3. start \in Int /\ last \in Int
  BY <1>1 DEF NoTime
<1> QED
  BY <1>1, <1>2, <1>3 DEF WalkTypes

\* The head of the groups.
LEMMA HeadGroup ==
  ASSUME WalkTypes, groups # <<>>
  PROVE  /\ groups[1] \in KeyedGroups /\ groups[1].key \in GroupKeys /\ groups[1].idle \in Int
         /\ groups[1].left \in Seq(AlertRecords) /\ groups[1].key[1] \in Int
         /\ Longest \in Nat
         /\ 1 \in 1..Len(groups) /\ Len(groups) \in Nat
<1>1. 1 \in 1..Len(groups) /\ Len(groups) \in Nat /\ groups[1] \in KeyedGroups
  BY DEF WalkTypes
<1>2. /\ groups[1].key \in GroupKeys /\ groups[1].idle \in Int
      /\ groups[1].left \in Seq(AlertRecords)
  BY <1>1 DEF KeyedGroups
<1>3. batch \in Cases /\ Elements(batch.alerts) \subseteq AlertRecords
  BY CaseTypes, ElementsOf DEF WalkTypes
<1>4. groups[1].key[1] \in Int
  BY <1>2, <1>3, KeyNumbers DEF GroupKeys
<1>5. Longest \in Nat
  BY <1>3, CaseTypes DEF Longest, Larger
<1> QED
  BY <1>1, <1>2, <1>4, <1>5

\* The window that is closed is built from the open one.
LEMMA ClosedWindow ==
  ASSUME WalkTypes, groups # <<>>, current # <<>>
  PROVE  \E w \in BuiltWindows :
           /\ Closed = Append(windows, w)
           /\ w.alerts = current /\ w.gap = groups[1].idle
           /\ w.longest = Larger(groups[1].idle, Longest)
           /\ w.id = <<IF batch.mode = "fixed" THEN groups[1].key[1] ELSE Len(windows),
                       groups[1].key>>
<1> DEFINE id == <<IF batch.mode = "fixed" THEN groups[1].key[1] ELSE Len(windows), groups[1].key>>
           gap == groups[1].idle
           longest == Larger(groups[1].idle, Longest)
           w == BuildWindow(id, current, gap, longest, batch.limit, batch.strategy)
<1>1. Closed = Append(windows, w)
  BY DEF Closed
<1>2. id \in Int \X GroupKeys /\ gap \in Int /\ longest \in Int
  <2>1. Len(windows) \in Int
    BY DEF WalkTypes
  <2> QED
    BY <2>1, HeadGroup DEF Larger
<1>3. current \in Seq(AlertRecords) \ {<<>>}
  BY DEF WalkTypes
<1> HIDE DEF id, gap, longest
<1>4. w \in BuiltWindows
  BY <1>2, <1>3 DEF BuiltWindows
<1>5. w.alerts = current /\ w.gap = gap /\ w.longest = longest /\ w.id = id
  <2> DEFINE d == Described(id, current, gap, longest, batch.limit, batch.strategy)
  <2>3. d = Described(id, current, gap, longest, batch.limit, batch.strategy)
    OBVIOUS
  <2> HIDE DEF d
  <2>1. d.id = id /\ d.alerts = current /\ d.gap = gap /\ d.longest = longest
    BY <2>3 DEF Described
  <2>2. w.id = d.id /\ w.alerts = d.alerts /\ w.gap = d.gap /\ w.longest = d.longest
    BY <2>3, WindowFields
  <2> QED
    BY <2>1, <2>2
<1> HIDE DEF w
<1> QED
  BY <1>1, <1>4, <1>5 DEF id, gap, longest

\* Taking an alert leaves the other groups alone.
LEMMA TakenAlert ==
  ASSUME WalkTypes, groups # <<>>, groups[1].left # <<>>, TakeAlert
  PROVE  /\ groups' \in Seq(KeyedGroups) /\ Len(groups') = Len(groups)
         /\ groups'[1].key = groups[1].key /\ groups'[1].idle = groups[1].idle
         /\ groups'[1].left = Tail(groups[1].left)
         /\ \A i \in 2..Len(groups) : groups'[i] = groups[i]
         /\ groups' # <<>> /\ Head(groups[1].left) \in AlertRecords
         /\ TimeFor(Head(groups[1].left)) \in Int
<1> DEFINE g == groups[1]
           h == [g EXCEPT !.left = Tail(@)]
<1>1. /\ g \in KeyedGroups /\ g.left \in Seq(AlertRecords)
      /\ 1 \in 1..Len(groups) /\ Len(groups) \in Nat /\ groups \in Seq(KeyedGroups)
  BY HeadGroup DEF WalkTypes
<1>2. groups' = [groups EXCEPT ![1] = h]
  BY DEF TakeAlert
<1>3. /\ h \in KeyedGroups /\ h.key = g.key /\ h.idle = g.idle /\ h.left = Tail(g.left)
  <2>1. Tail(g.left) \in Seq(AlertRecords)
    BY <1>1
  <2> HIDE DEF g
  <2> QED
    BY <1>1, <2>1 DEF KeyedGroups
<1> HIDE DEF h
<1>4. groups' \in Seq(KeyedGroups) /\ Len(groups') = Len(groups) /\ groups'[1] = h
      /\ \A i \in 2..Len(groups) : groups'[i] = groups[i]
  BY <1>1, <1>2, <1>3
<1>5. Head(g.left) \in AlertRecords
  BY <1>1
<1>6. TimeFor(Head(g.left)) \in Int
  <2>1. Head(g.left).ts \in Int
    BY <1>5, AlertFields
  <2> QED
    BY <2>1 DEF TimeFor, WalkTypes
<1> QED
  BY <1>1, <1>3, <1>4, <1>5, <1>6

\* While the batch stays the same, so does what its groups and windows may be.
LEMMA SameBatch ==
  ASSUME batch' = batch
  PROVE  GroupKeys' = GroupKeys /\ KeyedGroups' = KeyedGroups /\ BuiltWindows' = BuiltWindows
<1>1. GroupKeys' = GroupKeys
  BY DEF GroupKeys
<1> QED
  BY <1>1 DEF KeyedGroups, BuiltWindows

\* An alert that joins keeps the types.
LEMMA JoinTypes == WalkTypes /\ JoinWindow => WalkTypes'
<1> SUFFICES ASSUME WalkTypes, JoinWindow PROVE WalkTypes'
  OBVIOUS
<1> DEFINE a == Head(groups[1].left)
           ts == TimeFor(a)
<1>1. /\ phase = "cut" /\ groups # <<>> /\ groups[1].left # <<>> /\ TakeAlert
      /\ current' = Append(current, a) /\ start' = (IF current = <<>> THEN ts ELSE start)
      /\ gaps' = (IF current # <<>> /\ ts # NoTime /\ last # NoTime
                  THEN Append(gaps, ts - last) ELSE gaps)
      /\ last' = ts /\ batch' = batch /\ windows' = windows /\ phase' = phase
  BY DEF JoinWindow
<1>2. /\ groups' \in Seq(KeyedGroups) /\ Len(groups') = Len(groups) /\ groups' # <<>>
      /\ \A i \in 2..Len(groups) : groups'[i] = groups[i]
      /\ a \in AlertRecords /\ ts \in Int
  BY <1>1, TakenAlert
<1> HIDE DEF a, ts
<1>3. current' \in Seq(AlertRecords) /\ start' \in Int /\ last' \in Int /\ gaps' \in Seq(Int)
      /\ current' # <<>>
  <2>1. /\ current \in Seq(AlertRecords) /\ start \in Int /\ last \in Int /\ gaps \in Seq(Int)
        /\ ts - last \in Int
    BY <1>2 DEF WalkTypes
  <2>2. current' \in Seq(AlertRecords) /\ current' # <<>>
    BY <1>1, <1>2, <2>1
  <2>3. gaps' \in Seq(Int)
    BY <1>1, <2>1
  <2> QED
    BY <1>1, <1>2, <2>1, <2>2, <2>3
<1>4. \A i \in 1..Len(groups') : groups'[i].left = <<>> => i = 1 /\ current' # <<>>
  <2> TAKE i \in 1..Len(groups')
  <2>1. CASE i = 1
    BY <1>3, <2>1
  <2>2. CASE i # 1
    <3>1. i \in 2..Len(groups) /\ i \in 1..Len(groups)
      BY <1>2, <2>2 DEF WalkTypes
    <3> QED
      BY <1>2, <2>2, <3>1 DEF WalkTypes
  <2> QED
    BY <2>1, <2>2
<1> QED
  BY <1>1, <1>2, <1>3, <1>4, SameBatch DEF WalkTypes

\* A split keeps the types.
LEMMA SplitTypes == WalkTypes /\ SplitWindow => WalkTypes'
<1> SUFFICES ASSUME WalkTypes, SplitWindow PROVE WalkTypes'
  OBVIOUS
<1> DEFINE a == Head(groups[1].left)
           ts == TimeFor(a)
<1>1. /\ phase = "cut" /\ groups # <<>> /\ groups[1].left # <<>> /\ TakeAlert
      /\ Splits(a, ts) /\ current' = <<a>> /\ start' = ts /\ last' = ts
      /\ windows' = Closed /\ gaps' = <<>> /\ batch' = batch /\ phase' = phase
  BY DEF SplitWindow
<1>2. /\ groups' \in Seq(KeyedGroups) /\ Len(groups') = Len(groups) /\ groups' # <<>>
      /\ \A i \in 2..Len(groups) : groups'[i] = groups[i]
      /\ a \in AlertRecords /\ ts \in Int
  BY <1>1, TakenAlert
<1>3. current # <<>>
  BY <1>1 DEF Splits
<1> HIDE DEF a, ts
<1>4. PICK w \in BuiltWindows : windows' = Append(windows, w)
  BY <1>1, <1>3, ClosedWindow
<1>5. windows' \in Seq(BuiltWindows)
  BY <1>4 DEF WalkTypes
<1>6. current' \in Seq(AlertRecords) /\ current' # <<>>
  BY <1>1, <1>2
<1>7. \A i \in 1..Len(groups') : groups'[i].left = <<>> => i = 1 /\ current' # <<>>
  <2> TAKE i \in 1..Len(groups')
  <2>1. CASE i = 1
    BY <1>6, <2>1
  <2>2. CASE i # 1
    <3>1. i \in 2..Len(groups) /\ i \in 1..Len(groups)
      BY <1>2, <2>2 DEF WalkTypes
    <3> QED
      BY <1>2, <2>2, <3>1 DEF WalkTypes
  <2> QED
    BY <2>1, <2>2
<1> QED
  BY <1>1, <1>2, <1>5, <1>6, <1>7, SameBatch DEF WalkTypes

\* The end of a group keeps the types.
LEMMA EndGroupTypes == WalkTypes /\ EndGroup => WalkTypes'
<1> SUFFICES ASSUME WalkTypes, EndGroup PROVE WalkTypes'
  OBVIOUS
<1>1. /\ phase = "cut" /\ groups # <<>> /\ groups[1].left = <<>>
      /\ windows' = Closed /\ groups' = Tail(groups) /\ current' = <<>> /\ gaps' = <<>>
      /\ start' = NoTime /\ last' = NoTime /\ batch' = batch /\ phase' = phase
  BY DEF EndGroup
<1>2. groups \in Seq(KeyedGroups) /\ 1 \in 1..Len(groups) /\ Len(groups) \in Nat
  BY <1>1, HeadGroup DEF WalkTypes
<1>3. current # <<>>
  BY <1>1, <1>2 DEF WalkTypes
<1>4. PICK w \in BuiltWindows : windows' = Append(windows, w)
  BY <1>1, <1>3, ClosedWindow
<1>5. windows' \in Seq(BuiltWindows)
  BY <1>4 DEF WalkTypes
<1>6. groups' \in Seq(KeyedGroups) /\ Len(groups') = Len(groups) - 1
      /\ \A i \in 1..Len(groups') : groups'[i] = groups[i + 1]
  BY <1>1, <1>2
<1>7. \A i \in 1..Len(groups') : groups'[i].left # <<>>
  <2> TAKE i \in 1..Len(groups')
  <2>1. i + 1 \in 1..Len(groups) /\ i + 1 # 1 /\ groups'[i] = groups[i + 1]
    BY <1>2, <1>6
  <2> QED
    BY <2>1 DEF WalkTypes
<1>8. start' \in Int /\ last' \in Int
  BY <1>1 DEF NoTime
<1> QED
  BY <1>1, <1>5, <1>6, <1>7, <1>8, SameBatch DEF WalkTypes

\* Sorting permutes the windows.
LEMMA SortedWindows ==
  ASSUME WalkTypes, SortWindows
  PROVE  /\ windows' \in Seq(BuiltWindows) /\ Len(windows') = Len(windows)
         /\ Elements(windows') = Elements(windows)
         /\ \E p \in [1..Len(windows) -> 1..Len(windows)] :
              /\ \A k \in 1..Len(windows) : windows'[k] = windows[p[k]]
              /\ \A i \in 1..Len(windows) : \E k \in 1..Len(windows) : p[k] = i
              /\ \A j, k \in 1..Len(windows) : p[j] = p[k] => j = k
<1> DEFINE key(i) == IF batch.mode = "fixed" THEN windows[i].id[1] ELSE windows[i].start
           keys == [i \in 1..Len(windows) |-> <<key(i)>>]
<1>1. windows' = Ordered(windows, keys) /\ windows \in Seq(BuiltWindows)
  BY DEF SortWindows, WalkTypes
<1>2. \A i \in 1..Len(windows) : windows[i] \in BuiltWindows /\ key(i) \in Int
  <2> TAKE i \in 1..Len(windows)
  <2>1. windows[i] \in BuiltWindows
    BY <1>1
  <2> QED
    BY <2>1, WindowIs
<1>3. keys \in [1..Len(windows) -> [1..1 -> Int]]
  BY <1>2
<1> HIDE DEF keys
<1>4. PICK p \in [1..Len(windows) -> 1..Len(windows)] :
        /\ Ordered(windows, keys) = [k \in 1..Len(windows) |-> windows[p[k]]]
        /\ \A i \in 1..Len(windows) : \E k \in 1..Len(windows) : p[k] = i
        /\ \A j, k \in 1..Len(windows) : p[j] = p[k] => j = k
        /\ \A j, k \in 1..Len(windows) : j < k => ~Above(keys[p[j]], keys[p[k]])
  BY <1>1, <1>3, OrderedBy
<1>5. \A k \in 1..Len(windows) : windows'[k] = windows[p[k]]
  BY <1>1, <1>4
<1>6. /\ windows' \in Seq(BuiltWindows) /\ Len(windows') = Len(windows)
      /\ Elements(windows') = Elements(windows)
  BY <1>1, <1>3, OrderedElements
<1> QED
  BY <1>4, <1>5, <1>6

\* Every step keeps the types of the walk.
LEMMA WalkStep == WalkTypes /\ [AdmissionNext]_admissionVars => WalkTypes'
<1> SUFFICES ASSUME WalkTypes, [AdmissionNext]_admissionVars PROVE WalkTypes'
  OBVIOUS
<1>1. CASE SortWindows
  <2>1. /\ phase = "cut" /\ groups = <<>> /\ phase' \in {"floor", "spend"}
        /\ UNCHANGED <<batch, groups, current, start, last, gaps>>
    BY <1>1 DEF SortWindows
  <2>2. windows' \in Seq(BuiltWindows)
    BY <1>1, SortedWindows
  <2> QED
    BY <2>1, <2>2, SameBatch DEF WalkTypes
<1>2. CASE UNCHANGED <<batch, walkVars>> /\ phase' \in {"cut", "floor", "spend", "done"}
  BY <1>2, SameBatch DEF WalkTypes, walkVars
<1>3. CASE AdmitHighValue \/ EndFloor \/ AdmitByGain \/ EndSpending
  BY <1>2, <1>3 DEF AdmitHighValue, EndFloor, AdmitByGain, EndSpending, Select, WalkTypes
<1>4. CASE UNCHANGED admissionVars
  BY <1>2, <1>4 DEF admissionVars, WalkTypes
<1> QED
  BY <1>1, <1>3, <1>4, JoinTypes, SplitTypes, EndGroupTypes DEF AdmissionNext

\* The types of the walk, in every state.
LEMMA WalkTyped == AdmissionSpec => []WalkTypes
BY WalkInit, WalkStep, PTL DEF AdmissionSpec

-----------------------------------------------------------------------------
(* The ladders agree. *)

\* In any context, the gate asks a model only for what the policy sends too.
LEMMA GateFollowsPolicy ==
  ASSUME NEW a, NEW c \in [similar : Nat, size : Nat, neighbors : BOOLEAN, depth : BOOLEAN],
         Gate(a, c).invoke
  PROVE  AsksOutside(Gate(a, c).policy)
<1> DEFINE window == ClusterAsWindow(c)
<1>1. /\ ShouldInvoke(a, c)
      /\ Gate(a, c).policy = Decision(a, c.similar, c.neighbors, window)
  BY DEF Gate
<1>2. CASE a.severity = "critical"
  BY <1>1, <1>2 DEF Decision, AsksOutside
<1>3. CASE a.severity # "critical" /\ a.scenario \in HighValueScenarios
  BY <1>1, <1>3 DEF Decision, AsksOutside
<1>4. CASE a.severity # "critical" /\ a.scenario \notin HighValueScenarios /\ c.size >= 3
  <2>5. window = [NoWindow EXCEPT !.count = c.size, !.recurrence = c.size >= 3]
    BY <1>4 DEF ClusterAsWindow
  <2>6. /\ DOMAIN NoWindow = {"count", "devices", "fanout", "label", "recurrence", "topology", "spread"}
        /\ NoWindow.label = "" /\ NoWindow.spread = FALSE /\ NoWindow.devices = 1
    BY DEF NoWindow
  <2>7. window.label = "" /\ window.spread = FALSE /\ window.devices = 1
    BY <2>5, <2>6
  <2>8. window.recurrence = (c.size >= 3)
    BY <2>5, <2>6
  <2> HIDE DEF window
  <2>1. /\ window.recurrence /\ window.label = "" /\ ~window.spread /\ ~(window.devices >= 2)
    <3>1. ~(1 >= 2)
      OBVIOUS
    <3> QED
      BY <1>4, <2>7, <2>8, <3>1, Zenon
  <2>2. Recurring(c.similar, window)
    BY <2>1 DEF Recurring
  <2>9. "" # "mixed_fault_and_transient"
    OBVIOUS
  <2>3. TransientDecision(a, c.similar, c.neighbors, window) = "external_repeated_transient"
    BY <2>1, <2>2, <2>9, Zenon DEF TransientDecision
  <2>4. Decision(a, c.similar, c.neighbors, window) \in
          {"external_repeated_transient", "external_unknown_with_pressure"}
    BY <1>4, <2>2, <2>3 DEF Decision
  <2> QED
    BY <1>1, <2>4 DEF AsksOutside
<1>5. CASE a.severity # "critical" /\ a.scenario \notin HighValueScenarios /\ c.size < 3
  <2>1. a.scenario \notin SelfHealing
    BY <1>1, <1>5 DEF ShouldInvoke, Larger
  <2>2. RootScore(a, c) >= 65
    BY <1>1, <1>5 DEF ShouldInvoke
  <2>3. ~(RootScore(a, c) >= 65)
    BY <1>5, <2>1 DEF RootScore, Bit, Larger, Smaller
  <2> QED
    BY <2>2, <2>3
<1> QED
  BY <1>2, <1>3, <1>4, <1>5

\* What a window counts.
LEMMA WindowCounts ==
  ASSUME NEW w \in BuiltWindows
  PROVE  /\ w.high \in Nat /\ w.healing \in Nat /\ Len(w.alerts) \in Nat
         /\ (w.high > 0 <=> \E a \in Elements(w.alerts) : IsHighValue(a))
         /\ (w.healing > 0 <=> \E a \in Elements(w.alerts) : IsTransient(a))
<1> DEFINE s == w.alerts
<1>1. /\ s \in Seq(AlertRecords) /\ w.high = Count(s, IsHighValue)
      /\ w.healing = Count(s, IsTransient)
  BY WindowIs
<1> HIDE DEF s
<1>2. Len(s) \in Nat /\ \A e : e \in Elements(s) <=> \E i \in 1..Len(s) : s[i] = e
  BY <1>1, ElementsOf
<1> DEFINE H == {i \in 1..Len(s) : IsHighValue(s[i])}
           T == {i \in 1..Len(s) : IsTransient(s[i])}
<1>3. w.high = Cardinality(H) /\ w.healing = Cardinality(T)
  BY <1>1 DEF Count
<1>4. /\ Cardinality(H) \in Nat /\ (Cardinality(H) > 0 <=> H # {})
      /\ Cardinality(T) \in Nat /\ (Cardinality(T) > 0 <=> T # {})
  BY <1>2, CountIsNumber
<1>5. H # {} <=> \E a \in Elements(s) : IsHighValue(a)
  BY <1>2
<1>6. T # {} <=> \E a \in Elements(s) : IsTransient(a)
  BY <1>2
<1> HIDE DEF H, T
<1> QED
  BY <1>2, <1>3, <1>4, <1>5, <1>6 DEF s

\* The rungs of the label of a window; they overlap unless spread is topology.
LEMMA LabelCases ==
  ASSUME NEW high \in Nat, NEW healing \in Nat, NEW total \in Nat, NEW recurrence \in BOOLEAN,
         NEW topology \in BOOLEAN, NEW spread \in BOOLEAN, spread => topology
  PROVE  LET label == WindowLabel(high, healing, total, recurrence, topology, spread) IN
         /\ high > 0 /\ healing > 0 => label = "mixed_fault_and_transient"
         /\ high > 0 /\ healing = 0 => label = "external_induced_fault"
         /\ high = 0 /\ healing > 0 /\ spread => label = "external_multi_device_spread"
         /\ high = 0 /\ healing > 0 /\ ~spread /\ recurrence =>
              label = "external_repeated_transient"
         /\ high = 0 /\ healing > 0 /\ ~spread /\ ~recurrence =>
              label \in {"local_transient_with_pressure", "local_single_transient",
                        "local_low_evidence"}
<1> DEFINE label == WindowLabel(high, healing, total, recurrence, topology, spread)
<1>1. high > 0 /\ healing > 0 => label = "mixed_fault_and_transient"
  BY DEF WindowLabel
<1>2. high > 0 /\ healing = 0 => label = "external_induced_fault"
  BY DEF WindowLabel
<1>3. high = 0 /\ healing > 0 /\ spread => label = "external_multi_device_spread"
  <2> SUFFICES ASSUME high = 0, healing > 0, spread = TRUE
               PROVE  label = "external_multi_device_spread"
    OBVIOUS
  <2>1. ~(high > 0) /\ ~(healing = 0)
    OBVIOUS
  <2>2. topology = TRUE
    OBVIOUS
  <2> QED
    BY <2>1, <2>2 DEF WindowLabel
<1>4. high = 0 /\ healing > 0 /\ ~spread /\ recurrence => label = "external_repeated_transient"
  BY DEF WindowLabel
<1>5. high = 0 /\ healing > 0 /\ ~spread /\ ~recurrence =>
        label \in {"local_transient_with_pressure", "local_single_transient",
                  "local_low_evidence"}
  <2>1. CASE topology
    BY <2>1 DEF WindowLabel
  <2>2. CASE ~topology
    BY <2>2 DEF WindowLabel
  <2> QED
    BY <2>1, <2>2
<1> QED
  BY <1>1, <1>2, <1>3, <1>4, <1>5

\* For a transient alert the policy decides as the label of its window does.
LEMMA PolicyFollowsLabel ==
  ASSUME NEW w \in BuiltWindows, NEW a \in Elements(w.alerts), IsTransient(a)
  PROVE  AsksOutside(Decision(a, 0, FALSE, WindowAsContext(w))) <=> w.action = "external"
<1> DEFINE c == WindowAsContext(w)
           n == Cardinality(w.devices)
<1>1. /\ w.high \in Nat /\ w.healing > 0 /\ w.healing \in Nat /\ Len(w.alerts) \in Nat
      /\ (IsHighValue(a) => w.high > 0)
  BY WindowCounts
<1>2. /\ w.recurrence = (Len(w.alerts) >= 3) /\ w.spread = (n >= 2)
      /\ w.label =
           WindowLabel(w.high, w.healing, Len(w.alerts), w.recurrence, w.topology, w.spread)
      /\ w.action = IF w.label \in ExternalLabels THEN "external" ELSE "local"
  BY WindowIs
<1>3. n \in Nat
  <2> DEFINE f == [b \in Elements(w.alerts) |-> b.device]
  <2>1. w.devices = {b.device : b \in Elements(w.alerts)} \ {""} /\ w.alerts \in Seq(AlertRecords)
    BY WindowIs
  <2>2. {f[b] : b \in Elements(w.alerts)} = {b.device : b \in Elements(w.alerts)}
    OBVIOUS
  <2> HIDE DEF f
  <2>3. IsFiniteSet(Elements(w.alerts))
    BY <2>1, ElementsOf
  <2>4. IsFiniteSet({f[b] : b \in Elements(w.alerts)})
    BY <2>3, ImageIsFinite
  <2>5. IsFiniteSet(w.devices)
    BY <2>1, <2>2, <2>4, FS_Subset
  <2> QED
    BY <2>5, FS_CardinalityType
<1>10. (w.recurrence <=> Len(w.alerts) >= 3) /\ (w.spread <=> n >= 2)
  BY <1>2, Zenon
<1>11. w.recurrence \in BOOLEAN /\ w.spread \in BOOLEAN /\ w.topology \in BOOLEAN
  <2>1. /\ w.recurrence = (Len(w.alerts) >= 3) /\ w.spread = (Cardinality(w.devices) >= 2)
        /\ w.topology = (w.spread \/ Cardinality(w.paths) >= 2 \/ w.fanout >= 10)
    BY WindowIs
  <2>2. w.topology \in BOOLEAN
    BY <2>1, Zenon
  <2>5. (Len(w.alerts) >= 3) \in BOOLEAN /\ (Cardinality(w.devices) >= 2) \in BOOLEAN
    OBVIOUS
  <2>3. w.recurrence \in BOOLEAN
    BY <2>1, <2>5, Zenon
  <2>4. w.spread \in BOOLEAN
    BY <2>1, <2>5, Zenon
  <2> QED
    BY <2>2, <2>3, <2>4
<1> DEFINE label == WindowLabel(w.high, w.healing, Len(w.alerts), w.recurrence, w.topology, w.spread)
<1>12. /\ w.high > 0 => label = "mixed_fault_and_transient"
       /\ w.high = 0 /\ w.spread => label = "external_multi_device_spread"
       /\ w.high = 0 /\ ~w.spread /\ w.recurrence => label = "external_repeated_transient"
       /\ w.high = 0 /\ ~w.spread /\ ~w.recurrence =>
            label \in {"local_transient_with_pressure", "local_single_transient",
                      "local_low_evidence"}
  <2>1. w.topology = (w.spread \/ Cardinality(w.paths) >= 2 \/ w.fanout >= 10)
    BY WindowIs
  <2>2. w.spread => w.topology
    BY <2>1, Zenon
  <2> QED
    BY <1>1, <1>11, <2>2, LabelCases
<1>13. w.label = label
  BY <1>2
<1> HIDE DEF label
<1>4. /\ c.count = Len(w.alerts) /\ c.devices = Larger(1, n) /\ c.label = w.label
      /\ c.recurrence = w.recurrence /\ c.topology = w.topology /\ c.spread = w.spread
  BY DEF WindowAsContext
<1> HIDE DEF c, n
<1>5. (c.spread \/ c.devices >= 2) <=> n >= 2
  <2>1. c.devices >= 2 <=> n >= 2
    BY <1>3, <1>4 DEF Larger
  <2>2. c.spread <=> n >= 2
    BY <1>10, <1>4
  <2> QED
    BY <2>1, <2>2
<1>6. Recurring(0, c) <=> Len(w.alerts) >= 3
  <2>1. c.recurrence <=> Len(w.alerts) >= 3
    BY <1>10, <1>4
  <2>2. c.count >= 3 <=> Len(w.alerts) >= 3
    BY <1>4
  <2>3. ~(0 >= 3)
    OBVIOUS
  <2> QED
    BY <2>1, <2>2, <2>3 DEF Recurring
<1>7. a.scenario \in SelfHealing /\ a.scenario \notin HighValueScenarios
  BY DEF IsTransient, SelfHealing, HighValueScenarios
<1>8. CASE a.severity = "critical"
  <2>1. IsHighValue(a)
    BY <1>8 DEF IsHighValue
  <2>2. w.label = "mixed_fault_and_transient"
    BY <1>1, <1>12, <1>13, <2>1
  <2>3. Decision(a, 0, FALSE, c) = "external_critical_alert"
    BY <1>8 DEF Decision
  <2> QED
    BY <1>2, <2>2, <2>3 DEF AsksOutside, ExternalLabels, c
<1>9. CASE a.severity # "critical"
  <2>1. Decision(a, 0, FALSE, c) = TransientDecision(a, 0, FALSE, c)
    BY <1>7, <1>9 DEF Decision
  <2>2. CASE w.high > 0
    <3>1. w.label = "mixed_fault_and_transient"
      BY <1>12, <1>13, <2>2
    <3>2. TransientDecision(a, 0, FALSE, c) = "external_fault_context_window"
      BY <1>4, <3>1 DEF TransientDecision
    <3> QED
      BY <1>2, <2>1, <3>1, <3>2 DEF AsksOutside, ExternalLabels, c
  <2>3. CASE w.high = 0
    <3>1. CASE n >= 2
      <4>1. w.label = "external_multi_device_spread"
        BY <1>10, <1>12, <1>13, <2>3, <3>1
      <4>2. TransientDecision(a, 0, FALSE, c) = "external_multi_device_spread"
        BY <1>4, <1>5, <3>1, <4>1 DEF TransientDecision
      <4> QED
        BY <1>2, <2>1, <4>1, <4>2 DEF AsksOutside, ExternalLabels, c
    <3>2. CASE ~(n >= 2) /\ Len(w.alerts) >= 3
      <4>1. w.label = "external_repeated_transient"
        BY <1>10, <1>12, <1>13, <2>3, <3>2
      <4>2. TransientDecision(a, 0, FALSE, c) = "external_repeated_transient"
        BY <1>4, <1>5, <1>6, <3>2, <4>1 DEF TransientDecision
      <4> QED
        BY <1>2, <2>1, <4>1, <4>2 DEF AsksOutside, ExternalLabels, c
    <3>3. CASE ~(n >= 2) /\ ~(Len(w.alerts) >= 3)
      <4>1. w.label \in {"local_transient_with_pressure", "local_single_transient",
                         "local_low_evidence"}
        BY <1>10, <1>12, <1>13, <2>3, <3>3
      <4>2. TransientDecision(a, 0, FALSE, c) \in
              {"local_transient_with_pressure", "local_single_transient"}
        BY <1>4, <1>5, <1>6, <3>3, <4>1 DEF TransientDecision
      <4>3. w.action = "local"
        BY <1>2, <4>1 DEF ExternalLabels
      <4> QED
        BY <2>1, <4>2, <4>3 DEF AsksOutside, c
    <3> QED
      BY <3>1, <3>2, <3>3
  <2>4. w.high > 0 \/ w.high = 0
    BY <1>1
  <2> QED
    BY <2>2, <2>3, <2>4
<1> QED
  BY <1>8, <1>9

\* The two ladders of extract_topology_aware_subgraph and
\* assess_self_healing_decision, and the labels of windows, agree where they must.
THEOREM LaddersAgree == AdmissionSpec => []GatesAgree
<1>1. WalkTypes => GatesAgree
  <2> SUFFICES ASSUME WalkTypes PROVE GatesAgree
    OBVIOUS
  <2>1. ASSUME NEW a, NEW c \in Contexts, Gate(a, c).invoke
        PROVE  AsksOutside(Gate(a, c).policy)
    <3>1. c \in [similar : Nat, size : Nat, neighbors : BOOLEAN, depth : BOOLEAN]
      BY DEF Contexts
    <3> QED
      BY <2>1, <3>1, GateFollowsPolicy
  <2>2. ASSUME NEW w \in Elements(windows), NEW a \in Elements(w.alerts), IsTransient(a)
        PROVE  AsksOutside(Decision(a, 0, FALSE, WindowAsContext(w))) <=> w.action = "external"
    <3>1. w \in BuiltWindows
      BY ElementsOf DEF WalkTypes
    <3> QED
      BY <2>2, <3>1, PolicyFollowsLabel
  <2> QED
    BY <2>1, <2>2 DEF GatesAgree
<1> QED
  BY <1>1, WalkTyped, PTL

-----------------------------------------------------------------------------
(* The risk, the targets and the cost of a window. *)

\* Four of a finite set, or all of it, are finitely many.
LEMMA FourAreFinite ==
  ASSUME NEW S, IsFiniteSet(S)
  PROVE  IsFiniteSet(FourOf(S))
<1>1. Cardinality(S) \in Nat
  BY FS_CardinalityType
<1>2. CASE Cardinality(S) <= 4
  BY <1>2 DEF FourOf
<1>3. CASE Cardinality(S) > 4
  <2>1. PICK w \in S : TRUE
    BY <1>3, FS_EmptySet
  <2> DEFINE S1 == S \ {w}
  <2>2. IsFiniteSet(S1) /\ Cardinality(S1) = Cardinality(S) - 1
    BY <2>1, FS_RemoveElement
  <2>3. PICK x \in S1 : TRUE
    BY <1>1, <1>3, <2>2, FS_EmptySet
  <2> DEFINE S2 == S1 \ {x}
  <2> HIDE DEF S1
  <2>4. IsFiniteSet(S2) /\ Cardinality(S2) = Cardinality(S1) - 1
    BY <2>2, <2>3, FS_RemoveElement
  <2>5. PICK y \in S2 : TRUE
    BY <1>1, <1>3, <2>2, <2>4, FS_EmptySet
  <2> DEFINE S3 == S2 \ {y}
  <2> HIDE DEF S2
  <2>6. IsFiniteSet(S3) /\ Cardinality(S3) = Cardinality(S2) - 1
    BY <2>4, <2>5, FS_RemoveElement
  <2>7. PICK z \in S3 : TRUE
    BY <1>1, <1>3, <2>2, <2>4, <2>6, FS_EmptySet
  <2>15. x \in S /\ x # w /\ y \in S /\ y \notin {w} \cup {x}
         /\ z \in S /\ z \notin {w} \cup {x} \cup {y}
    BY <2>1, <2>3, <2>5, <2>7 DEF S1, S2
  <2> HIDE DEF S3
  <2> DEFINE T1 == {w}  T2 == T1 \cup {x}  T3 == T2 \cup {y}
  <2>8. IsFiniteSet(T1) /\ Cardinality(T1) = 1 /\ x \notin T1 /\ y \notin T2 /\ z \notin T3
    BY <2>15, FS_Singleton
  <2> HIDE DEF T1
  <2>9. IsFiniteSet(T2) /\ Cardinality(T2) = 2
    BY <2>8, FS_AddElement
  <2> HIDE DEF T2
  <2>10. IsFiniteSet(T3) /\ Cardinality(T3) = 3
    BY <2>8, <2>9, FS_AddElement
  <2> HIDE DEF T3
  <2>11. Cardinality(T3 \cup {z}) = 4
    <3>1. z \notin T3 /\ IsFiniteSet(T3)
      BY <2>8, <2>10
    <3>2. Cardinality(T3 \cup {z}) = Cardinality(T3) + 1
      BY <3>1, FS_AddElement
    <3> QED
      BY <2>10, <3>2
  <2>12. T3 \cup {z} \in SUBSET S
    BY <2>1, <2>15 DEF T1, T2, T3
  <2>13. FourOf(S) = CHOOSE T \in SUBSET S : Cardinality(T) = 4
    BY <1>1, <1>3 DEF FourOf
  <2>14. FourOf(S) \in SUBSET S
    BY <2>11, <2>12, <2>13
  <2> QED
    BY <2>14, FS_Subset
<1> QED
  BY <1>1, <1>2, <1>3

\* A weight is a number, and no atom weighs nothing.
LEMMA WeightIsNumber ==
  ASSUME NEW S, IsFiniteSet(S), NEW atoms, \A k \in S : atoms[k] \in Nat
  PROVE  Weight(atoms, S) \in Nat /\ Weight(atoms, {}) = 0
<1> DEFINE part == [k \in S |-> {k} \X (1..atoms[k])]
           parts == {part[k] : k \in S}
<1>1. \A k \in S : part[k] = {k} \X (1..atoms[k])
  OBVIOUS
<1>2. \A k \in S : IsFiniteSet(part[k])
  <2> TAKE k \in S
  <2>2. atoms[k] \in Int /\ 1 \in Int
    OBVIOUS
  <2>1. IsFiniteSet({k}) /\ IsFiniteSet(1..atoms[k])
    BY <2>2, FS_Singleton, FS_Interval
  <2> QED
    BY <1>1, <2>1, FS_Product
<1>3. Weight(atoms, S) = Cardinality(UNION parts)
  <2>1. parts = {{k} \X (1..atoms[k]) : k \in S}
    BY <1>1
  <2> QED
    BY <2>1 DEF Weight
<1> HIDE DEF part
<1>4. IsFiniteSet(parts)
  BY ImageIsFinite
<1>5. IsFiniteSet(UNION parts)
  BY <1>2, <1>4, FS_UNION
<1>6. Weight(atoms, {}) = 0
  <2>1. UNION {{k} \X (1..atoms[k]) : k \in {}} = {}
    OBVIOUS
  <2> QED
    BY <2>1, FS_EmptySet DEF Weight
<1> QED
  BY <1>3, <1>5, <1>6, FS_CardinalityType

\* The risk atoms of a window are finitely many numbers; a window of high value
\* has an occurrence of its own among them, and no window has that of another.
LEMMA AtomsAre ==
  ASSUME NEW w \in BuiltWindows
  PROVE  /\ IsFiniteSet(DOMAIN w.atoms) /\ \A k \in DOMAIN w.atoms : w.atoms[k] \in Nat
         /\ w.score \in Nat
         /\ w.high > 0 => <<"occurrence", w.id>> \in DOMAIN w.atoms
         /\ \A id : <<"occurrence", id>> \in DOMAIN w.atoms => id = w.id
<1>1. PICK id \in Int \X GroupKeys, alerts \in Seq(AlertRecords) \ {<<>>}, gap \in Int,
           longest \in Int :
             w = BuildWindow(id, alerts, gap, longest, batch.limit, batch.strategy)
  BY DEF BuiltWindows
<1>2. PICK d : d = Described(id, alerts, gap, longest, batch.limit, batch.strategy)
  OBVIOUS
<1>3. w.atoms = RiskAtoms(d) /\ w.id = d.id /\ w.high = d.high /\ w.score = Risk(d).score
  BY <1>1, <1>2, WindowFields
<1>4. /\ d.devices = {a.device : a \in Elements(alerts)} \ {""}
      /\ d.shapes = {a.shape : a \in Elements(alerts)} \ {""}
  BY <1>2 DEF Described
<1> DEFINE scope(kind, S) == {<<kind, x>> : x \in FourOf(S)}
           named == Given(d.high > 0, <<"fault">>)
                    \cup Given(d.label = "mixed_fault_and_transient", <<"mixed">>)
                    \cup Given(d.spread, <<"spread">>) \cup Given(d.recurrence, <<"recurrence">>)
                    \cup Given(d.topology, <<"topology">>)
                    \cup Given(Cardinality(d.paths) >= 2, <<"multi path">>)
                    \cup Given(d.fanout >= 10, <<"fanout">>)
                    \cup Given(d.devices = {}, <<"no device">>)
                    \cup Given(d.paths = {}, <<"no path">>)
                    \cup Given(Len(d.alerts) <= 1, <<"no timeline">>)
           own == Given(d.high > 0 \/ d.label \in HighRiskLabels, <<"occurrence", d.id>>)
           pressed == Given(/\ d.high = 0 /\ d.label \notin HighRiskLabels
                            /\ d.recurrence \/ d.topology, <<"pressure", d.id>>)
           keys == named \cup scope("device", d.devices) \cup scope("shape", d.shapes)
                   \cup own \cup pressed
           weighs(t) ==
              CASE t = "fault" -> 10 [] t = "mixed" -> 7 [] t = "spread" -> 6
                [] t \in {"recurrence", "topology"} -> 4 [] t = "occurrence" -> 3
                [] t \in {"multi path", "fanout", "no device", "no path"} -> 2 [] OTHER -> 1
           weight == [k \in keys |-> weighs(k[1])]
<1>5. RiskAtoms(d) = weight
  BY DEF RiskAtoms
<1>17. \A t : weighs(t) \in Nat
  OBVIOUS
<1> HIDE DEF weighs
<1>6. DOMAIN weight = keys /\ \A k \in keys : weight[k] \in Nat
  BY <1>17
<1>7. IsFiniteSet(named) /\ IsFiniteSet(own) /\ IsFiniteSet(pressed)
  BY SmallSets
<1>8. IsFiniteSet(scope("device", d.devices)) /\ IsFiniteSet(scope("shape", d.shapes))
  <2>1. IsFiniteSet(Elements(alerts))
    BY ElementsOf
  <2> DEFINE f == [a \in Elements(alerts) |-> a.device]
             g == [a \in Elements(alerts) |-> a.shape]
  <2>2. /\ {f[a] : a \in Elements(alerts)} = {a.device : a \in Elements(alerts)}
        /\ {g[a] : a \in Elements(alerts)} = {a.shape : a \in Elements(alerts)}
    OBVIOUS
  <2> HIDE DEF f, g
  <2>3. IsFiniteSet({f[a] : a \in Elements(alerts)}) /\ IsFiniteSet({g[a] : a \in Elements(alerts)})
    BY <2>1, ImageIsFinite
  <2>4. IsFiniteSet(d.devices) /\ IsFiniteSet(d.shapes)
    BY <1>4, <2>2, <2>3, FS_Subset
  <2>5. ASSUME NEW kind, NEW S, IsFiniteSet(S) PROVE IsFiniteSet(scope(kind, S))
    <3> DEFINE h == [x \in FourOf(S) |-> <<kind, x>>]
    <3>1. scope(kind, S) = {h[x] : x \in FourOf(S)}
      OBVIOUS
    <3> HIDE DEF h
    <3>2. IsFiniteSet(FourOf(S))
      BY <2>5, FourAreFinite
    <3>3. IsFiniteSet({h[x] : x \in FourOf(S)})
      BY <3>2, ImageIsFinite
    <3> QED
      BY <3>1, <3>3
  <2> QED
    BY <2>4, <2>5
<1>9. \A k \in named : \A id2 : k # <<"occurrence", id2>>
  <2> DEFINE Names == {"fault", "mixed", "spread", "recurrence", "topology", "multi path",
                       "fanout", "no device", "no path", "no timeline"}
  <2>6. named \subseteq {<<"fault">>, <<"mixed">>, <<"spread">>, <<"recurrence">>, <<"topology">>,
                         <<"multi path">>, <<"fanout">>, <<"no device">>, <<"no path">>,
                         <<"no timeline">>}
    BY Zenon DEF Given
  <2>7. \A t \in Names : <<t>> \in {<<u>> : u \in Names}
    BY Zenon
  <2>8. /\ "fault" \in Names /\ "mixed" \in Names /\ "spread" \in Names
        /\ "recurrence" \in Names /\ "topology" \in Names /\ "multi path" \in Names
        /\ "fanout" \in Names /\ "no device" \in Names /\ "no path" \in Names
        /\ "no timeline" \in Names
    BY Zenon
  <2> HIDE DEF Names
  <2>1. named \subseteq {<<t>> : t \in Names}
    BY <2>6, <2>7, <2>8, Zenon
  <2> HIDE DEF named
  <2>4. \A t : <<t>>[1] = t
    OBVIOUS
  <2>5. "occurrence" \notin Names
    BY DEF Names
  <2>2. \A k \in named : k[1] # "occurrence"
    BY <2>1, <2>4, <2>5, Zenon
  <2>3. \A id2 : <<"occurrence", id2>>[1] = "occurrence"
    OBVIOUS
  <2> QED
    BY <2>2, <2>3, Zenon
<1>10. \A k \in scope("device", d.devices) \cup scope("shape", d.shapes) \cup pressed :
         \A id2 : k # <<"occurrence", id2>>
  BY DEF Given
<1>11. \A k \in own : k = <<"occurrence", d.id>>
  BY DEF Given
<1>12. d.high > 0 => <<"occurrence", d.id>> \in own
  BY DEF Given
<1> HIDE DEF named, own, pressed, scope
<1>13. IsFiniteSet(keys)
  BY <1>7, <1>8, SmallSets
<1>14. \A id2 : <<"occurrence", id2>> \in keys => id2 = d.id
  BY <1>9, <1>10, <1>11
<1>15. d.high > 0 => <<"occurrence", d.id>> \in keys
  BY <1>12
<1> HIDE DEF keys, weight
<1>16. Risk(d).score \in Nat
  <2> DEFINE atoms == RiskAtoms(d)
  <2>1. Risk(d).score =
          Larger(0, Weight(atoms, DOMAIN atoms) - 2 * Bit(d.healing > 0 /\ d.high = 0))
    BY DEF Risk
  <2>2. Weight(atoms, DOMAIN atoms) \in Nat
    BY <1>5, <1>6, <1>13, WeightIsNumber
  <2>3. Bit(d.healing > 0 /\ d.high = 0) \in {0, 1}
    BY DEF Bit
  <2> HIDE DEF atoms
  <2>4. \A m \in Nat, b \in {0, 1} : Larger(0, m - 2 * b) \in Nat
    BY DEF Larger
  <2> QED
    BY <2>1, <2>2, <2>3, <2>4
<1> QED
  BY <1>3, <1>5, <1>6, <1>13, <1>14, <1>15, <1>16

\* The evidence surface names every alert of high value, up to the twelve that are
\* listed, and excludes none, but for what the legacy strategy excludes.
LEMMA TargetsAre ==
  ASSUME NEW alerts \in Seq(AlertRecords), NEW label, NEW limit \in Nat, NEW strategy
  PROVE  LET t == EvidenceTargets(alerts, label, limit, strategy)
             high == Picked(alerts, IsHighValue) IN
         /\ t.ids \in Seq(Nat) /\ t.representatives \in Seq(Nat)
         /\ (high # <<>> /\ Len(alerts) <= 12) => Elements(IdsOf(high)) \subseteq Elements(t.ids)
         /\ label = "external_induced_fault" => t.excluded = {}
         /\ label = "mixed_fault_and_transient" =>
              /\ t.excluded \subseteq Elements(IdsOf(Picked(alerts, IsTransient)))
              /\ (high # <<>> /\ strategy # "legacy") =>
                   t.excluded \cap Elements(IdsOf(high)) = {}
<1> DEFINE t == EvidenceTargets(alerts, label, limit, strategy)
           high == Picked(alerts, IsHighValue)
           main == IF high # <<>> THEN high ELSE alerts
           sensitive == BranchSensitive(alerts, label, strategy)
           reps == RepresentativeIds(IF sensitive THEN alerts ELSE main, Larger(1, limit), alerts,
                                     strategy, Len(alerts) > 1)
           carriers == IF sensitive THEN CarrierIds(reps, high) ELSE Elements(reps)
           sorted == Sorted(alerts)
           C == {i \in 1..Len(sorted) : sorted[i].id \in carriers}
           found == At(sorted, C)
           chosen == IF found = <<>> THEN main ELSE found
           from == IF sensitive THEN chosen ELSE main
           ids == IdsOf(from)
<1>1. high \in Seq(AlertRecords) /\ Len(high) <= Len(alerts)
  BY AtPicks DEF Picked
<1>2. main \in Seq(AlertRecords) /\ Len(main) <= Len(alerts)
  BY <1>1
<1>3. sorted \in Seq(AlertRecords) /\ Len(sorted) = Len(alerts)
      /\ Elements(sorted) = Elements(alerts)
  BY SortedElements
<1>4. found \in Seq(AlertRecords) /\ Len(found) <= Len(alerts)
  BY <1>3, AtPicks
<1>5. from \in Seq(AlertRecords) /\ chosen \in Seq(AlertRecords) /\ Len(from) <= Len(alerts)
  BY <1>2, <1>4
<1>6. t = Listed(alerts, label, ids, reps, chosen)
  BY Zenon DEF EvidenceTargets, TargetsFrom, Surface, Picked
<1>7. reps \in Seq(Nat)
  <2>1. Larger(1, limit) \in Nat
    BY DEF Larger
  <2>2. (IF sensitive THEN alerts ELSE main) \in Seq(AlertRecords)
    BY <1>2
  <2> HIDE DEF sensitive, main
  <2> QED
    BY <2>1, <2>2, RepresentativesAreIds
<1>8. ids \in Seq(Nat) /\ Len(ids) <= Len(alerts)
  BY <1>5, IdsAre
<1>9. /\ t.ids = SubSeq(ids, 1, Smaller(12, Len(ids)))
      /\ t.representatives = SubSeq(reps, 1, Smaller(6, Len(reps)))
      /\ t.excluded = CASE label \notin ExternalLabels -> Elements(IdsOf(alerts))
                        [] label = "mixed_fault_and_transient" ->
                             Elements(IdsOf(Picked(alerts, IsTransient))) \ Elements(IdsOf(chosen))
                        [] OTHER -> {}
  <2> HIDE DEF t, ids, reps, chosen
  <2> QED
    BY <1>6 DEF Listed
\* A high alert that has an id is chosen where branches matter.
<1>10. high # <<>> /\ sensitive => Elements(IdsOf(high)) \subseteq Elements(IdsOf(chosen))
  <2> SUFFICES ASSUME high # <<>>, sensitive, NEW x \in Elements(IdsOf(high))
               PROVE  x \in Elements(IdsOf(chosen))
    OBVIOUS
  <2>1. x # 0 /\ \E a \in Elements(high) : x = a.id
    BY <1>1, IdsAre
  <2>2. PICK a \in Elements(high) : x = a.id
    BY <2>1
  <2>3. Elements(high) \subseteq Elements(alerts)
    <3> DEFINE H == {i \in 1..Len(alerts) : IsHighValue(alerts[i])}
    <3>1. high = At(alerts, H)
      BY DEF Picked
    <3>2. Elements(At(alerts, H)) = {alerts[i] : i \in H}
      BY PickedElements
    <3>3. \A i \in H : alerts[i] \in Elements(alerts)
      BY DEF Elements
    <3> HIDE DEF H, high
    <3> QED
      BY <3>1, <3>2, <3>3
  <2>4. PICK i \in 1..Len(sorted) : sorted[i] = a
    BY <1>3, <2>2, <2>3, ElementsOf
  <2>5. x \in carriers
    BY DEF CarrierIds
  <2>6. i \in C
    BY <2>2, <2>4, <2>5
  <2>7. Elements(found) = {sorted[k] : k \in C}
    BY <1>3, PickedElements
  <2> HIDE DEF found
  <2>8. a \in Elements(found)
    BY <2>4, <2>6, <2>7
  <2>9. chosen = found
    <3>1. Elements(<<>>) = {}
      BY DEF Elements
    <3> QED
      BY <2>8, <3>1
  <2> HIDE DEF chosen
  <2> QED
    BY <1>4, <2>1, <2>2, <2>8, <2>9, IdsAre
<1>11. high # <<>> => Elements(IdsOf(high)) \subseteq Elements(ids)
  BY <1>10
<1> HIDE DEF t, ids, reps, chosen, high, sensitive
<1>12. t.ids \in Seq(Nat) /\ t.representatives \in Seq(Nat)
  <2>1. \A s \in Seq(Nat), n \in Nat : SubSeq(s, 1, Smaller(n, Len(s))) \in Seq(Nat)
    BY DEF Smaller
  <2> QED
    BY <1>7, <1>8, <1>9, <2>1
<1>13. ASSUME high # <<>>, Len(alerts) <= 12
       PROVE  Elements(IdsOf(high)) \subseteq Elements(t.ids)
  <2>1. Smaller(12, Len(ids)) = Len(ids)
    <3>1. Len(ids) \in Nat /\ Len(alerts) \in Nat
      BY <1>8
    <3>2. Len(ids) <= 12
      BY <1>8, <1>13, <3>1
    <3>3. \A n \in Nat : n <= 12 => Smaller(12, n) = n
      BY DEF Smaller
    <3> QED
      BY <3>1, <3>2, <3>3
  <2>2. SubSeq(ids, 1, Len(ids)) = ids
    BY <1>8
  <2> QED
    BY <1>9, <1>11, <1>13, <2>1, <2>2
<1>14. label = "external_induced_fault" => t.excluded = {}
  BY <1>9 DEF ExternalLabels
<1>15. ASSUME label = "mixed_fault_and_transient"
       PROVE  /\ t.excluded \subseteq Elements(IdsOf(Picked(alerts, IsTransient)))
              /\ (high # <<>> /\ strategy # "legacy") =>
                   t.excluded \cap Elements(IdsOf(high)) = {}
  <2>1. t.excluded = Elements(IdsOf(Picked(alerts, IsTransient))) \ Elements(IdsOf(chosen))
    BY <1>9, <1>15 DEF ExternalLabels
  <2>2. strategy # "legacy" => sensitive
    BY <1>15 DEF sensitive, BranchSensitive, ExternalLabels
  <2> QED
    BY <1>10, <2>1, <2>2
<1> QED
  BY <1>12, <1>13, <1>14, <1>15 DEF t, high

\* A call costs at least one, and as much as the alerts it shows.
LEMMA CostIsNumber ==
  ASSUME batch \in Cases, NEW w \in BuiltWindows
  PROVE  /\ Cost(w) \in Nat /\ Cost(w) >= 1
         /\ IsFiniteSet(RepresentativesOf(w)) /\ Cardinality(RepresentativesOf(w)) \in Nat
         /\ Cardinality(RepresentativesOf(w)) <= Cost(w)
<1>1. /\ w.alerts \in Seq(AlertRecords)
      /\ w.targets = EvidenceTargets(w.alerts, w.label, batch.limit, batch.strategy)
  BY WindowIs
<1>2. batch.limit \in Nat
  BY CaseTypes
<1>3. w.targets.ids \in Seq(Nat) /\ w.targets.representatives \in Seq(Nat)
  <2> DEFINE s == w.alerts  n == batch.limit  label == w.label  strategy == batch.strategy
             t == EvidenceTargets(s, label, n, strategy)
  <2>1. s \in Seq(AlertRecords) /\ n \in Nat
    BY <1>1, <1>2
  <2> HIDE DEF s, n, label, strategy
  <2>2. t.ids \in Seq(Nat) /\ t.representatives \in Seq(Nat)
    BY <2>1, TargetsAre
  <2> QED
    BY <1>1, <2>2 DEF s, n, label, strategy
<1>4. IsFiniteSet(RepresentativesOf(w)) /\ Cardinality(RepresentativesOf(w)) \in Nat
  BY <1>3, ElementsOf DEF RepresentativesOf
<1> QED
  BY <1>4 DEF Cost, Larger

-----------------------------------------------------------------------------
(* What can be selected. *)

\* The numbers windows are ranked by; what gains has an atom that is not covered.
LEMMA RankNumbers ==
  ASSUME batch \in Cases, NEW w \in BuiltWindows
  PROVE  /\ Gain(w) \in Nat /\ (Gain(w) > 0 => DOMAIN w.atoms \ covered # {})
         /\ (27720 * Gain(w)) \div Cost(w) \in Int
         /\ TierRank(w) \in Int /\ w.score \in Int /\ w.high \in Int /\ w.pressure \in Int
         /\ Len(w.alerts) \in Int
<1>1. IsFiniteSet(DOMAIN w.atoms) /\ w.score \in Nat /\ \A k \in DOMAIN w.atoms : w.atoms[k] \in Nat
  BY AtomsAre
<1> DEFINE S == DOMAIN w.atoms \ covered
<1>2. IsFiniteSet(S) /\ \A k \in S : w.atoms[k] \in Nat
  BY <1>1, FS_Subset
<1> HIDE DEF S
<1>3. Weight(w.atoms, S) \in Nat /\ Weight(w.atoms, {}) = 0
  BY <1>2, WeightIsNumber
<1>4. Gain(w) = Weight(w.atoms, S)
  BY DEF Gain, S
<1>5. Gain(w) > 0 => S # {}
  BY <1>3, <1>4
<1>6. TierRank(w) \in Int
  BY DEF TierRank
<1>7. w.high \in Nat /\ Len(w.alerts) \in Nat
  BY WindowCounts
<1>8. w.pressure \in Int
  BY WindowIs
<1>9. Cost(w) \in Nat /\ Cost(w) >= 1
  BY CostIsNumber
<1>10. \A g, c \in Nat : c >= 1 => (27720 * g) \div c \in Int
  OBVIOUS
<1>11. (27720 * Gain(w)) \div Cost(w) \in Int
  BY <1>3, <1>4, <1>9, <1>10
<1> QED
  BY <1>1, <1>3, <1>4, <1>5, <1>6, <1>7, <1>8, <1>11 DEF S

\* The windows that are left, and those of high value among them.
LEMMA LeftIs ==
  ASSUME WalkTypes
  PROVE  /\ Left \in Seq(BuiltWindows) /\ HighValueLeft \in Seq(BuiltWindows)
         /\ \A w : w \in Elements(Left) <=> w \in Elements(windows) /\ w \notin Elements(selected)
         /\ \A w : w \in Elements(HighValueLeft) <=> w \in Elements(Left) /\ w.high > 0
         /\ HighValueLeft = <<>> => \A w \in Elements(Left) : ~(w.high > 0)
<1> DEFINE S == {i \in 1..Len(windows) : windows[i] \notin Elements(selected)}
           T == {i \in 1..Len(Left) : Left[i].high > 0}
<1>1. windows \in Seq(BuiltWindows)
  BY DEF WalkTypes
<1>2. Left = At(windows, S) /\ HighValueLeft = At(Left, T)
  BY DEF Left, HighValueLeft, Picked
<1>3. Left \in Seq(BuiltWindows) /\ Elements(Left) = {windows[i] : i \in S}
  <2>1. S \in SUBSET (1..Len(windows))
    OBVIOUS
  <2> HIDE DEF S
  <2> QED
    BY <1>1, <1>2, <2>1, AtPicks, PickedElements
<1>4. HighValueLeft \in Seq(BuiltWindows) /\ Elements(HighValueLeft) = {Left[i] : i \in T}
  <2>1. T \in SUBSET (1..Len(Left))
    OBVIOUS
  <2> HIDE DEF T
  <2>2. Left \in Seq(BuiltWindows)
    BY <1>3
  <2>3. At(Left, T) \in Seq(BuiltWindows)
    BY <2>1, <2>2, AtPicks
  <2>4. Elements(At(Left, T)) = {Left[i] : i \in T}
    BY <2>1, <2>2, PickedElements
  <2> QED
    BY <1>2, <2>3, <2>4
<1>5. \A w : w \in Elements(Left) <=> w \in Elements(windows) /\ w \notin Elements(selected)
  BY <1>1, <1>3, ElementsOf
<1>6. \A w : w \in Elements(Left) <=> \E i \in 1..Len(Left) : Left[i] = w
  BY <1>3, ElementsOf
<1>7. \A w : w \in Elements(HighValueLeft) <=> w \in Elements(Left) /\ w.high > 0
  BY <1>4, <1>6
<1>8. Elements(<<>>) = {}
  BY DEF Elements
<1> QED
  BY <1>3, <1>4, <1>5, <1>7, <1>8

\* The best window is one that is left.
LEMMA BestIsLeft ==
  ASSUME WalkTypes
  PROVE  /\ Left # <<>> => Best \in Elements(Left)
         /\ HighValueLeft # <<>> =>
              FirstBest(HighValueLeft, [i \in 1..Len(HighValueLeft) |-> LET w == HighValueLeft[i] IN
                <<TierRank(w), w.score, w.high, w.pressure, Len(w.alerts)>>])
                \in Elements(HighValueLeft)
<1>1. batch \in Cases /\ Left \in Seq(BuiltWindows) /\ HighValueLeft \in Seq(BuiltWindows)
  BY LeftIs DEF WalkTypes
<1>2. ASSUME Left # <<>> PROVE Best \in Elements(Left)
  <2> DEFINE s == Left
             keys == [i \in 1..Len(s) |-> LET w == s[i] IN
                        <<(27720 * Gain(w)) \div Cost(w), w.score, w.high, Len(w.alerts)>>]
  <2>1. Best = FirstBest(s, keys) /\ s \in Seq(BuiltWindows) /\ s # <<>>
    BY <1>1, <1>2 DEF Best
  <2> HIDE DEF s
  <2>2. \A i \in 1..Len(s) : s[i] \in BuiltWindows
    BY <2>1
  <2>3. \A i \in 1..Len(s) : keys[i] \in [1..4 -> Int]
    BY <1>1, <2>2, RankNumbers
  <2>4. keys \in [1..Len(s) -> [1..4 -> Int]]
    BY <2>3
  <2> HIDE DEF keys
  <2>5. \E i \in 1..Len(s) : FirstBest(s, keys) = s[i]
    BY <2>1, <2>4, FirstBestIn
  <2> QED
    BY <2>1, <2>5 DEF Elements, s
<1>3. ASSUME HighValueLeft # <<>>
      PROVE  FirstBest(HighValueLeft, [i \in 1..Len(HighValueLeft) |-> LET w == HighValueLeft[i] IN
               <<TierRank(w), w.score, w.high, w.pressure, Len(w.alerts)>>])
               \in Elements(HighValueLeft)
  <2> DEFINE s == HighValueLeft
             keys == [i \in 1..Len(s) |-> LET w == s[i] IN
                        <<TierRank(w), w.score, w.high, w.pressure, Len(w.alerts)>>]
  <2>1. s \in Seq(BuiltWindows) /\ s # <<>>
    BY <1>1, <1>3
  <2> HIDE DEF s
  <2>2. \A i \in 1..Len(s) : s[i] \in BuiltWindows
    BY <2>1
  <2>3. \A i \in 1..Len(s) : keys[i] \in [1..5 -> Int]
    BY <1>1, <2>2, RankNumbers
  <2>4. keys \in [1..Len(s) -> [1..5 -> Int]]
    BY <2>3
  <2> HIDE DEF keys
  <2>5. \E i \in 1..Len(s) : FirstBest(s, keys) = s[i]
    BY <2>1, <2>4, FirstBestIn
  <2>6. FirstBest(s, keys) \in Elements(s)
    BY <2>5 DEF Elements
  <2> QED
    BY <2>6 DEF s, keys
<1> QED
  BY <1>2, <1>3

\* A step of selection takes a window that is left.
LEMMA SelectionTakes ==
  ASSUME WalkTypes, AdmitHighValue \/ AdmitByGain
  PROVE  \E w \in BuiltWindows :
           /\ w \in Elements(windows) /\ w \notin Elements(selected)
           /\ Select(w) /\ phase' = phase
           /\ AdmitHighValue => phase = "floor" /\ w.high > 0
           /\ AdmitByGain => phase = "spend" /\ used < Budget /\ Gain(w) > 0 /\ Fits(w)
<1>1. windows \in Seq(BuiltWindows)
  BY DEF WalkTypes
<1>2. Elements(windows) \subseteq BuiltWindows
  BY <1>1, ElementsOf
<1>3. CASE AdmitHighValue /\ phase = "floor"
  <2> DEFINE best == FirstBest(HighValueLeft,
                   [i \in 1..Len(HighValueLeft) |-> LET w == HighValueLeft[i] IN
                     <<TierRank(w), w.score, w.high, w.pressure, Len(w.alerts)>>])
  <2>1. HighValueLeft # <<>> /\ Select(best) /\ phase' = phase
    BY <1>3, Zenon DEF AdmitHighValue
  <2>2. best \in Elements(HighValueLeft)
    BY <2>1, BestIsLeft
  <2> HIDE DEF best
  <2>3. best \in Elements(windows) /\ best \notin Elements(selected) /\ best.high > 0
    BY <2>2, LeftIs
  <2>4. ~AdmitByGain
    BY <1>3 DEF AdmitByGain
  <2> QED
    BY <1>2, <1>3, <2>1, <2>3, <2>4
<1>4. CASE AdmitByGain
  <2>1. /\ phase = "spend" /\ Left # <<>> /\ used < Budget /\ Gain(Best) > 0 /\ Fits(Best)
        /\ Select(Best) /\ phase' = phase
    BY <1>4, Zenon DEF AdmitByGain, Affordable
  <2>2. Best \in Elements(windows) /\ Best \notin Elements(selected)
    BY <2>1, BestIsLeft, LeftIs
  <2>3. ~AdmitHighValue
    BY <2>1 DEF AdmitHighValue
  <2> QED
    BY <1>2, <2>1, <2>2, <2>3
<1>5. AdmitHighValue => phase = "floor"
  BY DEF AdmitHighValue
<1> QED
  BY <1>3, <1>4, <1>5

-----------------------------------------------------------------------------
(* No two windows have one id. *)

\* Ids count the windows, or are the key of a group that is done.
DistinctWindows ==
  /\ \A i, j \in 1..Len(windows) : windows[i].id = windows[j].id => i = j
  /\ \A i, j \in 1..Len(groups) : groups[i].key = groups[j].key => i = j
  /\ phase = "cut" => \A i \in 1..Len(windows) :
       IF batch.mode = "fixed" THEN \A j \in 1..Len(groups) : windows[i].id[2] # groups[j].key
       ELSE windows[i].id[1] = i - 1

\* A window that is closed has an id that no other has.
LEMMA ClosedIsNew ==
  ASSUME WalkTypes, DistinctWindows, phase = "cut", groups # <<>>, current # <<>>
  PROVE  \E w \in BuiltWindows :
           /\ Closed = Append(windows, w) /\ Len(Closed) = Len(windows) + 1
           /\ \A i \in 1..Len(windows) : Closed[i] = windows[i]
           /\ Closed[Len(windows) + 1] = w /\ w.id[2] = groups[1].key
           /\ batch.mode # "fixed" => w.id[1] = Len(windows)
           /\ \A i, j \in 1..Len(Closed) : Closed[i].id = Closed[j].id => i = j
<1>1. PICK w \in BuiltWindows :
        /\ Closed = Append(windows, w)
        /\ w.id = <<IF batch.mode = "fixed" THEN groups[1].key[1] ELSE Len(windows), groups[1].key>>
  BY ClosedWindow
<1> DEFINE n == Len(windows)
           ws == Closed
<1>2. n \in Nat /\ windows \in Seq(BuiltWindows) /\ 1 \in 1..Len(groups)
  BY HeadGroup DEF WalkTypes
<1>3. Len(ws) = n + 1 /\ ws[n + 1] = w /\ \A i \in 1..n : ws[i] = windows[i]
  BY <1>1, <1>2
<1>4. w.id[2] = groups[1].key /\ (batch.mode # "fixed" => w.id[1] = n)
  BY <1>1
<1>5. \A i \in 1..n : windows[i].id # w.id
  <2> TAKE i \in 1..n
  <2>1. CASE batch.mode = "fixed"
    BY <1>2, <1>4, <2>1 DEF DistinctWindows
  <2>2. CASE batch.mode # "fixed"
    <3>1. windows[i].id[1] = i - 1 /\ i - 1 # n
      BY <1>2, <2>2 DEF DistinctWindows
    <3> QED
      BY <1>4, <2>2, <3>1
  <2> QED
    BY <2>1, <2>2
<1>6. \A i, j \in 1..n : windows[i].id = windows[j].id => i = j
  BY DEF DistinctWindows
<1>7. ASSUME NEW i \in 1..Len(ws), NEW j \in 1..Len(ws), ws[i].id = ws[j].id PROVE i = j
  <2>1. (i \in 1..n \/ i = n + 1) /\ (j \in 1..n \/ j = n + 1)
    BY <1>2, <1>3
  <2> QED
    BY <1>3, <1>5, <1>6, <1>7, <2>1
<1> HIDE DEF n, ws
<1>8. \A i, j \in 1..Len(ws) : ws[i].id = ws[j].id => i = j
  BY <1>7
<1> QED
  BY <1>1, <1>3, <1>4, <1>8 DEF n, ws

\* An alert that joins changes no window and no key.
LEMMA JoinDistinct == WalkTypes /\ DistinctWindows /\ JoinWindow => DistinctWindows'
<1> SUFFICES ASSUME WalkTypes, DistinctWindows, JoinWindow PROVE DistinctWindows'
  OBVIOUS
<1>1. /\ phase = "cut" /\ groups # <<>> /\ groups[1].left # <<>> /\ TakeAlert
      /\ batch' = batch /\ windows' = windows /\ phase' = phase
  BY DEF JoinWindow
<1>2. Len(groups') = Len(groups) /\ \A i \in 1..Len(groups) : groups'[i].key = groups[i].key
  <2>1. /\ Len(groups') = Len(groups) /\ groups'[1].key = groups[1].key
        /\ \A i \in 2..Len(groups) : groups'[i] = groups[i]
    BY <1>1, TakenAlert
  <2>2. \A i \in 1..Len(groups) : i = 1 \/ i \in 2..Len(groups)
    BY <1>1, HeadGroup
  <2> QED
    BY <2>1, <2>2
<1> QED
  BY <1>1, <1>2 DEF DistinctWindows

\* A split adds a window with an id of its own.
LEMMA SplitDistinct == WalkTypes /\ DistinctWindows /\ SplitWindow => DistinctWindows'
<1> SUFFICES ASSUME WalkTypes, DistinctWindows, SplitWindow PROVE DistinctWindows'
  OBVIOUS
<1>1. /\ phase = "cut" /\ groups # <<>> /\ groups[1].left # <<>> /\ TakeAlert
      /\ batch' = batch /\ windows' = Closed /\ phase' = phase
      /\ batch.mode # "fixed" /\ current # <<>>
  BY DEF SplitWindow, Splits
<1>2. Len(groups') = Len(groups) /\ \A i \in 1..Len(groups) : groups'[i].key = groups[i].key
  <2>1. /\ Len(groups') = Len(groups) /\ groups'[1].key = groups[1].key
        /\ \A i \in 2..Len(groups) : groups'[i] = groups[i]
    BY <1>1, TakenAlert
  <2>2. \A i \in 1..Len(groups) : i = 1 \/ i \in 2..Len(groups)
    BY <1>1, HeadGroup
  <2> QED
    BY <2>1, <2>2
<1>3. PICK w \in BuiltWindows :
        /\ Len(windows') = Len(windows) + 1
        /\ \A i \in 1..Len(windows) : windows'[i] = windows[i]
        /\ windows'[Len(windows) + 1] = w /\ w.id[1] = Len(windows)
        /\ \A i, j \in 1..Len(windows') : windows'[i].id = windows'[j].id => i = j
  BY <1>1, ClosedIsNew
<1>4. \A i \in 1..Len(windows') : windows'[i].id[1] = i - 1
  <2> TAKE i \in 1..Len(windows')
  <2>1. Len(windows) \in Nat
    BY DEF WalkTypes
  <2>2. CASE i \in 1..Len(windows)
    BY <1>1, <1>3, <2>2 DEF DistinctWindows
  <2>3. CASE i = Len(windows) + 1
    BY <1>3, <2>1, <2>3
  <2> QED
    BY <1>3, <2>1, <2>2, <2>3
<1> QED
  BY <1>1, <1>2, <1>3, <1>4 DEF DistinctWindows

\* The end of a group adds its last window and takes its key away.
LEMMA EndGroupDistinct == WalkTypes /\ DistinctWindows /\ EndGroup => DistinctWindows'
<1> SUFFICES ASSUME WalkTypes, DistinctWindows, EndGroup PROVE DistinctWindows'
  OBVIOUS
<1>1. /\ phase = "cut" /\ groups # <<>> /\ groups[1].left = <<>>
      /\ batch' = batch /\ windows' = Closed /\ phase' = phase /\ groups' = Tail(groups)
  BY DEF EndGroup
<1>2. /\ groups \in Seq(KeyedGroups) /\ 1 \in 1..Len(groups) /\ Len(groups) \in Nat
      /\ Len(windows) \in Nat
  BY <1>1, HeadGroup DEF WalkTypes
<1>3. current # <<>>
  BY <1>1, <1>2 DEF WalkTypes
<1>4. Len(groups') = Len(groups) - 1 /\ \A i \in 1..Len(groups') : groups'[i] = groups[i + 1]
  BY <1>1, <1>2
<1>5. PICK w \in BuiltWindows :
        /\ Len(windows') = Len(windows) + 1
        /\ \A i \in 1..Len(windows) : windows'[i] = windows[i]
        /\ windows'[Len(windows) + 1] = w /\ w.id[2] = groups[1].key
        /\ batch.mode # "fixed" => w.id[1] = Len(windows)
        /\ \A i, j \in 1..Len(windows') : windows'[i].id = windows'[j].id => i = j
  BY <1>1, <1>3, ClosedIsNew
<1>6. \A i, j \in 1..Len(groups') : groups'[i].key = groups'[j].key => i = j
  <2> TAKE i, j \in 1..Len(groups')
  <2>1. i + 1 \in 1..Len(groups) /\ j + 1 \in 1..Len(groups)
    BY <1>2, <1>4
  <2>2. groups[i + 1].key = groups[j + 1].key => i + 1 = j + 1
    BY <2>1 DEF DistinctWindows
  <2> QED
    BY <1>4, <2>2
<1>7. ASSUME NEW i \in 1..Len(windows')
      PROVE  IF batch.mode = "fixed" THEN \A j \in 1..Len(groups') : windows'[i].id[2] # groups'[j].key
             ELSE windows'[i].id[1] = i - 1
  <2>1. \A j \in 1..Len(groups') : /\ j + 1 \in 1..Len(groups) /\ j + 1 # 1
                                   /\ groups'[j].key = groups[j + 1].key
    BY <1>2, <1>4
  <2>2. CASE i \in 1..Len(windows)
    BY <1>1, <1>5, <2>1, <2>2 DEF DistinctWindows
  <2>3. CASE i = Len(windows) + 1
    <3>1. \A j \in 1..Len(groups') : groups'[j].key # groups[1].key
      BY <1>2, <2>1 DEF DistinctWindows
    <3>2. i - 1 = Len(windows)
      BY <1>2, <2>3
    <3> QED
      BY <1>5, <2>3, <3>1, <3>2
  <2> QED
    BY <1>2, <1>5, <2>2, <2>3
<1> QED
  BY <1>1, <1>5, <1>6, <1>7 DEF DistinctWindows

\* Every step keeps the ids apart.
LEMMA DistinctStep ==
  WalkTypes /\ DistinctWindows /\ [AdmissionNext]_admissionVars => DistinctWindows'
<1> SUFFICES ASSUME WalkTypes, DistinctWindows, [AdmissionNext]_admissionVars
             PROVE  DistinctWindows'
  OBVIOUS
<1>1. CASE SortWindows
  <2>1. phase' # "cut" /\ groups' = groups
    BY <1>1 DEF SortWindows
  <2>2. PICK p \in [1..Len(windows) -> 1..Len(windows)] :
          /\ \A k \in 1..Len(windows) : windows'[k] = windows[p[k]]
          /\ \A j, k \in 1..Len(windows) : p[j] = p[k] => j = k
    BY <1>1, SortedWindows
  <2>3. Len(windows') = Len(windows)
    BY <1>1, SortedWindows
  <2>4. \A i, j \in 1..Len(windows') : windows'[i].id = windows'[j].id => i = j
    <3> TAKE i, j \in 1..Len(windows')
    <3>1. p[i] \in 1..Len(windows) /\ p[j] \in 1..Len(windows)
      BY <2>2, <2>3
    <3>2. windows[p[i]].id = windows[p[j]].id => p[i] = p[j]
      BY <3>1 DEF DistinctWindows
    <3> QED
      BY <2>2, <2>3, <3>2
  <2> QED
    BY <2>1, <2>4 DEF DistinctWindows
<1>2. CASE UNCHANGED <<batch, groups, windows>> /\ (phase' = "cut" => phase = "cut")
  BY <1>2 DEF DistinctWindows
<1>3. CASE AdmitHighValue \/ EndFloor \/ AdmitByGain \/ EndSpending
  BY <1>2, <1>3 DEF AdmitHighValue, EndFloor, AdmitByGain, EndSpending, Select, walkVars
<1>4. CASE UNCHANGED admissionVars
  BY <1>2, <1>4 DEF admissionVars, walkVars
<1> QED
  BY <1>1, <1>3, <1>4, JoinDistinct, SplitDistinct, EndGroupDistinct DEF AdmissionNext

\* The ids are apart in every state.
LEMMA WindowsDistinct == AdmissionSpec => []DistinctWindows
<1>1. AdmissionInit => DistinctWindows
  <2> SUFFICES ASSUME AdmissionInit PROVE DistinctWindows
    OBVIOUS
  <2>1. batch \in Cases /\ groups = GroupsOf(batch) /\ windows = <<>>
    BY DEF AdmissionInit
  <2>2. \A i, j \in 1..Len(groups) : groups[i].key = groups[j].key => i = j
    BY <2>1, GroupsListed
  <2>3. Len(windows) = 0 /\ 1..0 = {}
    BY <2>1
  <2> QED
    BY <2>2, <2>3 DEF DistinctWindows
<1> QED
  BY <1>1, DistinctStep, WalkTyped, PTL DEF AdmissionSpec

-----------------------------------------------------------------------------
(* The budget. *)

\* The atoms of the first n selected windows.
CoveredBy(n) == UNION {DOMAIN selected[j].atoms : j \in 1..n}

\* What the selected windows show to models.
Shown == UNION {RepresentativesOf(w) : w \in Elements(selected)}

AllHigh == \A w \in Elements(selected) : w.high > 0

\* What is selected is from the windows, and every selection is paid for.
SpendTypes ==
  /\ selected \in Seq(BuiltWindows) /\ used \in Nat /\ Len(selected) <= used
  /\ covered = CoveredBy(Len(selected))
  /\ Elements(selected) \subseteq Elements(windows)
  /\ (phase = "cut" => selected = <<>>) /\ (selected = <<>> => used = 0)
  /\ IsFiniteSet(Shown) /\ Cardinality(Shown) <= used

\* No window is selected twice, and each adds an atom.
SpendOnce ==
  \A i \in 1..Len(selected) : /\ \A j \in 1..(i - 1) : selected[j].id # selected[i].id
                              /\ DOMAIN selected[i].atoms \ CoveredBy(i - 1) # {}

\* Calls beyond the budget have a reason, and the floor is complete when it ends.
SpendReason ==
  /\ used > Budget => (batch.floor /\ AllHigh) \/ Len(selected) <= 1
  /\ batch.budget = 0 => AllHigh
  /\ phase = "floor" => batch.floor /\ AllHigh
  /\ (phase \in {"spend", "done"} /\ batch.floor) =>
       \A w \in Elements(windows) : w.high > 0 => w \in Elements(selected)

\* The budget is a number, and none without a share.
LEMMA BudgetIsNumber ==
  ASSUME WalkTypes
  PROVE  Budget \in Int /\ Budget >= 0 /\ (batch.budget = 0 => Budget = 0)
<1> DEFINE n == Len(windows) * Smaller(batch.budget, 100)
           calls == Rounded(n, 100)
<1>1. /\ Len(windows) \in Nat /\ Smaller(batch.budget, 100) \in Nat
      /\ batch.budget = 0 => Smaller(batch.budget, 100) = 0
  BY CaseTypes DEF WalkTypes, Smaller
<1>2. \A i, j \in Nat : i * j \in Nat
  OBVIOUS
<1>3. n \in Nat
  BY <1>1, <1>2
<1>4. \A i \in Nat : i * 0 = 0
  OBVIOUS
<1>5. batch.budget = 0 => n = 0
  BY <1>1, <1>4
<1> HIDE DEF n
<1>6. calls \in Int /\ 0 <= calls
  <2>1. n \in Int /\ 100 * 0 <= n
    BY <1>3
  <2> QED
    BY <2>1, RoundedBounds
<1>7. n = 0 => calls = 0
  BY DEF Rounded
<1>8. Budget = IF batch.budget > 0 /\ calls = 0 /\ windows # <<>> THEN 1 ELSE calls
  BY DEF Budget, n
<1> HIDE DEF calls
<1> QED
  BY <1>1, <1>5, <1>6, <1>7, <1>8

\* What a selection does to what is selected.
LEMMA SelectedGrows ==
  ASSUME SpendTypes, NEW w \in BuiltWindows, Select(w)
  PROVE  /\ selected' \in Seq(BuiltWindows) /\ Len(selected') = Len(selected) + 1
         /\ \A i \in 1..Len(selected) : selected'[i] = selected[i]
         /\ selected'[Len(selected) + 1] = w
         /\ Elements(selected') = Elements(selected) \cup {w}
         /\ used' = used + Cost(w) /\ windows' = windows /\ batch' = batch
         /\ \A n \in 0..Len(selected) : CoveredBy(n)' = CoveredBy(n)
         /\ covered' = CoveredBy(Len(selected))'
<1>1. /\ selected' = Append(selected, w) /\ covered' = covered \cup DOMAIN w.atoms
      /\ used' = used + Cost(w) /\ windows' = windows /\ batch' = batch
  BY DEF Select, walkVars
<1> DEFINE n == Len(selected)
<1>2. selected \in Seq(BuiltWindows) /\ n \in Nat /\ covered = CoveredBy(n)
  BY DEF SpendTypes
<1>3. /\ selected' \in Seq(BuiltWindows) /\ Len(selected') = n + 1
      /\ \A i \in 1..n : selected'[i] = selected[i]
      /\ selected'[n + 1] = w
  BY <1>1, <1>2
<1>4. Elements(selected') = Elements(selected) \cup {w}
  <2>1. \A i \in 1..(n + 1) : i \in 1..n \/ i = n + 1
    BY <1>2
  <2>2. 1..n \subseteq 1..(n + 1) /\ n + 1 \in 1..(n + 1)
    BY <1>2
  <2> QED
    BY <1>3, <2>1, <2>2 DEF Elements
<1> HIDE DEF n
<1>5. ASSUME NEW m \in 0..n PROVE CoveredBy(m)' = CoveredBy(m)
  <2>1. \A j \in 1..m : selected'[j] = selected[j]
    BY <1>2, <1>3
  <2> QED
    BY <2>1 DEF CoveredBy
<1>6. covered' = CoveredBy(Len(selected))'
  <2>1. \A j : j \in 1..(n + 1) <=> j \in 1..n \/ j = n + 1
    BY <1>2
  <2>2. \A j \in 1..n : DOMAIN selected'[j].atoms = DOMAIN selected[j].atoms
    BY <1>3
  <2> DEFINE L == UNION {DOMAIN selected'[j].atoms : j \in 1..(n + 1)}
             K == UNION {DOMAIN selected[j].atoms : j \in 1..n}
             M == DOMAIN selected'[n + 1].atoms
  <2>4. \A x : x \in L <=> \E j \in 1..(n + 1) : x \in DOMAIN selected'[j].atoms
    OBVIOUS
  <2>5. \A x : x \in K <=> \E j \in 1..n : x \in DOMAIN selected[j].atoms
    OBVIOUS
  <2> HIDE DEF L, K
  <2>6. \A x : x \in L <=> x \in K \/ x \in M
    BY <2>1, <2>2, <2>4, <2>5, Zenon
  <2> HIDE DEF M
  <2>3. L = K \cup M
    BY <2>6
  <2> QED
    BY <1>1, <1>2, <1>3, <2>3 DEF CoveredBy, L, K, M
<1> QED
  BY <1>1, <1>2, <1>3, <1>4, <1>5, <1>6 DEF n

\* A selection is paid for.
LEMMA SelectTypes ==
  ASSUME WalkTypes, SpendTypes, NEW w \in BuiltWindows, w \in Elements(windows), Select(w),
         phase' # "cut"
  PROVE  SpendTypes'
<1> DEFINE n == Len(selected)
           more == RepresentativesOf(w)
<1>1. /\ selected' \in Seq(BuiltWindows) /\ Len(selected') = n + 1
      /\ Elements(selected') = Elements(selected) \cup {w}
      /\ used' = used + Cost(w) /\ windows' = windows /\ batch' = batch
      /\ covered' = CoveredBy(Len(selected))'
  BY SelectedGrows
<1>2. /\ used \in Nat /\ n \in Nat /\ n <= used /\ IsFiniteSet(Shown)
      /\ Cardinality(Shown) <= used /\ Elements(selected) \subseteq Elements(windows)
  BY DEF SpendTypes
<1>3. /\ Cost(w) \in Nat /\ Cost(w) >= 1 /\ IsFiniteSet(more) /\ Cardinality(more) \in Nat
      /\ Cardinality(more) <= Cost(w)
  BY CostIsNumber DEF WalkTypes
<1>4. Shown' = Shown \cup more
  <2>1. Shown' = UNION {RepresentativesOf(v) : v \in Elements(selected')}
    BY DEF Shown, RepresentativesOf, Elements
  <2> QED
    BY <1>1, <2>1 DEF Shown
<1>5. /\ IsFiniteSet(Shown \cup more)
      /\ Cardinality(Shown \cup more) =
           Cardinality(Shown) + Cardinality(more) - Cardinality(Shown \cap more)
      /\ Cardinality(Shown) \in Nat /\ Cardinality(Shown \cap more) \in Nat
  <2>1. IsFiniteSet(Shown \cap more)
    BY <1>2, FS_Intersection
  <2> HIDE DEF more
  <2> QED
    BY <1>2, <1>3, <2>1, FS_Union, FS_CardinalityType
<1>6. IsFiniteSet(Shown') /\ Cardinality(Shown') <= used'
  <2>1. Cardinality(Shown \cup more) <= used + Cost(w)
    BY <1>2, <1>3, <1>5
  <2> QED
    BY <1>1, <1>4, <1>5, <2>1
<1>7. used' \in Nat /\ n + 1 <= used'
  BY <1>1, <1>2, <1>3
<1>10. BuiltWindows' = BuiltWindows
  BY <1>1, SameBatch
<1>11. Elements(selected') \subseteq Elements(windows')
  BY <1>1, <1>2
<1>12. (Elements(selected) \subseteq Elements(windows))'
  BY <1>11 DEF Elements
<1> QED
  BY <1>1, <1>2, <1>6, <1>7, <1>10, <1>12 DEF SpendTypes

\* A selection adds a window and an atom.
LEMMA SelectOnce ==
  ASSUME WalkTypes, DistinctWindows, SpendTypes, SpendOnce, NEW w \in BuiltWindows,
         w \in Elements(windows), w \notin Elements(selected), Select(w),
         w.high > 0 \/ Gain(w) > 0
  PROVE  SpendOnce'
<1> DEFINE n == Len(selected)
<1>1. /\ Len(selected') = n + 1 /\ \A i \in 1..n : selected'[i] = selected[i]
      /\ selected'[n + 1] = w
      /\ \A m \in 0..n : CoveredBy(m)' = CoveredBy(m)
  BY SelectedGrows
<1>2. /\ selected \in Seq(BuiltWindows) /\ n \in Nat /\ covered = CoveredBy(n)
      /\ Elements(selected) \subseteq Elements(windows) /\ windows \in Seq(BuiltWindows)
  BY DEF SpendTypes, WalkTypes
<1> HIDE DEF n
<1>3. \A j \in 1..n : selected[j] \in BuiltWindows /\ selected[j].id # w.id
  <2> TAKE j \in 1..n
  <2>1. selected[j] \in Elements(selected) /\ selected[j] \in BuiltWindows
    BY <1>2 DEF Elements, n
  <2>2. PICK i \in 1..Len(windows) : windows[i] = selected[j]
    BY <1>2, <2>1, ElementsOf
  <2>3. PICK k \in 1..Len(windows) : windows[k] = w
    BY <1>2, ElementsOf
  <2>4. i # k
    BY <2>1, <2>2, <2>3
  <2> QED
    BY <2>1, <2>2, <2>3, <2>4 DEF DistinctWindows
<1>4. DOMAIN w.atoms \ CoveredBy(n) # {}
  <2>1. CASE w.high > 0
    <3> DEFINE k == <<"occurrence", w.id>>
    <3>1. k \in DOMAIN w.atoms
      BY <2>1, AtomsAre
    <3>2. \A j \in 1..n : k \notin DOMAIN selected[j].atoms
      BY <1>3, AtomsAre
    <3> HIDE DEF k
    <3>3. k \notin CoveredBy(n)
      BY <3>2 DEF CoveredBy
    <3> QED
      BY <3>1, <3>3
  <2>2. CASE Gain(w) > 0
    BY <1>2, <2>2, RankNumbers DEF WalkTypes
  <2> QED
    BY <2>1, <2>2
<1>5. ASSUME NEW i \in 1..(n + 1)
      PROVE  /\ \A j \in 1..(i - 1) : selected'[j].id # selected'[i].id
             /\ DOMAIN selected'[i].atoms \ CoveredBy(i - 1)' # {}
  <2>1. i - 1 \in 0..n /\ \A j \in 1..(i - 1) : j \in 1..n
    BY <1>2
  <2>2. CASE i \in 1..n
    <3>1. /\ \A j \in 1..(i - 1) : selected[j].id # selected[i].id
          /\ DOMAIN selected[i].atoms \ CoveredBy(i - 1) # {}
      BY <2>2 DEF SpendOnce, n
    <3> QED
      BY <1>1, <2>1, <2>2, <3>1
  <2>3. CASE i = n + 1
    <3>1. i - 1 = n
      BY <1>2, <2>3
    <3>2. CoveredBy(i - 1)' = CoveredBy(n)
      BY <1>1, <2>1, <3>1
    <3> QED
      BY <1>1, <1>3, <1>4, <2>1, <2>3, <3>2
  <2> QED
    BY <1>2, <2>2, <2>3
<1> QED
  BY <1>1, <1>5 DEF SpendOnce, CoveredBy

\* A selection has a reason.
LEMMA SelectReason ==
  ASSUME WalkTypes, SpendTypes, SpendReason, AdmitHighValue \/ AdmitByGain
  PROVE  SpendReason'
<1>1. PICK w \in BuiltWindows :
        /\ Select(w) /\ phase' = phase
        /\ AdmitHighValue => phase = "floor" /\ w.high > 0
        /\ AdmitByGain => phase = "spend" /\ used < Budget /\ Gain(w) > 0 /\ Fits(w)
  BY SelectionTakes
<1>2. /\ Len(selected') = Len(selected) + 1 /\ Elements(selected') = Elements(selected) \cup {w}
      /\ used' = used + Cost(w) /\ windows' = windows /\ batch' = batch
  BY <1>1, SelectedGrows
<1>3. /\ Budget' = Budget /\ AllHigh' = (\A v \in Elements(selected') : v.high > 0)
      /\ Elements(windows') = Elements(windows)
  BY <1>2 DEF Budget, AllHigh, Elements
<1>4. /\ used \in Nat /\ Budget \in Int /\ Cost(w) \in Nat /\ Cost(w) >= 1
      /\ Len(selected) \in Nat /\ Len(selected) <= used
      /\ (batch.budget = 0 => Budget = 0)
  BY BudgetIsNumber, CostIsNumber DEF SpendTypes, WalkTypes
<1>5. (phase \in {"spend", "done"} /\ batch.floor) =>
        \A v \in Elements(windows) : v.high > 0 => v \in Elements(selected')
  BY <1>2 DEF SpendReason
<1>6. CASE AdmitHighValue
  <2>1. batch.floor /\ \A v \in Elements(selected') : v.high > 0
    BY <1>1, <1>2, <1>6 DEF SpendReason, AllHigh
  <2> QED
    BY <1>1, <1>2, <1>3, <1>5, <2>1 DEF SpendReason, AllHigh, Elements
<1>7. CASE AdmitByGain
  <2>1. phase = "spend" /\ used < Budget /\ Fits(w)
    BY <1>1, <1>7
  <2>2. batch.budget # 0
    BY <1>4, <2>1
  <2>3. used' > Budget => Len(selected') <= 1
    <3>1. CASE used + Cost(w) <= Budget
      BY <1>2, <1>4, <3>1
    <3>2. CASE used = 0
      BY <1>2, <1>4, <3>2
    <3> QED
      BY <2>1, <3>1, <3>2 DEF Fits
  <2> QED
    BY <1>1, <1>2, <1>3, <1>5, <2>1, <2>2, <2>3 DEF SpendReason, Elements
<1> QED
  BY <1>6, <1>7

\* What is selected and why, in every state.
SpendKept == SpendTypes /\ SpendOnce /\ SpendReason

\* Every step keeps what is selected and why.
LEMMA SpendStep ==
  WalkTypes /\ DistinctWindows /\ SpendKept /\ [AdmissionNext]_admissionVars => SpendKept'
<1> SUFFICES ASSUME WalkTypes, DistinctWindows, SpendKept, [AdmissionNext]_admissionVars
             PROVE  SpendKept'
  OBVIOUS
<1> USE DEF SpendKept
<1>1. CASE JoinWindow \/ SplitWindow \/ EndGroup \/ SortWindows
  <2>1. /\ phase = "cut" /\ selected' = selected /\ used' = used /\ covered' = covered
        /\ batch' = batch
    BY <1>1 DEF JoinWindow, SplitWindow, EndGroup, SortWindows, budgetVars
  <2>2. /\ selected = <<>> /\ used = 0 /\ used \in Nat /\ covered = CoveredBy(Len(selected))
        /\ IsFiniteSet(Shown) /\ Cardinality(Shown) <= used /\ Len(selected) <= used
        /\ selected \in Seq(BuiltWindows)
    BY <2>1 DEF SpendTypes
  <2>3. Shown' = Shown /\ CoveredBy(Len(selected))' = CoveredBy(Len(selected))
    BY <2>1 DEF Shown, CoveredBy
  <2>4. Elements(selected') = {} /\ Len(selected') = 0 /\ \A i \in 1..0 : FALSE
    BY <2>1, <2>2 DEF Elements
  <2>5. SpendTypes'
    BY <2>1, <2>2, <2>3, <2>4, SameBatch DEF SpendTypes, Elements
  <2>6. SpendOnce'
    BY <2>4 DEF SpendOnce
  <2>7. AllHigh' /\ ~(Len(selected') > 1)
    BY <2>4 DEF AllHigh, Elements
  <2>8. phase' = "cut" \/ (phase' = IF batch.floor THEN "floor" ELSE "spend")
    BY <1>1, <2>1 DEF JoinWindow, SplitWindow, EndGroup, SortWindows
  <2>9. batch.floor \in BOOLEAN
    BY CaseTypes DEF WalkTypes
  <2>10. SpendReason'
    BY <2>1, <2>4, <2>7, <2>8, <2>9 DEF SpendReason
  <2> QED
    BY <2>5, <2>6, <2>10
<1>2. CASE AdmitHighValue \/ AdmitByGain
  <2>1. PICK w \in BuiltWindows :
          /\ w \in Elements(windows) /\ w \notin Elements(selected)
          /\ Select(w) /\ phase' = phase
          /\ AdmitHighValue => phase = "floor" /\ w.high > 0
          /\ AdmitByGain => phase = "spend" /\ used < Budget /\ Gain(w) > 0 /\ Fits(w)
    BY <1>2, SelectionTakes
  <2>2. SpendTypes'
    BY <1>2, <2>1, SelectTypes
  <2>3. SpendOnce'
    BY <1>2, <2>1, SelectOnce
  <2> QED
    BY <1>2, <2>2, <2>3, SelectReason
<1>3. CASE UNCHANGED <<batch, windows, selected, covered, used>> /\ phase' = phase
  <2>1. SpendTypes'
    BY <1>3, SameBatch DEF SpendTypes, Shown, CoveredBy, Elements, RepresentativesOf
  <2>2. SpendOnce'
    BY <1>3 DEF SpendOnce, CoveredBy
  <2>3. /\ Budget' = Budget /\ AllHigh' = AllHigh /\ Elements(windows)' = Elements(windows)
        /\ Elements(selected)' = Elements(selected)
    BY <1>3 DEF Budget, AllHigh, Elements
  <2>4. SpendReason'
    BY <1>3, <2>3 DEF SpendReason
  <2> QED
    BY <2>1, <2>2, <2>4
<1>4. CASE EndFloor \/ EndSpending
  <2>1. /\ UNCHANGED <<batch, windows, selected, covered, used>>
        /\ (phase = "floor" /\ phase' = "spend" /\ HighValueLeft = <<>>)
           \/ (phase = "spend" /\ phase' = "done")
    BY <1>4 DEF EndFloor, EndSpending, walkVars, budgetVars
  <2>2. SpendTypes'
    BY <2>1, SameBatch DEF SpendTypes, Shown, CoveredBy, Elements, RepresentativesOf
  <2>3. SpendOnce'
    BY <2>1 DEF SpendOnce, CoveredBy
  <2>4. phase = "floor" => \A w \in Elements(windows) : w.high > 0 => w \in Elements(selected)
    BY <2>1, LeftIs
  <2>5. /\ Budget' = Budget /\ AllHigh' = AllHigh /\ Elements(windows)' = Elements(windows)
        /\ Elements(selected)' = Elements(selected)
    BY <2>1 DEF Budget, AllHigh, Elements
  <2>6. SpendReason'
    BY <2>1, <2>4, <2>5 DEF SpendReason
  <2> QED
    BY <2>2, <2>3, <2>6
<1>5. CASE UNCHANGED admissionVars
  BY <1>3, <1>5 DEF admissionVars, walkVars, budgetVars
<1> QED
  BY <1>1, <1>2, <1>4, <1>5 DEF AdmissionNext

\* What is selected and why, from the start.
LEMMA SpendingKept == AdmissionSpec => []SpendKept
<1>1. AdmissionInit => SpendKept
  <2> SUFFICES ASSUME AdmissionInit PROVE SpendKept
    OBVIOUS
  <2>1. selected = <<>> /\ covered = {} /\ used = 0 /\ phase = "cut"
    BY DEF AdmissionInit
  <2>2. Elements(selected) = {} /\ Len(selected) = 0 /\ 1..0 = {}
    BY <2>1 DEF Elements
  <2>3. Shown = {} /\ IsFiniteSet(Shown) /\ Cardinality(Shown) = 0
    BY <2>2, FS_EmptySet DEF Shown
  <2>4. SpendTypes
    BY <2>1, <2>2, <2>3 DEF SpendTypes, CoveredBy
  <2>5. SpendOnce
    BY <2>2 DEF SpendOnce
  <2>6. SpendReason
    BY <2>1, <2>2 DEF SpendReason, AllHigh
  <2> QED
    BY <2>4, <2>5, <2>6 DEF SpendKept
<1> QED
  BY <1>1, SpendStep, WalkTyped, WindowsDistinct, PTL DEF AdmissionSpec

\* The budget is kept but for its reasons, no call is charged twice, and every
\* selected window adds to the risk that is covered: admission under a budget.
THEOREM BudgetKept == AdmissionSpec => []BudgetIsKept
<1>1. WalkTypes /\ SpendKept => BudgetIsKept
  <2> SUFFICES ASSUME WalkTypes, SpendKept, phase = "done" PROVE BudgetIsKept
    BY DEF BudgetIsKept
  <2>1. SpendTypes /\ SpendOnce /\ SpendReason
    BY DEF SpendKept
  <2>2. used > Budget => \/ batch.floor /\ \A w \in Elements(selected) : w.high > 0
                         \/ Len(selected) = 1
    <3>1. CASE selected = <<>>
      <4>1. used = 0 /\ Budget \in Int /\ Budget >= 0
        BY <2>1, <3>1, BudgetIsNumber DEF SpendTypes
      <4> QED
        BY <4>1
    <3>2. CASE selected # <<>>
      <4>1. Len(selected) <= 1 => Len(selected) = 1
        <5>1. selected \in Seq(BuiltWindows)
          BY <2>1 DEF SpendTypes
        <5>2. Len(selected) \in Nat /\ Len(selected) # 0
          BY <3>2, <5>1
        <5>3. \A n \in Nat : n # 0 /\ n <= 1 => n = 1
          OBVIOUS
        <5> QED
          BY <5>2, <5>3
      <4> QED
        BY <2>1, <4>1 DEF SpendReason, AllHigh
    <3> QED
      BY <3>1, <3>2
  <2>3. Cardinality(UNION {RepresentativesOf(w) : w \in Elements(selected)}) <= used
    BY <2>1 DEF SpendTypes, Shown
  <2>4. \A i \in 1..Len(selected) :
          LET before == UNION {DOMAIN selected[j].atoms : j \in 1..(i - 1)} IN
          /\ \A j \in 1..(i - 1) : selected[j].id # selected[i].id
          /\ DOMAIN selected[i].atoms \ before # {}
    BY <2>1 DEF SpendOnce, CoveredBy
  <2>5. batch.budget = 0 => \A w \in Elements(selected) : w.high > 0
    BY <2>1 DEF SpendReason, AllHigh
  <2> QED
    BY <2>2, <2>3, <2>4, <2>5 DEF BudgetIsKept
<1> QED
  BY <1>1, WalkTyped, SpendingKept, PTL

-----------------------------------------------------------------------------
(* Faults stay in evidence. *)

\* A window with an alert of high value is for a model, of the high tier, labelled
\* so, and its evidence surface names those alerts.
LEMMA FaultWindow ==
  ASSUME batch \in Cases, NEW w \in BuiltWindows, w.high > 0
  PROVE  LET high == Elements(IdsOf(Picked(w.alerts, IsHighValue))) IN
         /\ w.action = "external" /\ w.tier = "high"
         /\ WeakLabel(w).invoke /\ ~WeakLabel(w).safeSkip
         /\ Len(w.alerts) <= 12 => high \subseteq Elements(w.targets.ids)
         /\ high \cap w.targets.excluded \subseteq
              (IF batch.strategy = "legacy" THEN Elements(IdsOf(Picked(w.alerts, IsTransient)))
               ELSE {})
<1> DEFINE s == w.alerts
           n == batch.limit
           strategy == batch.strategy
           label == w.label
           t == EvidenceTargets(s, label, n, strategy)
           high == Picked(s, IsHighValue)
           transient == Picked(s, IsTransient)
<1>1. /\ s \in Seq(AlertRecords) /\ w.targets = t /\ w.tier = TierOf(w.score, w.label)
      /\ w.action = IF w.label \in ExternalLabels THEN "external" ELSE "local"
  BY WindowIs
<1>2. n \in Nat
  BY CaseTypes
<1>3. label \in {"mixed_fault_and_transient", "external_induced_fault"}
  <2> DEFINE named == WindowLabel(w.high, w.healing, Len(w.alerts), w.recurrence, w.topology,
                                  w.spread)
  <2>1. /\ w.high \in Nat /\ w.healing \in Nat
    BY WindowCounts
  <2>2. w.label = named
    BY WindowIs
  <2>3. w.healing > 0 => named = "mixed_fault_and_transient"
    BY <2>1 DEF WindowLabel
  <2>4. w.healing = 0 => named = "external_induced_fault"
    BY <2>1 DEF WindowLabel
  <2>5. w.healing > 0 \/ w.healing = 0
    BY <2>1
  <2> HIDE DEF named
  <2> QED
    BY <2>2, <2>3, <2>4, <2>5
<1>4. w.action = "external" /\ w.tier = "high"
  BY <1>1, <1>3 DEF ExternalLabels, TierOf, HighRiskLabels
<1>5. WeakLabel(w).invoke /\ ~WeakLabel(w).safeSkip
  <2>1. /\ WeakLabel(w).invoke = (w.high > 0 \/ w.label \in ExternalLabels)
        /\ WeakLabel(w).safeSkip = (/\ ~(w.high > 0 \/ w.label \in ExternalLabels)
                                    /\ w.label # "local_transient_with_pressure")
    BY DEF WeakLabel
  <2> QED
    BY <2>1, Zenon
<1>6. high # <<>>
  <2> DEFINE H == {i \in 1..Len(s) : IsHighValue(s[i])}
  <2>1. \E a \in Elements(s) : IsHighValue(a)
    BY WindowCounts
  <2>2. H # {}
    BY <1>1, <2>1, ElementsOf
  <2>3. H \in SUBSET (1..Len(s)) /\ high = At(s, H)
    BY DEF Picked
  <2> HIDE DEF H, high, s
  <2> QED
    BY <1>1, <2>2, <2>3, PickedNothing
<1> HIDE DEF s, n, strategy, label
<1>7. /\ (high # <<>> /\ Len(s) <= 12) => Elements(IdsOf(high)) \subseteq Elements(t.ids)
      /\ label = "external_induced_fault" => t.excluded = {}
      /\ label = "mixed_fault_and_transient" =>
           /\ t.excluded \subseteq Elements(IdsOf(transient))
           /\ (high # <<>> /\ strategy # "legacy") => t.excluded \cap Elements(IdsOf(high)) = {}
  BY <1>1, <1>2, TargetsAre
<1> HIDE DEF t, high, transient
<1>8. Elements(IdsOf(high)) \cap t.excluded \subseteq
        (IF strategy = "legacy" THEN Elements(IdsOf(transient)) ELSE {})
  BY <1>3, <1>6, <1>7
<1> QED
  BY <1>1, <1>4, <1>5, <1>6, <1>7, <1>8 DEF s, high, transient, strategy

\* A fault is never talked away, from the label of its window to its selection:
\* _window_evidence_targets, build_weak_window_label and the safety floor.
THEOREM FaultStays == AdmissionSpec => []FaultStaysInEvidence
<1>1. WalkTypes /\ SpendKept => FaultStaysInEvidence
  <2> SUFFICES ASSUME WalkTypes, SpendKept PROVE FaultStaysInEvidence
    OBVIOUS
  <2>1. ASSUME NEW w \in Elements(windows)
        PROVE  w \in BuiltWindows /\ batch \in Cases
    BY ElementsOf DEF WalkTypes
  <2>2. ASSUME NEW w \in Elements(windows), w.high > 0, phase \in {"spend", "done"}, batch.floor
        PROVE  w \in Elements(selected)
    BY <2>2 DEF SpendKept, SpendReason
  <2> QED
    BY <2>1, <2>2, FaultWindow DEF FaultStaysInEvidence
<1> QED
  BY <1>1, WalkTyped, SpendingKept, PTL

-----------------------------------------------------------------------------
(* Counting the places of an alert. *)

Occurs(a, s) == Cardinality(Where(a, s))

PlacesIn(a, ws) == UNION {{i} \X Where(a, ws[i].alerts) : i \in 1..Len(ws)}

\* Sets that a function maps onto each other one to one are of one size.
LEMMA SameSize ==
  ASSUME NEW S, IsFiniteSet(S), NEW T, NEW f \in [S -> T],
         \A x, y \in S : f[x] = f[y] => x = y, \A y \in T : \E x \in S : f[x] = y
  PROVE  IsFiniteSet(T) /\ Cardinality(T) = Cardinality(S)
<1>1. f \in Bijection(S, T)
  BY DEF Bijection, Injection, Surjection, IsInjective
<1>2. ExistsBijection(S, T)
  BY <1>1 DEF ExistsBijection
<1> QED
  BY <1>2, FS_Bijection

\* The places of an element in a sequence are a number.
LEMMA OccursNumber ==
  ASSUME NEW X, NEW s \in Seq(X), NEW a
  PROVE  /\ IsFiniteSet(Where(a, s)) /\ Occurs(a, s) \in Nat
         /\ Occurs(a, s) > 0 <=> a \in Elements(s)
<1>1. Where(a, s) \in SUBSET (1..Len(s)) /\ Len(s) \in Nat
  BY DEF Where
<1>2. IsFiniteSet(1..Len(s))
  BY <1>1, FS_Interval
<1>3. IsFiniteSet(Where(a, s))
  BY <1>1, <1>2, FS_Subset
<1>4. /\ Cardinality(Where(a, s)) \in Nat
      /\ (Cardinality(Where(a, s)) > 0 <=> Where(a, s) # {})
  BY <1>1, CountIsNumber
<1>5. Where(a, s) # {} <=> a \in Elements(s)
  BY DEF Where, Elements
<1> QED
  BY <1>3, <1>4, <1>5 DEF Occurs

\* An element that is appended has a place more.
LEMMA OccursAppend ==
  ASSUME NEW X, NEW s \in Seq(X), NEW x \in X, NEW a
  PROVE  Occurs(a, Append(s, x)) = Occurs(a, s) + Bit(x = a)
<1> DEFINE t == Append(s, x)
           n == Len(s)
<1>1. n \in Nat /\ Len(t) = n + 1 /\ t[n + 1] = x /\ \A i \in 1..n : t[i] = s[i]
  OBVIOUS
<1>2. IsFiniteSet(Where(a, s)) /\ Occurs(a, s) \in Nat
  BY OccursNumber
<1> HIDE DEF t
<1>3. \A i : i \in 1..(n + 1) <=> i \in 1..n \/ i = n + 1
  BY <1>1
<1>4. n + 1 \notin Where(a, s)
  BY <1>1 DEF Where
<1>5. CASE x = a
  <2>1. Where(a, t) = Where(a, s) \cup {n + 1}
    BY <1>1, <1>3, <1>5 DEF Where
  <2>2. Cardinality(Where(a, s) \cup {n + 1}) = Cardinality(Where(a, s)) + 1
    BY <1>2, <1>4, FS_AddElement
  <2> QED
    BY <1>5, <2>1, <2>2 DEF Occurs, Bit, t
<1>6. CASE x # a
  <2>1. Where(a, t) = Where(a, s)
    BY <1>1, <1>3, <1>6 DEF Where
  <2> QED
    BY <1>2, <1>6, <2>1 DEF Occurs, Bit, t
<1> QED
  BY <1>5, <1>6

\* An element that is taken from the head has a place less.
LEMMA OccursTail ==
  ASSUME NEW X, NEW s \in Seq(X), s # <<>>, NEW a
  PROVE  Occurs(a, s) = Occurs(a, Tail(s)) + Bit(Head(s) = a)
<1> DEFINE t == Tail(s)
           n == Len(t)
           f == [i \in Where(a, t) |-> i + 1]
           rest == Where(a, s) \ {1}
<1>1. /\ n \in Nat /\ Len(s) = n + 1 /\ t \in Seq(X) /\ s[1] = Head(s)
      /\ \A i \in 1..n : t[i] = s[i + 1]
  OBVIOUS
<1>2. IsFiniteSet(Where(a, t)) /\ IsFiniteSet(Where(a, s)) /\ Occurs(a, t) \in Nat
      /\ Occurs(a, s) \in Nat
  BY <1>1, OccursNumber
<1> HIDE DEF t
<1>3. \A i : i \in rest <=> i \in 2..(n + 1) /\ s[i] = a
  BY <1>1 DEF Where
<1>4. \A i : i \in Where(a, t) <=> i \in 1..n /\ s[i + 1] = a
  BY <1>1 DEF Where
<1>5. \A i \in 1..n : i + 1 \in 2..(n + 1)
  BY <1>1
<1>6. f \in [Where(a, t) -> rest]
  BY <1>3, <1>4, <1>5
<1>7. \A x, y \in Where(a, t) : f[x] = f[y] => x = y
  BY <1>1, <1>4
<1>8. \A y \in rest : \E x \in Where(a, t) : f[x] = y
  <2> TAKE y \in rest
  <2>1. y - 1 \in 1..n /\ (y - 1) + 1 = y
    BY <1>1, <1>3
  <2>2. y - 1 \in Where(a, t) /\ f[y - 1] = y
    BY <1>3, <1>4, <2>1
  <2> QED
    BY <2>2
<1> HIDE DEF f, rest, n
<1>9. Cardinality(rest) = Cardinality(Where(a, t))
  BY <1>2, <1>6, <1>7, <1>8, SameSize
<1>10. Cardinality(rest) = IF 1 \in Where(a, s) THEN Cardinality(Where(a, s)) - 1
                           ELSE Cardinality(Where(a, s))
  BY <1>2, FS_RemoveElement DEF rest
<1>11. 1 \in Where(a, s) <=> Head(s) = a
  BY <1>1 DEF Where
<1> QED
  BY <1>2, <1>9, <1>10, <1>11 DEF Occurs, Bit, t

\* A permuted sequence has each element as often.
LEMMA OccursPermuted ==
  ASSUME NEW X, NEW s \in Seq(X), NEW t \in Seq(X), Len(t) = Len(s), NEW a,
         NEW p \in [1..Len(s) -> 1..Len(s)],
         \A k \in 1..Len(s) : t[k] = s[p[k]],
         \A i \in 1..Len(s) : \E k \in 1..Len(s) : p[k] = i,
         \A j, k \in 1..Len(s) : p[j] = p[k] => j = k
  PROVE  Occurs(a, t) = Occurs(a, s)
<1> DEFINE f == [k \in Where(a, t) |-> p[k]]
<1>1. IsFiniteSet(Where(a, t))
  BY OccursNumber
<1>2. f \in [Where(a, t) -> Where(a, s)]
  BY DEF Where
<1>3. \A x, y \in Where(a, t) : f[x] = f[y] => x = y
  BY DEF Where
<1>4. \A y \in Where(a, s) : \E x \in Where(a, t) : f[x] = y
  <2> TAKE y \in Where(a, s)
  <2>1. PICK k \in 1..Len(s) : p[k] = y
    BY DEF Where
  <2>2. k \in Where(a, t)
    BY <2>1 DEF Where
  <2> QED
    BY <2>1, <2>2
<1> DEFINE S == Where(a, t)
           T == Where(a, s)
<1> HIDE DEF f, S, T
<1>5. IsFiniteSet(S) /\ f \in [S -> T] /\ (\A x, y \in S : f[x] = f[y] => x = y)
      /\ \A y \in T : \E x \in S : f[x] = y
  BY <1>1, <1>2, <1>3, <1>4 DEF S, T
<1>6. Cardinality(T) = Cardinality(S)
  BY <1>5, SameSize
<1> QED
  BY <1>6 DEF Occurs, S, T

\* Picking all places of an element loses none.
LEMMA OccursPicked ==
  ASSUME NEW X, NEW s \in Seq(X), NEW S \in SUBSET (1..Len(s)), NEW a, Where(a, s) \subseteq S
  PROVE  Occurs(a, At(s, S)) = Occurs(a, s)
<1> DEFINE N == Cardinality(S)
           t == At(s, S)
<1>1. N \in Nat /\ t \in Seq(X) /\ Len(t) = N
  BY AtPicks
<1>2. PICK p \in [1..N -> S] :
        /\ t = [k \in 1..N |-> s[p[k]]]
        /\ \A i \in S : \E k \in 1..N : p[k] = i
        /\ \A j, k \in 1..N : j < k => p[j] < p[k]
  BY AtPicks
<1> HIDE DEF N, t
<1> DEFINE f == [k \in Where(a, t) |-> p[k]]
<1>3. \A k \in 1..N : t[k] = s[p[k]] /\ p[k] \in 1..Len(s) /\ p[k] \in S
  BY <1>2
<1>4. IsFiniteSet(Where(a, t))
  BY <1>1, OccursNumber
<1>5. \A k : k \in Where(a, t) <=> k \in 1..N /\ s[p[k]] = a
  BY <1>1, <1>3 DEF Where
<1>6. f \in [Where(a, t) -> Where(a, s)]
  BY <1>3, <1>5 DEF Where
<1>7. \A x, y \in Where(a, t) : f[x] = f[y] => x = y
  <2> TAKE x, y \in Where(a, t)
  <2>1. x \in 1..N /\ y \in 1..N
    BY <1>5
  <2>2. p[x] \in Int /\ p[y] \in Int
    BY <1>3, <2>1
  <2>3. x < y \/ x = y \/ y < x
    BY <1>1, <2>1
  <2> QED
    BY <1>2, <2>1, <2>2, <2>3
<1>8. \A y \in Where(a, s) : \E x \in Where(a, t) : f[x] = y
  <2> TAKE y \in Where(a, s)
  <2>1. PICK k \in 1..N : p[k] = y
    BY <1>2
  <2>2. k \in Where(a, t)
    BY <1>5, <2>1 DEF Where
  <2> QED
    BY <2>1, <2>2
<1> HIDE DEF f
<1>9. Cardinality(Where(a, s)) = Cardinality(Where(a, t))
  BY <1>4, <1>6, <1>7, <1>8, SameSize
<1> QED
  BY <1>9 DEF Occurs, t

\* The places of an alert in windows are pairs, finitely many.
LEMMA PlacesAre ==
  ASSUME NEW ws \in Seq(BuiltWindows), NEW a
  PROVE  /\ \A x : x \in PlacesIn(a, ws) <=>
              \E i \in 1..Len(ws) : \E j \in Where(a, ws[i].alerts) : x = <<i, j>>
         /\ IsFiniteSet(PlacesIn(a, ws)) /\ Cardinality(PlacesIn(a, ws)) \in Nat
         /\ Cardinality(PlacesIn(a, ws)) > 0 <=>
              \E i \in 1..Len(ws) : a \in Elements(ws[i].alerts)
<1> DEFINE f == [i \in 1..Len(ws) |-> {i} \X Where(a, ws[i].alerts)]
<1>1. \A i \in 1..Len(ws) : f[i] = {i} \X Where(a, ws[i].alerts)
  OBVIOUS
<1>2. PlacesIn(a, ws) = UNION {f[i] : i \in 1..Len(ws)}
  BY DEF PlacesIn
<1> HIDE DEF f
<1>3. IsFiniteSet(1..Len(ws))
  <2>1. Len(ws) \in Int /\ 1 \in Int
    OBVIOUS
  <2> QED
    BY <2>1, FS_Interval
<1>4. \A i \in 1..Len(ws) : IsFiniteSet(Where(a, ws[i].alerts))
                            /\ (Occurs(a, ws[i].alerts) > 0 <=> a \in Elements(ws[i].alerts))
                            /\ Occurs(a, ws[i].alerts) \in Nat
  <2> TAKE i \in 1..Len(ws)
  <2>2. ws[i] \in BuiltWindows
    OBVIOUS
  <2>1. ws[i].alerts \in Seq(AlertRecords)
    BY <2>2, WindowIs
  <2> QED
    BY <2>1, OccursNumber
<1>5. \A i \in 1..Len(ws) : IsFiniteSet(f[i])
  <2> TAKE i \in 1..Len(ws)
  <2>1. IsFiniteSet({i}) /\ IsFiniteSet(Where(a, ws[i].alerts))
    BY <1>4, FS_Singleton
  <2> QED
    BY <1>1, <2>1, FS_Product
<1>6. IsFiniteSet(UNION {f[i] : i \in 1..Len(ws)})
  <2>1. IsFiniteSet({f[i] : i \in 1..Len(ws)})
    BY <1>3, ImageIsFinite
  <2>2. \A T \in {f[i] : i \in 1..Len(ws)} : IsFiniteSet(T)
    BY <1>5
  <2> QED
    BY <2>1, <2>2, FS_UNION
<1>7. \A x : x \in PlacesIn(a, ws) <=>
        \E i \in 1..Len(ws) : \E j \in Where(a, ws[i].alerts) : x = <<i, j>>
  <2>1. \A x : x \in PlacesIn(a, ws) <=> \E i \in 1..Len(ws) : x \in f[i]
    BY <1>2
  <2>2. \A i \in 1..Len(ws) : \A x : x \in f[i] <=> \E j \in Where(a, ws[i].alerts) : x = <<i, j>>
    BY <1>1
  <2> QED
    BY <2>1, <2>2
<1>8. IsFiniteSet(PlacesIn(a, ws)) /\ Cardinality(PlacesIn(a, ws)) \in Nat
      /\ (Cardinality(PlacesIn(a, ws)) = 0 <=> PlacesIn(a, ws) = {})
  BY <1>2, <1>6, FS_CardinalityType, FS_EmptySet
<1>9. PlacesIn(a, ws) # {} <=> \E i \in 1..Len(ws) : a \in Elements(ws[i].alerts)
  <2>1. \A i \in 1..Len(ws) : Where(a, ws[i].alerts) # {} <=> a \in Elements(ws[i].alerts)
    BY DEF Where, Elements
  <2> QED
    BY <1>7, <2>1
<1>10. Cardinality(PlacesIn(a, ws)) > 0 <=> PlacesIn(a, ws) # {}
  <2> DEFINE c == Cardinality(PlacesIn(a, ws))
  <2>1. c \in Nat /\ (c = 0 <=> PlacesIn(a, ws) = {})
    BY <1>8
  <2> HIDE DEF c
  <2>2. c > 0 <=> ~(c = 0)
    BY <2>1
  <2>3. c > 0 <=> PlacesIn(a, ws) # {}
    BY <2>1, <2>2, Zenon
  <2> QED
    BY <2>3 DEF c
<1> QED
  BY <1>7, <1>8, <1>9, <1>10

\* A window more adds its places.
LEMMA PlacesAppend ==
  ASSUME NEW ws \in Seq(BuiltWindows), NEW w \in BuiltWindows, NEW a
  PROVE  Cardinality(PlacesIn(a, Append(ws, w))) =
           Cardinality(PlacesIn(a, ws)) + Occurs(a, w.alerts)
<1> DEFINE vs == Append(ws, w)
           n == Len(ws)
           more == {n + 1} \X Where(a, w.alerts)
           P == PlacesIn(a, ws)
           Q == PlacesIn(a, vs)
           W == Where(a, w.alerts)
<1>1. /\ n \in Nat /\ vs \in Seq(BuiltWindows) /\ Len(vs) = n + 1 /\ vs[n + 1] = w
      /\ \A i \in 1..n : vs[i] = ws[i]
  OBVIOUS
<1>2. w.alerts \in Seq(AlertRecords)
  BY WindowIs
<1>3. IsFiniteSet(W) /\ Cardinality(W) \in Nat
  BY <1>2, OccursNumber, FS_CardinalityType
<1>4. IsFiniteSet(more) /\ Cardinality(more) = Cardinality(W)
  <2>1. IsFiniteSet({n + 1}) /\ Cardinality({n + 1}) = 1
    BY FS_Singleton
  <2>2. IsFiniteSet({n + 1} \X W) /\ Cardinality({n + 1} \X W) = 1 * Cardinality(W)
    BY <1>3, <2>1, FS_Product
  <2>3. \A m \in Nat : 1 * m = m
    OBVIOUS
  <2> QED
    BY <1>3, <2>2, <2>3
<1>5. /\ \A x : x \in P <=> \E i \in 1..n : \E j \in Where(a, ws[i].alerts) : x = <<i, j>>
      /\ IsFiniteSet(P) /\ Cardinality(P) \in Nat
  BY PlacesAre
<1>6. \A x : x \in Q <=> \E i \in 1..(n + 1) : \E j \in Where(a, vs[i].alerts) : x = <<i, j>>
  <2> HIDE DEF vs, n
  <2> QED
    BY <1>1, PlacesAre
<1> HIDE DEF vs, P, Q, W
<1>7. \A x : x \in more <=> \E j \in W : x = <<n + 1, j>>
  BY DEF W
<1>8. \A i : i \in 1..(n + 1) <=> i \in 1..n \/ i = n + 1
  BY <1>1
<1> HIDE DEF more, n
<1>9. \A x : x \in Q <=> x \in P \/ x \in more
  <2> TAKE x
  <2>1. x \in Q => x \in P \/ x \in more
    BY <1>1, <1>5, <1>6, <1>7, <1>8 DEF W
  <2>2. x \in P => x \in Q
    BY <1>1, <1>5, <1>6, <1>8
  <2>3. x \in more => x \in Q
    BY <1>1, <1>6, <1>7, <1>8 DEF W
  <2> QED
    BY <2>1, <2>2, <2>3
<1>10. Q = P \cup more /\ P \cap more = {}
  <2>1. \A x \in P : x \notin more
    <3> SUFFICES ASSUME NEW x \in P, x \in more PROVE FALSE
      OBVIOUS
    <3>1. PICK i \in 1..n : \E j \in Where(a, ws[i].alerts) : x = <<i, j>>
      BY <1>5
    <3>2. PICK k \in W : x = <<n + 1, k>>
      BY <1>7
    <3>3. i = n + 1
      BY <3>1, <3>2
    <3> QED
      BY <1>1, <3>3
  <2> QED
    BY <1>9, <2>1
<1>11. Cardinality(P \cup more) = Cardinality(P) + Cardinality(more) - Cardinality(P \cap more)
  BY <1>4, <1>5, FS_Union
<1>12. Cardinality(Q) = Cardinality(P) + Cardinality(W)
  <2>1. Cardinality(P \cap more) = 0
    BY <1>10, FS_EmptySet
  <2>2. Cardinality(Q) = Cardinality(P) + Cardinality(W) - 0
    BY <1>4, <1>10, <1>11, <2>1
  <2> QED
    BY <1>3, <1>5, <2>2
<1> QED
  BY <1>12 DEF Q, P, W, vs, Occurs

\* Permuted windows have each alert as often.
LEMMA PlacesPermuted ==
  ASSUME NEW ws \in Seq(BuiltWindows), NEW vs \in Seq(BuiltWindows), Len(vs) = Len(ws), NEW a,
         NEW p \in [1..Len(ws) -> 1..Len(ws)],
         \A k \in 1..Len(ws) : vs[k] = ws[p[k]],
         \A i \in 1..Len(ws) : \E k \in 1..Len(ws) : p[k] = i,
         \A j, k \in 1..Len(ws) : p[j] = p[k] => j = k
  PROVE  Cardinality(PlacesIn(a, vs)) = Cardinality(PlacesIn(a, ws))
<1> DEFINE Q == PlacesIn(a, vs)
           P == PlacesIn(a, ws)
           f == [x \in Q |-> <<p[x[1]], x[2]>>]
<1>1. /\ \A x : x \in Q <=> \E i \in 1..Len(ws) : \E j \in Where(a, vs[i].alerts) : x = <<i, j>>
      /\ IsFiniteSet(Q)
      /\ \A x : x \in P <=> \E i \in 1..Len(ws) : \E j \in Where(a, ws[i].alerts) : x = <<i, j>>
  <2>1. /\ \A x : x \in Q <=> \E i \in 1..Len(vs) : \E j \in Where(a, vs[i].alerts) : x = <<i, j>>
        /\ IsFiniteSet(Q)
    BY PlacesAre
  <2>2. \A x : x \in P <=> \E i \in 1..Len(ws) : \E j \in Where(a, ws[i].alerts) : x = <<i, j>>
    BY PlacesAre
  <2>3. 1..Len(vs) = 1..Len(ws)
    OBVIOUS
  <2> HIDE DEF Q, P
  <2>4. \A x : x \in Q <=> \E i \in 1..Len(ws) : \E j \in Where(a, vs[i].alerts) : x = <<i, j>>
    <3> TAKE x
    <3>1. ASSUME x \in Q PROVE \E i \in 1..Len(ws) : \E j \in Where(a, vs[i].alerts) : x = <<i, j>>
      <4>1. PICK i \in 1..Len(vs) : \E j \in Where(a, vs[i].alerts) : x = <<i, j>>
        BY <2>1, <3>1
      <4>2. i \in 1..Len(ws)
        BY <2>3
      <4> QED
        BY <4>1, <4>2
    <3>2. ASSUME NEW i \in 1..Len(ws), \E j \in Where(a, vs[i].alerts) : x = <<i, j>> PROVE x \in Q
      <4>1. i \in 1..Len(vs)
        BY <2>3
      <4> QED
        BY <2>1, <3>2, <4>1
    <3> QED
      BY <3>1, <3>2
  <2> QED
    BY <2>1, <2>2, <2>4, Zenon
<1> HIDE DEF Q, P
<1>2. \A x \in Q : /\ x[1] \in 1..Len(ws) /\ x[2] \in Where(a, vs[x[1]].alerts)
                   /\ x = <<x[1], x[2]>> /\ f[x] = <<p[x[1]], x[2]>>
  BY <1>1
<1>3. \A x \in Q : f[x] \in P
  <2> TAKE x \in Q
  <2>1. p[x[1]] \in 1..Len(ws) /\ x[2] \in Where(a, ws[p[x[1]]].alerts)
    BY <1>2
  <2> QED
    BY <1>1, <1>2, <2>1
<1>4. f \in [Q -> P]
  BY <1>3
<1>5. \A x, y \in Q : f[x] = f[y] => x = y
  <2> SUFFICES ASSUME NEW x \in Q, NEW y \in Q, f[x] = f[y] PROVE x = y
    OBVIOUS
  <2>1. p[x[1]] = p[y[1]] /\ x[2] = y[2]
    BY <1>2
  <2>2. x[1] = y[1]
    BY <1>2, <2>1
  <2>3. x = <<x[1], x[2]>> /\ y = <<y[1], y[2]>>
    BY <1>2
  <2> QED
    BY <2>1, <2>2, <2>3, Zenon
<1>6. \A y \in P : \E x \in Q : f[x] = y
  <2> TAKE y \in P
  <2>1. PICK i \in 1..Len(ws) : \E j \in Where(a, ws[i].alerts) : y = <<i, j>>
    BY <1>1
  <2>2. PICK j \in Where(a, ws[i].alerts) : y = <<i, j>>
    BY <2>1
  <2>3. PICK k \in 1..Len(ws) : p[k] = i
    OBVIOUS
  <2>4. j \in Where(a, vs[k].alerts)
    BY <2>2, <2>3
  <2>5. <<k, j>> \in Q
    BY <1>1, <2>4
  <2>6. f[<<k, j>>] = <<p[k], j>>
    BY <2>5
  <2> QED
    BY <2>2, <2>3, <2>5, <2>6
<1> HIDE DEF f
<1>7. Cardinality(P) = Cardinality(Q)
  BY <1>1, <1>4, <1>5, <1>6, SameSize
<1> QED
  BY <1>7 DEF P, Q

-----------------------------------------------------------------------------
(* What the steps of the walk do. *)

\* The elements of a sequence that grows, or is taken from.
LEMMA GrownElements ==
  ASSUME NEW X, NEW s \in Seq(X)
  PROVE  /\ \A x \in X : Elements(Append(s, x)) = Elements(s) \cup {x}
         /\ s # <<>> => Elements(Tail(s)) \subseteq Elements(s) /\ Head(s) \in Elements(s)
<1>1. ASSUME NEW x \in X PROVE Elements(Append(s, x)) = Elements(s) \cup {x}
  <2> DEFINE t == Append(s, x)
             n == Len(s)
  <2>1. /\ t \in Seq(X) /\ n \in Nat /\ Len(t) = n + 1 /\ t[n + 1] = x
        /\ \A i \in 1..n : t[i] = s[i]
    OBVIOUS
  <2> HIDE DEF t
  <2>2. \A e : e \in Elements(t) <=> \E i \in 1..(n + 1) : t[i] = e
    BY <2>1, ElementsOf
  <2>3. \A e : e \in Elements(s) <=> \E i \in 1..n : s[i] = e
    BY ElementsOf
  <2>4. \A i : i \in 1..(n + 1) <=> i \in 1..n \/ i = n + 1
    BY <2>1
  <2> HIDE DEF n
  <2>5. \A e : e \in Elements(t) <=> e \in Elements(s) \/ e = x
    BY <2>1, <2>2, <2>3, <2>4
  <2> QED
    BY <2>5 DEF t
<1>2. ASSUME s # <<>> PROVE Elements(Tail(s)) \subseteq Elements(s) /\ Head(s) \in Elements(s)
  <2>1. /\ Len(Tail(s)) = Len(s) - 1 /\ Len(s) \in Nat /\ 1 \in 1..Len(s) /\ Head(s) = s[1]
        /\ \A i \in 1..(Len(s) - 1) : i + 1 \in 1..Len(s) /\ Tail(s)[i] = s[i + 1]
    BY <1>2
  <2> QED
    BY <2>1 DEF Elements
<1> QED
  BY <1>1, <1>2

\* A step that takes an alert leaves the keys.
LEMMA TakeDoes ==
  ASSUME WalkTypes, JoinWindow \/ SplitWindow
  PROVE  LET h == Head(groups[1].left) IN
         /\ phase = "cut" /\ phase' = phase /\ batch' = batch
         /\ Len(groups) \in Nat /\ 1 \in 1..Len(groups) /\ groups # <<>>
         /\ groups[1].left \in Seq(AlertRecords) /\ groups[1].left # <<>> /\ h \in AlertRecords
         /\ Len(groups') = Len(groups)
         /\ groups'[1].key = groups[1].key /\ groups'[1].idle = groups[1].idle
         /\ groups'[1].left = Tail(groups[1].left)
         /\ \A i \in 1..Len(groups) : i # 1 => groups'[i] = groups[i]
         /\ \A i \in 1..Len(groups) : groups'[i].key = groups[i].key
<1>1. /\ phase = "cut" /\ groups # <<>> /\ groups[1].left # <<>> /\ TakeAlert
      /\ batch' = batch /\ phase' = phase
  BY DEF JoinWindow, SplitWindow
<1>2. /\ Len(groups) \in Nat /\ 1 \in 1..Len(groups) /\ groups[1].left \in Seq(AlertRecords)
  BY <1>1, HeadGroup
<1>3. /\ Len(groups') = Len(groups)
      /\ groups'[1].key = groups[1].key /\ groups'[1].idle = groups[1].idle
      /\ groups'[1].left = Tail(groups[1].left)
      /\ \A i \in 2..Len(groups) : groups'[i] = groups[i]
      /\ Head(groups[1].left) \in AlertRecords
  BY <1>1, TakenAlert
<1>4. \A i \in 1..Len(groups) : i # 1 => i \in 2..Len(groups)
  BY <1>2
<1> QED
  BY <1>1, <1>2, <1>3, <1>4

\* An alert that joins is the last of the open window.
LEMMA JoinDoes ==
  ASSUME WalkTypes, JoinWindow
  PROVE  LET a == Head(groups[1].left)
             ts == TimeFor(a) IN
         /\ current' = Append(current, a) /\ current \in Seq(AlertRecords) /\ windows' = windows
         /\ ~Splits(a, ts) /\ start' = (IF current = <<>> THEN ts ELSE start) /\ last' = ts
BY DEF JoinWindow, WalkTypes

\* A split closes the window and opens one.
LEMMA SplitDoes ==
  ASSUME WalkTypes, SplitWindow
  PROVE  LET a == Head(groups[1].left)
             ts == TimeFor(a) IN
         /\ Splits(a, ts) /\ current' = <<a>> /\ start' = ts /\ last' = ts
         /\ current \in Seq(AlertRecords) /\ current # <<>>
         /\ \E w \in BuiltWindows :
              /\ windows' = Append(windows, w) /\ w.alerts = current /\ w.gap = groups[1].idle
              /\ w.longest = Larger(groups[1].idle, Longest)
              /\ w.id[1] = Len(windows) /\ w.id[2] = groups[1].key
<1>1. /\ Splits(Head(groups[1].left), TimeFor(Head(groups[1].left))) /\ windows' = Closed
      /\ groups # <<>>
      /\ current' = <<Head(groups[1].left)>> /\ start' = TimeFor(Head(groups[1].left))
      /\ last' = TimeFor(Head(groups[1].left))
  BY DEF SplitWindow
<1>2. current # <<>> /\ batch.mode # "fixed" /\ current \in Seq(AlertRecords)
  BY <1>1 DEF Splits, WalkTypes
<1>3. \E w \in BuiltWindows :
        /\ windows' = Append(windows, w) /\ w.alerts = current /\ w.gap = groups[1].idle
        /\ w.longest = Larger(groups[1].idle, Longest)
        /\ w.id[1] = Len(windows) /\ w.id[2] = groups[1].key
  BY <1>1, <1>2, ClosedWindow
<1> QED
  BY <1>1, <1>2, <1>3

\* The end of a group closes its last window.
LEMMA EndDoes ==
  ASSUME WalkTypes, EndGroup
  PROVE  /\ phase = "cut" /\ phase' = phase /\ batch' = batch
         /\ Len(groups) \in Nat /\ 1 \in 1..Len(groups) /\ groups # <<>> /\ groups[1].left = <<>>
         /\ Len(groups') = Len(groups) - 1
         /\ \A i \in 1..Len(groups') : i + 1 \in 1..Len(groups) /\ groups'[i] = groups[i + 1]
         /\ current' = <<>> /\ start' = NoTime /\ last' = NoTime
         /\ current \in Seq(AlertRecords) /\ current # <<>>
         /\ \E w \in BuiltWindows :
              /\ windows' = Append(windows, w) /\ w.alerts = current /\ w.gap = groups[1].idle
              /\ w.longest = Larger(groups[1].idle, Longest)
              /\ (batch.mode # "fixed" => w.id[1] = Len(windows)) /\ w.id[2] = groups[1].key
<1>1. /\ phase = "cut" /\ groups # <<>> /\ groups[1].left = <<>>
      /\ windows' = Closed /\ groups' = Tail(groups) /\ current' = <<>>
      /\ start' = NoTime /\ last' = NoTime /\ batch' = batch /\ phase' = phase
  BY DEF EndGroup
<1>2. groups \in Seq(KeyedGroups) /\ 1 \in 1..Len(groups) /\ Len(groups) \in Nat
  BY <1>1, HeadGroup DEF WalkTypes
<1>3. current # <<>> /\ current \in Seq(AlertRecords)
  BY <1>1, <1>2 DEF WalkTypes
<1>4. /\ Len(groups') = Len(groups) - 1
      /\ \A i \in 1..Len(groups') : i + 1 \in 1..Len(groups) /\ groups'[i] = groups[i + 1]
  BY <1>1, <1>2
<1>5. \E w \in BuiltWindows :
        /\ windows' = Append(windows, w) /\ w.alerts = current /\ w.gap = groups[1].idle
        /\ w.longest = Larger(groups[1].idle, Longest)
        /\ (batch.mode # "fixed" => w.id[1] = Len(windows)) /\ w.id[2] = groups[1].key
  BY <1>1, <1>3, ClosedWindow
<1> QED
  BY <1>1, <1>2, <1>3, <1>4, <1>5

\* All other steps leave the walk alone, and the windows but for their order.
LEMMA RestDoes ==
  ASSUME WalkTypes, SortWindows \/ AdmitHighValue \/ EndFloor \/ AdmitByGain \/ EndSpending
                    \/ UNCHANGED admissionVars
  PROVE  /\ batch' = batch /\ groups' = groups /\ current' = current /\ start' = start
         /\ last' = last /\ Elements(windows') = Elements(windows)
         /\ windows' \in Seq(BuiltWindows)
         /\ (phase' = "cut" => phase = "cut" /\ windows' = windows)
         /\ (phase' # "cut" /\ phase = "cut" => groups = <<>>)
<1>1. CASE SortWindows
  <2>1. Elements(windows') = Elements(windows) /\ windows' \in Seq(BuiltWindows)
    BY <1>1, SortedWindows
  <2> QED
    BY <1>1, <2>1 DEF SortWindows
<1>2. CASE AdmitHighValue \/ EndFloor \/ AdmitByGain \/ EndSpending \/ UNCHANGED admissionVars
  <2>1. UNCHANGED <<batch, walkVars>> /\ (phase = "cut" => phase' = phase)
        /\ (phase' = "cut" => phase = "cut")
    BY <1>2 DEF AdmitHighValue, EndFloor, AdmitByGain, EndSpending, Select, admissionVars
  <2> QED
    BY <2>1 DEF walkVars, WalkTypes
<1> QED
  BY <1>1, <1>2

-----------------------------------------------------------------------------
(* Windows keep to their groups. *)

\* Alerts of a group, of the open window and of a window have the key it goes by.
KeysKept ==
  /\ \A i \in 1..Len(groups) : \A a \in Elements(groups[i].left) :
       GroupKey(batch, a) = groups[i].key
  /\ \A a \in Elements(current) : GroupKey(batch, a) = groups[1].key
  /\ \A w \in Elements(windows) : \A a \in Elements(w.alerts) : GroupKey(batch, a) = w.id[2]
  /\ phase # "cut" => groups = <<>>

\* The groups a walk starts with hold the alerts of their keys.
LEMMA KeysInit == AdmissionInit => KeysKept
<1> SUFFICES ASSUME AdmissionInit PROVE KeysKept
  OBVIOUS
<1>1. /\ batch \in Cases /\ groups = GroupsOf(batch) /\ current = <<>> /\ windows = <<>>
      /\ phase = "cut"
  BY DEF AdmissionInit
<1>2. Elements(<<>>) = {}
  BY DEF Elements
<1>3. ASSUME NEW i \in 1..Len(groups), NEW a \in Elements(groups[i].left)
      PROVE  GroupKey(batch, a) = groups[i].key
  <2> DEFINE k == groups[i].key
             s == Sorted(batch.alerts)
             S == {j \in 1..Len(s) : GroupKey(batch, s[j]) = k}
  <2>1. groups[i] = GroupOf(batch, k)
    BY <1>1, GroupsListed
  <2>2. groups[i].left = At(s, S)
    BY <1>1, <2>1, GroupTypes
  <2>3. s \in Seq(AlertRecords)
    BY <1>1, CaseTypes, SortedElements
  <2> HIDE DEF s
  <2>4. S \in SUBSET (1..Len(s))
    OBVIOUS
  <2>5. \A j \in S : GroupKey(batch, s[j]) = k
    OBVIOUS
  <2> HIDE DEF S, k
  <2>6. Elements(groups[i].left) = {s[j] : j \in S}
    BY <2>2, <2>3, <2>4, PickedElements
  <2> QED
    BY <1>3, <2>5, <2>6 DEF k
<1> QED
  BY <1>1, <1>2, <1>3 DEF KeysKept

\* A step that takes an alert takes one of the key of the first group.
LEMMA TakeKeys ==
  ASSUME WalkTypes, KeysKept, JoinWindow \/ SplitWindow
  PROVE  /\ GroupKey(batch, Head(groups[1].left)) = groups[1].key
         /\ \A i \in 1..Len(groups') : \A a \in Elements(groups'[i].left) :
              GroupKey(batch', a) = groups'[i].key
         /\ groups'[1].key = groups[1].key /\ batch' = batch /\ phase' = "cut"
<1> DEFINE h == Head(groups[1].left)
<1>1. /\ phase = "cut" /\ phase' = phase /\ batch' = batch
      /\ 1 \in 1..Len(groups)
      /\ groups[1].left \in Seq(AlertRecords) /\ groups[1].left # <<>>
      /\ Len(groups') = Len(groups)
      /\ groups'[1].left = Tail(groups[1].left)
      /\ \A i \in 1..Len(groups) : i # 1 => groups'[i] = groups[i]
      /\ \A i \in 1..Len(groups) : groups'[i].key = groups[i].key
  BY TakeDoes
<1>2. /\ Elements(Tail(groups[1].left)) \subseteq Elements(groups[1].left)
      /\ h \in Elements(groups[1].left)
  BY <1>1, GrownElements
<1>3. ASSUME NEW i \in 1..Len(groups) PROVE Elements(groups'[i].left) \subseteq Elements(groups[i].left)
  <2>1. CASE i = 1
    BY <1>1, <1>2, <2>1
  <2>2. CASE i # 1
    BY <1>1, <2>2
  <2> QED
    BY <2>1, <2>2
<1> QED
  BY <1>1, <1>2, <1>3 DEF KeysKept

\* Every step keeps the keys.
LEMMA KeysStep == WalkTypes /\ KeysKept /\ [AdmissionNext]_admissionVars => KeysKept'
<1> SUFFICES ASSUME WalkTypes, KeysKept, [AdmissionNext]_admissionVars PROVE KeysKept'
  OBVIOUS
<1>1. /\ current \in Seq(AlertRecords) /\ windows \in Seq(BuiltWindows)
      /\ \A w \in BuiltWindows : Elements(Append(windows, w)) = Elements(windows) \cup {w}
      /\ \A a \in AlertRecords : Elements(Append(current, a)) = Elements(current) \cup {a}
  BY GrownElements DEF WalkTypes
<1>2. \A a : Elements(<<a>>) = {a} /\ Elements(<<>>) = {}
  BY DEF Elements
<1>3. CASE JoinWindow
  <2>1. /\ GroupKey(batch, Head(groups[1].left)) = groups[1].key
        /\ \A i \in 1..Len(groups') : \A a \in Elements(groups'[i].left) :
             GroupKey(batch', a) = groups'[i].key
        /\ groups'[1].key = groups[1].key /\ batch' = batch /\ phase' = "cut"
    BY <1>3, TakeKeys
  <2>2. /\ current' = Append(current, Head(groups[1].left)) /\ windows' = windows
        /\ Head(groups[1].left) \in AlertRecords
    BY <1>3, JoinDoes, TakeDoes
  <2> QED
    BY <1>1, <2>1, <2>2 DEF KeysKept
<1>4. CASE SplitWindow
  <2>1. /\ GroupKey(batch, Head(groups[1].left)) = groups[1].key
        /\ \A i \in 1..Len(groups') : \A a \in Elements(groups'[i].left) :
             GroupKey(batch', a) = groups'[i].key
        /\ groups'[1].key = groups[1].key /\ batch' = batch /\ phase' = "cut"
    BY <1>4, TakeKeys
  <2>2. PICK w \in BuiltWindows :
          windows' = Append(windows, w) /\ w.alerts = current /\ w.id[2] = groups[1].key
    BY <1>4, SplitDoes
  <2>3. Elements(current') = {Head(groups[1].left)}
    BY <1>2, <1>4, SplitDoes
  <2>4. Elements(windows') = Elements(windows) \cup {w}
    BY <1>1, <2>2
  <2> QED
    BY <2>1, <2>2, <2>3, <2>4 DEF KeysKept
<1>5. CASE EndGroup
  <2>1. /\ phase = "cut" /\ phase' = phase /\ batch' = batch
        /\ \A i \in 1..Len(groups') : i + 1 \in 1..Len(groups) /\ groups'[i] = groups[i + 1]
        /\ current' = <<>>
    BY <1>5, EndDoes
  <2>2. PICK w \in BuiltWindows :
          windows' = Append(windows, w) /\ w.alerts = current /\ w.id[2] = groups[1].key
    BY <1>5, EndDoes
  <2> QED
    BY <1>1, <1>2, <2>1, <2>2 DEF KeysKept
<1>6. CASE SortWindows \/ AdmitHighValue \/ EndFloor \/ AdmitByGain \/ EndSpending
           \/ UNCHANGED admissionVars
  <2>1. /\ batch' = batch /\ groups' = groups /\ current' = current
        /\ Elements(windows') = Elements(windows)
        /\ (phase' # "cut" /\ phase = "cut" => groups = <<>>)
    BY <1>6, RestDoes
  <2> QED
    BY <2>1 DEF KeysKept
<1> QED
  BY <1>3, <1>4, <1>5, <1>6 DEF AdmissionNext

\* The keys in every state.
LEMMA KeysAreKept == AdmissionSpec => []KeysKept
BY KeysInit, KeysStep, WalkTyped, PTL DEF AdmissionSpec

-----------------------------------------------------------------------------
(* Windows lose no alert and have none twice. *)

\* The places an alert has in the windows and in the open one.
HereOf(a) == Cardinality(PlacesIn(a, windows)) + Occurs(a, current)

\* With the places in the group of its key, they are those in the batch.
PlacesKept ==
  \A a \in AlertRecords :
    /\ \A i \in 1..Len(groups) : groups[i].key = GroupKey(batch, a) =>
         HereOf(a) + Occurs(a, groups[i].left) = Occurs(a, batch.alerts)
    /\ (\A i \in 1..Len(groups) : groups[i].key # GroupKey(batch, a)) =>
         HereOf(a) = Occurs(a, batch.alerts)

\* No alert has a place in nothing, one in a sequence of itself.
LEMMA OccursSmall ==
  ASSUME NEW a
  PROVE  Occurs(a, <<>>) = 0 /\ \A h : Occurs(a, <<h>>) = Bit(h = a)
<1>1. Where(a, <<>>) = {}
  BY DEF Where
<1>2. Cardinality({}) = 0
  BY FS_EmptySet
<1>3. ASSUME NEW h PROVE Occurs(a, <<h>>) = Bit(h = a)
  <2>1. CASE h = a
    <3>1. Where(a, <<h>>) = {1}
      BY <2>1 DEF Where
    <3>2. Cardinality({1}) = 1
      BY FS_Singleton
    <3> QED
      BY <2>1, <3>1, <3>2 DEF Occurs, Bit
  <2>2. CASE h # a
    <3>1. Where(a, <<h>>) = {}
      BY <2>2 DEF Where
    <3> QED
      BY <1>2, <2>2, <3>1 DEF Occurs, Bit
  <2> QED
    BY <2>1, <2>2
<1> QED
  BY <1>1, <1>2, <1>3 DEF Occurs

\* A sorted sequence has each alert as often.
LEMMA OccursSorted ==
  ASSUME NEW s \in Seq(AlertRecords), NEW a
  PROVE  Occurs(a, Sorted(s)) = Occurs(a, s)
<1> DEFINE keys == [i \in 1..Len(s) |-> <<s[i].ts, s[i].id>>]
           t == Sorted(s)
<1>1. \A i \in 1..Len(s) : s[i].ts \in Int /\ s[i].id \in Int
  BY AlertFields
<1>2. keys \in [1..Len(s) -> [1..2 -> Int]]
  BY <1>1
<1>3. t = Ordered(s, keys)
  BY DEF Sorted
<1>4. t \in Seq(AlertRecords) /\ Len(t) = Len(s)
  BY SortedElements
<1> HIDE DEF keys, t
<1>5. PICK p \in [1..Len(s) -> 1..Len(s)] :
        /\ Ordered(s, keys) = [k \in 1..Len(s) |-> s[p[k]]]
        /\ \A i \in 1..Len(s) : \E k \in 1..Len(s) : p[k] = i
        /\ \A j, k \in 1..Len(s) : p[j] = p[k] => j = k
        /\ \A j, k \in 1..Len(s) : j < k => ~Above(keys[p[j]], keys[p[k]])
  BY <1>2, OrderedBy
<1>6. \A k \in 1..Len(s) : t[k] = s[p[k]]
  BY <1>3, <1>5
<1>7. Occurs(a, t) = Occurs(a, s)
  BY <1>4, <1>5, <1>6, OccursPermuted
<1> QED
  BY <1>7 DEF t

\* At the start all places are in the groups.
LEMMA PlacesInit == AdmissionInit => PlacesKept
<1> SUFFICES ASSUME AdmissionInit, NEW a \in AlertRecords
             PROVE  /\ \A i \in 1..Len(groups) : groups[i].key = GroupKey(batch, a) =>
                         HereOf(a) + Occurs(a, groups[i].left) = Occurs(a, batch.alerts)
                    /\ (\A i \in 1..Len(groups) : groups[i].key # GroupKey(batch, a)) =>
                         HereOf(a) = Occurs(a, batch.alerts)
  BY DEF PlacesKept
<1>1. /\ batch \in Cases /\ groups = GroupsOf(batch) /\ current = <<>> /\ windows = <<>>
  BY DEF AdmissionInit
<1>2. batch.alerts \in Seq(AlertRecords)
  BY <1>1, CaseTypes
<1>3. HereOf(a) = 0
  <2>1. PlacesIn(a, <<>>) = {}
    BY DEF PlacesIn
  <2>2. Cardinality({}) = 0 /\ Occurs(a, <<>>) = 0
    BY FS_EmptySet, OccursSmall
  <2> QED
    BY <1>1, <2>1, <2>2 DEF HereOf
<1>4. ASSUME NEW i \in 1..Len(groups), groups[i].key = GroupKey(batch, a)
      PROVE  Occurs(a, groups[i].left) = Occurs(a, batch.alerts)
  <2> DEFINE k == groups[i].key
             s == Sorted(batch.alerts)
             S == {j \in 1..Len(s) : GroupKey(batch, s[j]) = k}
  <2>1. groups[i] = GroupOf(batch, k)
    BY <1>1, GroupsListed
  <2>2. groups[i].left = At(s, S)
    BY <1>1, <2>1, GroupTypes
  <2>3. s \in Seq(AlertRecords) /\ Occurs(a, s) = Occurs(a, batch.alerts)
    BY <1>2, SortedElements, OccursSorted
  <2> HIDE DEF s
  <2>4. S \in SUBSET (1..Len(s)) /\ Where(a, s) \subseteq S
    BY <1>4 DEF Where
  <2> HIDE DEF S
  <2>5. Occurs(a, At(s, S)) = Occurs(a, s)
    BY <2>3, <2>4, OccursPicked
  <2> QED
    BY <2>2, <2>3, <2>5
<1>5. ASSUME \A i \in 1..Len(groups) : groups[i].key # GroupKey(batch, a)
      PROVE  Occurs(a, batch.alerts) = 0
  <2>1. a \notin Elements(batch.alerts)
    BY <1>1, <1>5, GroupsListed DEF GroupKeys
  <2>2. /\ Occurs(a, batch.alerts) \in Nat
        /\ (Occurs(a, batch.alerts) > 0 <=> a \in Elements(batch.alerts))
    BY <1>2, OccursNumber
  <2> DEFINE c == Occurs(a, batch.alerts)
  <2>3. c \in Nat /\ ~(c > 0)
    BY <2>1, <2>2, Zenon
  <2> HIDE DEF c
  <2>4. c = 0
    BY <2>3
  <2> QED
    BY <2>4 DEF c
<1>6. Occurs(a, batch.alerts) \in Nat
  BY <1>2, OccursNumber
<1> QED
  BY <1>3, <1>4, <1>5, <1>6

\* The numbers that are compared.
LEMMA HereIsNumber ==
  ASSUME WalkTypes, NEW a \in AlertRecords
  PROVE  /\ HereOf(a) \in Nat /\ Occurs(a, current) \in Nat
         /\ Cardinality(PlacesIn(a, windows)) \in Nat
         /\ \A i \in 1..Len(groups) : Occurs(a, groups[i].left) \in Nat
<1>1. /\ Occurs(a, current) \in Nat /\ Cardinality(PlacesIn(a, windows)) \in Nat
  BY OccursNumber, PlacesAre DEF WalkTypes
<1>2. \A i \in 1..Len(groups) : groups[i].left \in Seq(AlertRecords)
  <2> TAKE i \in 1..Len(groups)
  <2>1. groups[i] \in KeyedGroups
    BY DEF WalkTypes
  <2> QED
    BY <2>1 DEF KeyedGroups
<1>3. \A i \in 1..Len(groups) : Occurs(a, groups[i].left) \in Nat
  BY <1>2, OccursNumber
<1> QED
  BY <1>1, <1>3 DEF HereOf

\* An alert that is taken has a place more here and one less in its group.
LEMMA TakePlaces ==
  ASSUME WalkTypes, DistinctWindows, KeysKept, PlacesKept, JoinWindow \/ SplitWindow,
         \A a \in AlertRecords : HereOf(a)' = HereOf(a) + Bit(Head(groups[1].left) = a)
  PROVE  PlacesKept'
<1> DEFINE h == Head(groups[1].left)
<1>1. /\ batch' = batch /\ Len(groups) \in Nat /\ 1 \in 1..Len(groups)
      /\ groups[1].left \in Seq(AlertRecords) /\ groups[1].left # <<>>
      /\ Len(groups') = Len(groups)
      /\ groups'[1].left = Tail(groups[1].left)
      /\ \A i \in 1..Len(groups) : i # 1 => groups'[i] = groups[i]
      /\ \A i \in 1..Len(groups) : groups'[i].key = groups[i].key
  BY TakeDoes
<1>2. GroupKey(batch, h) = groups[1].key
  BY TakeKeys
<1>3. \A i \in 1..Len(groups) : groups[i].key = groups[1].key => i = 1
  BY <1>1 DEF DistinctWindows
<1>4. SUFFICES ASSUME NEW a \in AlertRecords
               PROVE  /\ \A i \in 1..Len(groups) : groups[i].key = GroupKey(batch, a) =>
                           HereOf(a)' + Occurs(a, groups'[i].left) = Occurs(a, batch.alerts)
                      /\ (\A i \in 1..Len(groups) : groups[i].key # GroupKey(batch, a)) =>
                           HereOf(a)' = Occurs(a, batch.alerts)
  BY <1>1 DEF PlacesKept
<1>5. /\ HereOf(a) \in Nat /\ \A i \in 1..Len(groups) : Occurs(a, groups[i].left) \in Nat
  BY HereIsNumber
<1>6. Occurs(a, groups[1].left) = Occurs(a, Tail(groups[1].left)) + Bit(h = a)
  BY <1>1, OccursTail
<1>7. Occurs(a, Tail(groups[1].left)) \in Nat
  <2>1. Tail(groups[1].left) \in Seq(AlertRecords)
    BY <1>1
  <2> QED
    BY <2>1, OccursNumber
<1>8. HereOf(a)' = HereOf(a) + Bit(h = a)
  OBVIOUS
<1>9. GroupKey(batch, a) # groups[1].key => Bit(h = a) = 0
  BY <1>2 DEF Bit
<1>10. Bit(h = a) \in Nat
  BY DEF Bit
<1> HIDE DEF h
<1>11. ASSUME NEW i \in 1..Len(groups), groups[i].key = GroupKey(batch, a)
       PROVE  HereOf(a)' + Occurs(a, groups'[i].left) = Occurs(a, batch.alerts)
  <2>1. HereOf(a) + Occurs(a, groups[i].left) = Occurs(a, batch.alerts)
    BY <1>11 DEF PlacesKept
  <2>2. CASE i = 1
    <3>1. HereOf(a) + (Occurs(a, Tail(groups[1].left)) + Bit(h = a)) = Occurs(a, batch.alerts)
      BY <1>6, <2>1, <2>2
    <3>2. (HereOf(a) + Bit(h = a)) + Occurs(a, Tail(groups[1].left)) = Occurs(a, batch.alerts)
      BY <1>5, <1>7, <1>10, <3>1
    <3> QED
      BY <1>1, <1>8, <2>2, <3>2
  <2>3. CASE i # 1
    <3>1. groups[i].key # groups[1].key
      BY <1>3, <2>3
    <3>2. Bit(h = a) = 0
      BY <1>9, <1>11, <3>1
    <3>3. groups'[i] = groups[i] /\ HereOf(a)' = HereOf(a)
      BY <1>1, <1>5, <1>8, <2>3, <3>2
    <3> QED
      BY <2>1, <3>3
  <2> QED
    BY <2>2, <2>3
<1>12. ASSUME \A i \in 1..Len(groups) : groups[i].key # GroupKey(batch, a)
       PROVE  HereOf(a)' = Occurs(a, batch.alerts)
  <2>1. HereOf(a) = Occurs(a, batch.alerts)
    BY <1>12 DEF PlacesKept
  <2>2. Bit(h = a) = 0
    BY <1>1, <1>9, <1>12
  <2> QED
    BY <1>5, <1>8, <2>1, <2>2
<1> QED
  BY <1>11, <1>12

\* Every step keeps the places.
LEMMA PlacesStep ==
  WalkTypes /\ DistinctWindows /\ KeysKept /\ PlacesKept /\ [AdmissionNext]_admissionVars
    => PlacesKept'
<1> SUFFICES ASSUME WalkTypes, DistinctWindows, KeysKept, PlacesKept,
                    [AdmissionNext]_admissionVars
             PROVE  PlacesKept'
  OBVIOUS
<1>1. current \in Seq(AlertRecords) /\ windows \in Seq(BuiltWindows)
  BY DEF WalkTypes
<1>2. ASSUME NEW w \in BuiltWindows, w.alerts = current, NEW a \in AlertRecords
      PROVE  Cardinality(PlacesIn(a, Append(windows, w))) = HereOf(a)
  BY <1>1, <1>2, PlacesAppend DEF HereOf
<1>3. CASE JoinWindow
  <2> DEFINE h == Head(groups[1].left)
  <2>1. current' = Append(current, h) /\ windows' = windows /\ h \in AlertRecords
    BY <1>3, JoinDoes, TakeDoes
  <2> HIDE DEF h
  <2>2. ASSUME NEW a \in AlertRecords PROVE HereOf(a)' = HereOf(a) + Bit(h = a)
    <3>1. Occurs(a, current') = Occurs(a, current) + Bit(h = a)
      BY <1>1, <2>1, OccursAppend
    <3>2. HereOf(a)' = Cardinality(PlacesIn(a, windows)) + Occurs(a, current')
      BY <2>1 DEF HereOf
    <3>3. /\ Cardinality(PlacesIn(a, windows)) \in Nat /\ Occurs(a, current) \in Nat
          /\ Bit(h = a) \in Nat
      BY HereIsNumber DEF Bit
    <3> QED
      BY <3>1, <3>2, <3>3 DEF HereOf
  <2> QED
    BY <1>3, <2>2, TakePlaces DEF h
<1>4. CASE SplitWindow
  <2> DEFINE h == Head(groups[1].left)
  <2>1. current' = <<h>> /\ \E w \in BuiltWindows : windows' = Append(windows, w) /\ w.alerts = current
    BY <1>4, SplitDoes
  <2>2. PICK w \in BuiltWindows : windows' = Append(windows, w) /\ w.alerts = current
    BY <2>1
  <2> HIDE DEF h
  <2>3. ASSUME NEW a \in AlertRecords PROVE HereOf(a)' = HereOf(a) + Bit(h = a)
    <3>1. Cardinality(PlacesIn(a, windows')) = HereOf(a)
      BY <1>2, <2>2
    <3>2. Occurs(a, current') = Bit(h = a)
      BY <2>1, OccursSmall
    <3> QED
      BY <3>1, <3>2 DEF HereOf
  <2> QED
    BY <1>4, <2>3, TakePlaces DEF h
<1>5. CASE EndGroup
  <2>1. /\ batch' = batch /\ Len(groups) \in Nat /\ 1 \in 1..Len(groups)
        /\ groups[1].left = <<>> /\ Len(groups') = Len(groups) - 1
        /\ \A i \in 1..Len(groups') : i + 1 \in 1..Len(groups) /\ groups'[i] = groups[i + 1]
        /\ current' = <<>>
    BY <1>5, EndDoes
  <2>2. PICK w \in BuiltWindows : windows' = Append(windows, w) /\ w.alerts = current
    BY <1>5, EndDoes
  <2>3. ASSUME NEW a \in AlertRecords PROVE HereOf(a)' = HereOf(a)
    <3>1. Cardinality(PlacesIn(a, windows')) = HereOf(a) /\ Occurs(a, current') = 0
      BY <1>2, <2>1, <2>2, OccursSmall
    <3>2. HereOf(a)' = HereOf(a) + 0 /\ HereOf(a) \in Nat
      BY <3>1, HereIsNumber DEF HereOf
    <3> QED
      BY <3>2
  <2>4. ASSUME NEW a \in AlertRecords, NEW i \in 1..Len(groups'), groups'[i].key = GroupKey(batch, a)
        PROVE  HereOf(a)' + Occurs(a, groups'[i].left) = Occurs(a, batch.alerts)
    BY <2>1, <2>3, <2>4 DEF PlacesKept
  <2>5. ASSUME NEW a \in AlertRecords,
               \A i \in 1..Len(groups') : groups'[i].key # GroupKey(batch, a)
        PROVE  HereOf(a)' = Occurs(a, batch.alerts)
    <3>1. CASE groups[1].key = GroupKey(batch, a)
      <4>1. HereOf(a) + Occurs(a, groups[1].left) = Occurs(a, batch.alerts)
        BY <2>1, <3>1 DEF PlacesKept
      <4>2. Occurs(a, groups[1].left) = 0 /\ HereOf(a) \in Nat
        BY <2>1, OccursSmall, HereIsNumber
      <4> QED
        BY <2>3, <4>1, <4>2
    <3>2. CASE groups[1].key # GroupKey(batch, a)
      <4>1. ASSUME NEW i \in 1..Len(groups) PROVE groups[i].key # GroupKey(batch, a)
        <5>1. i = 1 \/ (i - 1 \in 1..Len(groups') /\ (i - 1) + 1 = i)
          BY <2>1
        <5>2. CASE i - 1 \in 1..Len(groups') /\ (i - 1) + 1 = i
          <6>1. groups'[i - 1] = groups[(i - 1) + 1]
            BY <2>1, <5>2
          <6>2. groups'[i - 1] = groups[i]
            BY <5>2, <6>1
          <6> QED
            BY <2>5, <5>2, <6>2
        <5> QED
          BY <3>2, <5>1, <5>2
      <4>2. HereOf(a) = Occurs(a, batch.alerts)
        BY <4>1 DEF PlacesKept
      <4> QED
        BY <2>3, <4>2
    <3> QED
      BY <3>1, <3>2
  <2> QED
    BY <2>1, <2>4, <2>5 DEF PlacesKept
<1>6. CASE SortWindows \/ AdmitHighValue \/ EndFloor \/ AdmitByGain \/ EndSpending
           \/ UNCHANGED admissionVars
  <2>1. batch' = batch /\ groups' = groups /\ current' = current
    BY <1>6, RestDoes
  <2>2. ASSUME NEW a \in AlertRecords
        PROVE  Cardinality(PlacesIn(a, windows')) = Cardinality(PlacesIn(a, windows))
    <3>1. CASE SortWindows
      <4>1. windows' \in Seq(BuiltWindows) /\ Len(windows') = Len(windows)
        BY <3>1, SortedWindows
      <4>2. PICK p \in [1..Len(windows) -> 1..Len(windows)] :
              /\ \A k \in 1..Len(windows) : windows'[k] = windows[p[k]]
              /\ \A i \in 1..Len(windows) : \E k \in 1..Len(windows) : p[k] = i
              /\ \A j, k \in 1..Len(windows) : p[j] = p[k] => j = k
        BY <3>1, SortedWindows
      <4> QED
        BY <1>1, <4>1, <4>2, PlacesPermuted
    <3>2. CASE ~SortWindows
      <4>1. windows' = windows
        BY <1>6, <3>2 DEF AdmitHighValue, EndFloor, AdmitByGain, EndSpending, Select, walkVars,
                          admissionVars
      <4> QED
        BY <4>1
    <3> QED
      BY <3>1, <3>2
  <2>3. \A a \in AlertRecords : HereOf(a)' = HereOf(a)
    BY <2>1, <2>2 DEF HereOf
  <2> QED
    BY <2>1, <2>3 DEF PlacesKept
<1> QED
  BY <1>3, <1>4, <1>5, <1>6 DEF AdmissionNext

\* The places in every state.
LEMMA PlacesAreKept == AdmissionSpec => []PlacesKept
BY PlacesInit, PlacesStep, WalkTyped, WindowsDistinct, KeysAreKept, PTL DEF AdmissionSpec

-----------------------------------------------------------------------------
(* The times of the walk. *)

\* Alerts in the order of their times; those without a time come first.
Ascending(s) == \A m, n \in 1..Len(s) : m < n => s[m].ts <= s[n].ts

\* What is left of a group is in order, the open window comes before it and has
\* its own times; a gap that is learnt is no smaller than the least.
TimesKept ==
  /\ \A i \in 1..Len(groups) : Ascending(groups[i].left)
  /\ Ascending(current)
  /\ IF current = <<>> THEN start = NoTime /\ last = NoTime
     ELSE /\ start = current[1].ts /\ last = current[Len(current)].ts
          /\ \A m \in 1..Len(groups[1].left) : last <= groups[1].left[m].ts
  /\ batch.mode \notin {"fixed", "session"} =>
       \A i \in 1..Len(groups) : LeastGap(batch.gap) <= groups[i].idle

\* Alerts picked of those in order are in order.
LEMMA PickedAscends ==
  ASSUME NEW s \in Seq(AlertRecords), Ascending(s), NEW S \in SUBSET (1..Len(s))
  PROVE  Ascending(At(s, S))
<1> DEFINE N == Cardinality(S)
           t == At(s, S)
<1>1. N \in Nat /\ t \in Seq(AlertRecords) /\ Len(t) = N
  BY AtPicks
<1>2. PICK p \in [1..N -> S] :
        /\ t = [k \in 1..N |-> s[p[k]]]
        /\ \A i \in S : \E k \in 1..N : p[k] = i
        /\ \A j, k \in 1..N : j < k => p[j] < p[k]
  BY AtPicks
<1> HIDE DEF N, t
<1>3. ASSUME NEW m \in 1..N, NEW n \in 1..N, m < n PROVE t[m].ts <= t[n].ts
  <2>1. p[m] \in 1..Len(s) /\ p[n] \in 1..Len(s) /\ p[m] < p[n]
    BY <1>2, <1>3
  <2>2. t[m] = s[p[m]] /\ t[n] = s[p[n]]
    BY <1>2
  <2> QED
    BY <2>1, <2>2 DEF Ascending
<1> QED
  BY <1>1, <1>3 DEF Ascending, t

\* Sorted alerts are in the order of their times, and so are those picked of them.
LEMMA SortedAscends ==
  ASSUME NEW s \in Seq(AlertRecords), NEW S \in SUBSET (1..Len(Sorted(s)))
  PROVE  Ascending(Sorted(s)) /\ Ascending(At(Sorted(s), S))
<1> DEFINE keys == [i \in 1..Len(s) |-> <<s[i].ts, s[i].id>>]
           t == Sorted(s)
<1>1. \A i \in 1..Len(s) : s[i].ts \in Int /\ s[i].id \in Int
  BY AlertFields
<1>2. keys \in [1..Len(s) -> [1..2 -> Int]]
      /\ \A i \in 1..Len(s) : keys[i] = <<s[i].ts, s[i].id>>
  BY <1>1
<1>3. t = Ordered(s, keys)
  BY DEF Sorted
<1>4. t \in Seq(AlertRecords) /\ Len(t) = Len(s)
  BY SortedElements
<1> HIDE DEF keys, t
<1>5. PICK p \in [1..Len(s) -> 1..Len(s)] :
        /\ Ordered(s, keys) = [k \in 1..Len(s) |-> s[p[k]]]
        /\ \A i \in 1..Len(s) : \E k \in 1..Len(s) : p[k] = i
        /\ \A j, k \in 1..Len(s) : p[j] = p[k] => j = k
        /\ \A j, k \in 1..Len(s) : j < k => ~Above(keys[p[j]], keys[p[k]])
  BY <1>2, OrderedBy
<1>6. \A k \in 1..Len(s) : t[k] = s[p[k]] /\ p[k] \in 1..Len(s)
  BY <1>3, <1>5
<1>7. ASSUME NEW j \in 1..Len(s), NEW k \in 1..Len(s), j < k PROVE t[j].ts <= t[k].ts
  <2> DEFINE u == keys[p[j]]
             v == keys[p[k]]
  <2>1. ~Above(u, v)
    BY <1>5, <1>7
  <2>2. u = <<t[j].ts, t[j].id>> /\ v = <<t[k].ts, t[k].id>>
    BY <1>2, <1>6
  <2>3. t[j].ts \in Int /\ t[k].ts \in Int
    BY <1>4, AlertFields
  <2> HIDE DEF u, v
  <2>4. 1 \in DOMAIN u /\ u[1] = t[j].ts /\ v[1] = t[k].ts /\ \A y \in 1..(1 - 1) : u[y] = v[y]
    BY <2>2
  <2>5. ~(u[1] > v[1])
    BY <2>1, <2>4 DEF Above
  <2> QED
    BY <2>3, <2>4, <2>5
<1>8. Ascending(t)
  BY <1>4, <1>7 DEF Ascending
<1>9. S \in SUBSET (1..Len(t))
  BY DEF t
<1>10. Ascending(At(t, S))
  BY <1>4, <1>8, <1>9, PickedAscends
<1> QED
  BY <1>8, <1>10 DEF t

\* The groups a walk starts with are in order.
LEMMA TimesInit == AdmissionInit => TimesKept
<1> SUFFICES ASSUME AdmissionInit PROVE TimesKept
  OBVIOUS
<1>1. /\ batch \in Cases /\ groups = GroupsOf(batch) /\ current = <<>> /\ start = NoTime
      /\ last = NoTime
  BY DEF AdmissionInit
<1>2. batch.alerts \in Seq(AlertRecords)
  BY <1>1, CaseTypes
<1>3. ASSUME NEW i \in 1..Len(groups)
      PROVE  /\ Ascending(groups[i].left)
             /\ (batch.mode \notin {"fixed", "session"} => LeastGap(batch.gap) <= groups[i].idle)
  <2> DEFINE k == groups[i].key
             s == Sorted(batch.alerts)
             S == {j \in 1..Len(s) : GroupKey(batch, s[j]) = k}
  <2>1. groups[i] = GroupOf(batch, k)
    BY <1>1, GroupsListed
  <2>2. /\ groups[i].left = At(s, S)
        /\ (batch.mode \notin {"fixed", "session"} => LeastGap(batch.gap) <= groups[i].idle)
    BY <1>1, <2>1, GroupTypes
  <2>3. S \in SUBSET (1..Len(s))
    OBVIOUS
  <2> HIDE DEF S
  <2>4. Ascending(At(s, S))
    BY <1>2, <2>3, SortedAscends
  <2> QED
    BY <2>2, <2>4
<1>4. Ascending(current)
  BY <1>1 DEF Ascending
<1> QED
  BY <1>1, <1>3, <1>4 DEF TimesKept

\* The alert that is taken has its own time or none, not before the last.
LEMMA TakenTime ==
  ASSUME WalkTypes, TimesKept, groups # <<>>, groups[1].left # <<>>
  PROVE  LET a == Head(groups[1].left) IN
         /\ TimeFor(a) = a.ts /\ a.ts \in Int /\ (a.ts = NoTime \/ a.ts \in Nat)
         /\ (current # <<>> => last <= a.ts /\ start <= last)
         /\ (last = NoTime \/ last \in Nat) /\ (start = NoTime \/ start \in Nat)
         /\ \A m \in 1..Len(Tail(groups[1].left)) : a.ts <= Tail(groups[1].left)[m].ts
         /\ Ascending(Tail(groups[1].left))
<1> DEFINE s == groups[1].left
           a == Head(s)
<1>1. s \in Seq(AlertRecords) /\ 1 \in 1..Len(groups)
  BY HeadGroup
<1>2. Ascending(s)
  BY <1>1 DEF TimesKept
<1>3. current # <<>> => \A m \in 1..Len(s) : last <= s[m].ts
  BY DEF TimesKept
<1>4. s # <<>>
  OBVIOUS
<1> HIDE DEF s
<1>5. a = s[1] /\ 1 \in 1..Len(s) /\ a \in AlertRecords /\ Len(s) \in Nat
      /\ Len(Tail(s)) = Len(s) - 1
      /\ \A m \in 1..(Len(s) - 1) : Tail(s)[m] = s[m + 1] /\ m + 1 \in 1..Len(s) /\ 1 < m + 1
  BY <1>1, <1>4
<1>6. a.ts \in Int /\ (a.ts = NoTime \/ a.ts \in Nat)
  BY <1>5, AlertFields
<1>7. \A m \in 1..Len(Tail(s)) : a.ts <= Tail(s)[m].ts
  BY <1>2, <1>5 DEF Ascending
<1>8. Ascending(Tail(s))
  <2> SUFFICES ASSUME NEW m \in 1..(Len(s) - 1), NEW n \in 1..(Len(s) - 1), m < n
               PROVE  Tail(s)[m].ts <= Tail(s)[n].ts
    BY <1>5 DEF Ascending
  <2>1. m + 1 \in 1..Len(s) /\ n + 1 \in 1..Len(s) /\ m + 1 < n + 1
    BY <1>5
  <2>2. s[m + 1].ts <= s[n + 1].ts
    BY <1>2, <2>1 DEF Ascending
  <2> QED
    BY <1>5, <2>2
<1>9. (current # <<>> => last <= a.ts /\ start <= last)
      /\ (last = NoTime \/ last \in Nat) /\ (start = NoTime \/ start \in Nat)
  <2>1. CASE current = <<>>
    BY <2>1 DEF TimesKept
  <2>2. CASE current # <<>>
    <3> DEFINE n == Len(current)
    <3>1. start = current[1].ts /\ last = current[n].ts
      BY <2>2 DEF TimesKept
    <3>2. current \in Seq(AlertRecords) /\ 1 \in 1..n /\ n \in 1..n /\ n \in Nat /\ (1 = n \/ 1 < n)
      <4>1. current \in Seq(AlertRecords)
        BY DEF WalkTypes
      <4>2. n \in Nat /\ n # 0
        BY <2>2, <4>1
      <4> HIDE DEF n
      <4> QED
        BY <4>1, <4>2
    <3>3. /\ current[1].ts \in Int /\ (current[1].ts = NoTime \/ current[1].ts \in Nat)
          /\ current[n].ts \in Int /\ (current[n].ts = NoTime \/ current[n].ts \in Nat)
      BY <3>2, AlertFields
    <3>4. 1 < n => current[1].ts <= current[n].ts
      BY <3>2 DEF TimesKept, Ascending
    <3> HIDE DEF n
    <3>5. start <= last
      BY <3>1, <3>2, <3>3, <3>4
    <3> QED
      BY <1>3, <1>5, <3>1, <3>3, <3>5
  <2> QED
    BY <2>1, <2>2
<1>10. TimeFor(a) = a.ts
  <2>1. CASE a.ts # NoTime
    BY <2>1 DEF TimeFor
  <2>2. CASE a.ts = NoTime /\ current = <<>>
    BY <2>2 DEF TimeFor, TimesKept
  <2>3. CASE a.ts = NoTime /\ current # <<>>
    <3>1. last = NoTime /\ start = NoTime
      BY <1>9, <2>3 DEF NoTime
    <3> QED
      BY <2>3, <3>1 DEF TimeFor
  <2> QED
    BY <2>1, <2>2, <2>3
<1> HIDE DEF a
<1> QED
  BY <1>6, <1>7, <1>8, <1>9, <1>10 DEF s, a

\* A step that takes an alert leaves the groups in order.
LEMMA TakeTimes ==
  ASSUME WalkTypes, TimesKept, JoinWindow \/ SplitWindow
  PROVE  /\ \A i \in 1..Len(groups') : Ascending(groups'[i].left)
         /\ batch' = batch
         /\ (batch.mode \notin {"fixed", "session"} =>
              \A i \in 1..Len(groups') : LeastGap(batch.gap) <= groups'[i].idle)
         /\ \A m \in 1..Len(groups'[1].left) : last' <= groups'[1].left[m].ts
         /\ last' = Head(groups[1].left).ts
<1> DEFINE h == Head(groups[1].left)
<1>1. /\ batch' = batch /\ Len(groups) \in Nat /\ 1 \in 1..Len(groups) /\ groups # <<>>
      /\ groups[1].left # <<>>
      /\ Len(groups') = Len(groups)
      /\ groups'[1].left = Tail(groups[1].left) /\ groups'[1].idle = groups[1].idle
      /\ \A i \in 1..Len(groups) : i # 1 => groups'[i] = groups[i]
  BY TakeDoes
<1>2. last' = TimeFor(h)
  BY JoinDoes, SplitDoes
<1>3. /\ TimeFor(h) = h.ts
      /\ \A m \in 1..Len(Tail(groups[1].left)) : h.ts <= Tail(groups[1].left)[m].ts
      /\ Ascending(Tail(groups[1].left))
  BY <1>1, TakenTime
<1>4. ASSUME NEW i \in 1..Len(groups) PROVE Ascending(groups'[i].left)
  <2>1. CASE i = 1
    BY <1>1, <1>3, <2>1
  <2>2. CASE i # 1
    BY <1>1, <2>2 DEF TimesKept
  <2> QED
    BY <2>1, <2>2
<1>5. ASSUME NEW i \in 1..Len(groups), batch.mode \notin {"fixed", "session"}
      PROVE  LeastGap(batch.gap) <= groups'[i].idle
  <2>1. LeastGap(batch.gap) <= groups[i].idle
    BY <1>5 DEF TimesKept
  <2> QED
    BY <1>1, <2>1
<1> QED
  BY <1>1, <1>2, <1>3, <1>4, <1>5

\* Every step keeps the times.
LEMMA TimesStep == WalkTypes /\ TimesKept /\ [AdmissionNext]_admissionVars => TimesKept'
<1> SUFFICES ASSUME WalkTypes, TimesKept, [AdmissionNext]_admissionVars PROVE TimesKept'
  OBVIOUS
<1>1. CASE JoinWindow
  <2> DEFINE a == Head(groups[1].left)
             n == Len(current)
  <2>1. /\ \A i \in 1..Len(groups') : Ascending(groups'[i].left)
        /\ batch' = batch
        /\ (batch.mode \notin {"fixed", "session"} =>
             \A i \in 1..Len(groups') : LeastGap(batch.gap) <= groups'[i].idle)
        /\ \A m \in 1..Len(groups'[1].left) : last' <= groups'[1].left[m].ts
        /\ last' = a.ts
    BY <1>1, TakeTimes
  <2>2. /\ current' = Append(current, a) /\ current \in Seq(AlertRecords)
        /\ start' = (IF current = <<>> THEN TimeFor(a) ELSE start)
    BY <1>1, JoinDoes
  <2>3. groups # <<>> /\ groups[1].left # <<>> /\ a \in AlertRecords
    BY <1>1, TakeDoes
  <2>4. TimeFor(a) = a.ts /\ a.ts \in Int /\ (current # <<>> => last <= a.ts)
    BY <2>3, TakenTime
  <2> HIDE DEF a
  <2>5. /\ Len(current') = n + 1 /\ current'[n + 1] = a /\ \A i \in 1..n : current'[i] = current[i]
        /\ n \in Nat /\ current' # <<>>
    BY <2>2, <2>3
  <2>6. \A i \in 1..n : current[i].ts \in Int /\ current[i].ts <= a.ts
    <3> TAKE i \in 1..n
    <3>1. n \in 1..n /\ (i = n \/ i < n) /\ current # <<>>
      BY <2>2
    <3>2. last = current[n].ts /\ (i < n => current[i].ts <= current[n].ts)
      BY <3>1 DEF TimesKept, Ascending
    <3>3. current[i].ts \in Int /\ current[n].ts \in Int
      BY <2>2, <3>1, AlertFields
    <3> HIDE DEF n
    <3> QED
      BY <2>4, <3>1, <3>2, <3>3
  <2> HIDE DEF n
  <2>7. Ascending(current')
    <3> SUFFICES ASSUME NEW i \in 1..(n + 1), NEW j \in 1..(n + 1), i < j
                 PROVE  current'[i].ts <= current'[j].ts
      BY <2>5 DEF Ascending
    <3>1. i \in 1..n /\ (j \in 1..n \/ j = n + 1)
      BY <2>5
    <3>2. CASE j \in 1..n
      BY <2>5, <3>1, <3>2 DEF TimesKept, Ascending, n
    <3>3. CASE j = n + 1
      BY <2>5, <2>6, <3>1, <3>3
    <3> QED
      BY <3>1, <3>2, <3>3
  <2>8. start' = current'[1].ts
    <3>1. CASE current = <<>>
      <4>1. n = 0
        BY <3>1 DEF n
      <4> QED
        BY <2>2, <2>4, <2>5, <3>1, <4>1
    <3>2. CASE current # <<>>
      <4>1. n # 0
        BY <2>2, <3>2 DEF n
      <4>2. 1 \in 1..n
        BY <2>5, <4>1
      <4> QED
        BY <2>2, <2>5, <3>2, <4>2 DEF TimesKept
    <3> QED
      BY <3>1, <3>2
  <2> QED
    BY <2>1, <2>5, <2>7, <2>8 DEF TimesKept
<1>2. CASE SplitWindow
  <2> DEFINE a == Head(groups[1].left)
  <2>1. /\ \A i \in 1..Len(groups') : Ascending(groups'[i].left)
        /\ batch' = batch
        /\ (batch.mode \notin {"fixed", "session"} =>
             \A i \in 1..Len(groups') : LeastGap(batch.gap) <= groups'[i].idle)
        /\ \A m \in 1..Len(groups'[1].left) : last' <= groups'[1].left[m].ts
        /\ last' = a.ts
    BY <1>2, TakeTimes
  <2>2. current' = <<a>> /\ start' = last'
    BY <1>2, SplitDoes
  <2> HIDE DEF a
  <2>3. Ascending(<<a>>)
    <3>1. Len(<<a>>) = 1 /\ \A m, n \in 1..1 : ~(m < n)
      OBVIOUS
    <3> QED
      BY <3>1 DEF Ascending
  <2> QED
    BY <2>1, <2>2, <2>3 DEF TimesKept
<1>3. CASE EndGroup
  <2>1. /\ batch' = batch /\ current' = <<>> /\ start' = NoTime /\ last' = NoTime
        /\ \A i \in 1..Len(groups') : i + 1 \in 1..Len(groups) /\ groups'[i] = groups[i + 1]
    BY <1>3, EndDoes
  <2>2. Ascending(<<>>)
    BY DEF Ascending
  <2> QED
    BY <2>1, <2>2 DEF TimesKept
<1>4. CASE SortWindows \/ AdmitHighValue \/ EndFloor \/ AdmitByGain \/ EndSpending
           \/ UNCHANGED admissionVars
  <2>1. /\ batch' = batch /\ groups' = groups /\ current' = current /\ start' = start
        /\ last' = last
    BY <1>4, RestDoes
  <2> QED
    BY <2>1 DEF TimesKept
<1> QED
  BY <1>1, <1>2, <1>3, <1>4 DEF AdmissionNext

\* The times in every state.
LEMMA TimesAreKept == AdmissionSpec => []TimesKept
BY TimesInit, TimesStep, WalkTyped, PTL DEF AdmissionSpec

-----------------------------------------------------------------------------
(* Where windows are cut. *)

\* A reason to cut window v before an alert with time first.
CutAt(v, first) ==
  LET silence == first - v.alerts[Len(v.alerts)].ts IN
  \/ silence > v.gap \/ first - v.start > v.longest
  \/ batch.mode # "session" /\ silence > LeastGap(batch.gap)
  \/ batch.mode \in DOMAIN Weights /\ (silence >= 60 \/ first - v.start >= v.gap)

\* The open window keeps to the gap and the length it will be built with.
OpenBounded ==
  /\ \A i \in 1..(Len(current) - 1) : current[i].ts # NoTime =>
       current[i + 1].ts - current[i].ts \in 0..groups[1].idle
  /\ start # NoTime => last - start <= Larger(groups[1].idle, Longest)

\* Windows with numbers that follow each other had a reason to be cut.
CutsReasoned ==
  \A v, w \in Elements(windows) :
    (v.id[2] = w.id[2] /\ w.id[1] = v.id[1] + 1) => CutAt(v, w.alerts[1].ts)

\* The last window of the group under way was cut before the open one.
LastReasoned ==
  (phase = "cut" /\ windows # <<>> /\ groups # <<>>
    /\ windows[Len(windows)].id[2] = groups[1].key) =>
    current # <<>> /\ CutAt(windows[Len(windows)], current[1].ts)

\* What is kept of the cuts where gaps decide.
CutsKept ==
  batch.mode # "fixed" =>
    /\ OpenBounded /\ CutsReasoned /\ LastReasoned
    /\ \A v \in Elements(windows) : Bounded(v)

\* The numbers by which it is decided to split.
LEMMA GapNumbers ==
  ASSUME WalkTypes, TimesKept, groups # <<>>, batch.mode # "fixed",
         NEW dynamic, dynamic = IF batch.mode = "session" THEN groups[1].idle
                                ELSE DynamicIdleGap(gaps, groups[1].idle, batch.gap, Longest)
  PROVE  /\ dynamic \in Int /\ dynamic <= groups[1].idle /\ groups[1].idle \in Int
         /\ Longest \in Nat /\ LeastGap(batch.gap) \in Int /\ LeastGap(batch.gap) >= 60
         /\ batch.mode # "session" =>
              LeastGap(batch.gap) <= dynamic /\ LeastGap(batch.gap) <= groups[1].idle
<1>1. groups[1].idle \in Int /\ Longest \in Nat /\ 1 \in 1..Len(groups)
  BY HeadGroup
<1>2. batch.gap \in Nat \ {0} /\ gaps \in Seq(Int)
  BY CaseTypes DEF WalkTypes
<1>3. LeastGap(batch.gap) \in Int /\ LeastGap(batch.gap) >= 60
  BY <1>2 DEF LeastGap, Larger
<1>4. CASE batch.mode = "session"
  BY <1>1, <1>3, <1>4
<1>5. CASE batch.mode # "session"
  <2>1. LeastGap(batch.gap) <= groups[1].idle
    BY <1>1, <1>5 DEF TimesKept
  <2>2. dynamic = DynamicIdleGap(gaps, groups[1].idle, batch.gap, Longest)
    BY <1>5
  <2>3. dynamic \in Int /\ dynamic <= groups[1].idle /\ LeastGap(batch.gap) <= dynamic
    BY <1>1, <1>2, <2>1, <2>2, DynamicGapBound
  <2> QED
    BY <1>1, <1>3, <2>1, <2>3
<1> QED
  BY <1>4, <1>5

\* An alert that does not split comes soon enough.
LEMMA JoinsInTime ==
  ASSUME WalkTypes, TimesKept, groups # <<>>, batch.mode # "fixed", current # <<>>,
         NEW a \in AlertRecords, last <= a.ts, start <= last, ~Splits(a, a.ts)
  PROVE  /\ last # NoTime => a.ts - last \in 0..groups[1].idle
         /\ start # NoTime => a.ts - start <= Larger(groups[1].idle, Longest)
<1> DEFINE dynamic == IF batch.mode = "session" THEN groups[1].idle
                      ELSE DynamicIdleGap(gaps, groups[1].idle, batch.gap, Longest)
           longest == Larger(groups[1].idle, Longest)
<1>1. dynamic \in Int /\ dynamic <= groups[1].idle /\ groups[1].idle \in Int /\ Longest \in Nat
  BY GapNumbers
<1>2. longest \in Int
  BY <1>1 DEF Larger
<1>3. /\ a.ts \in Int /\ (a.ts = NoTime \/ a.ts \in Nat) /\ last \in Int /\ start \in Int
  BY AlertFields DEF WalkTypes
<1>4. (last = NoTime \/ last \in Nat) /\ (start = NoTime \/ start \in Nat)
  <2> DEFINE n == Len(current)
  <2>1. start = current[1].ts /\ last = current[n].ts
    BY DEF TimesKept
  <2>2. 1 \in 1..n /\ n \in 1..n /\ current \in Seq(AlertRecords)
    BY DEF WalkTypes
  <2> QED
    BY <2>1, <2>2, AlertFields
<1>5. ~(a.ts # NoTime /\ last # NoTime
        /\ (a.ts - last > dynamic
            \/ (IF start = NoTime THEN 0 ELSE a.ts - start) > longest))
  BY DEF Splits
<1> HIDE DEF dynamic, longest
<1>6. last # NoTime => a.ts # NoTime /\ last \in Nat
  BY <1>3, <1>4 DEF NoTime
<1>7. start # NoTime => last # NoTime /\ start \in Nat
  BY <1>3, <1>4 DEF NoTime
<1>8. last # NoTime => a.ts - last \in 0..groups[1].idle
  <2> SUFFICES ASSUME last # NoTime PROVE a.ts - last \in 0..groups[1].idle
    OBVIOUS
  <2>1. ~(a.ts - last > dynamic)
    BY <1>5, <1>6
  <2> QED
    BY <1>1, <1>3, <2>1
<1>9. start # NoTime => a.ts - start <= longest
  <2> SUFFICES ASSUME start # NoTime PROVE a.ts - start <= longest
    OBVIOUS
  <2>1. ~(a.ts - start > longest)
    BY <1>5, <1>6, <1>7
  <2> QED
    BY <1>2, <1>3, <2>1
<1> QED
  BY <1>8, <1>9 DEF longest

\* A window that has a first alert with a time starts with it.
LEMMA StartIs ==
  ASSUME WalkTypes, TimesKept, current # <<>>, start # NoTime,
         NEW w \in BuiltWindows, w.alerts = current
  PROVE  w.start = start
<1> DEFINE n == Len(current)
           all == {a.ts : a \in Elements(current)}
           times == all \ {NoTime}
<1>1. current \in Seq(AlertRecords) /\ 1 \in 1..n /\ n \in Nat
  BY DEF WalkTypes
<1>2. start = current[1].ts /\ Ascending(current)
  BY DEF TimesKept
<1>3. w.start = IF times = {} THEN w.id[1] * w.gap ELSE Smallest(times)
  BY WindowIs
<1>4. \A x : x \in times <=> x # NoTime /\ \E i \in 1..n : x = current[i].ts
  BY DEF Elements
<1>5. \A i \in 1..n : current[i].ts \in Int /\ start <= current[i].ts
  <2> TAKE i \in 1..n
  <2>1. current[i].ts \in Int /\ start \in Int
    BY <1>1, <1>2, AlertFields
  <2>2. i = 1 \/ 1 < i
    BY <1>1
  <2>3. 1 < i => current[1].ts <= current[i].ts
    BY <1>1, <1>2 DEF Ascending
  <2> QED
    BY <1>2, <2>1, <2>2, <2>3
<1>6. IsFiniteSet(times)
  <2> DEFINE f == [a \in Elements(current) |-> a.ts]
  <2>1. IsFiniteSet(Elements(current))
    BY <1>1, ElementsOf
  <2>2. {f[a] : a \in Elements(current)} = all
    OBVIOUS
  <2> HIDE DEF f
  <2>3. IsFiniteSet({f[a] : a \in Elements(current)})
    BY <2>1, ImageIsFinite
  <2>4. IsFiniteSet(all)
    BY <2>2, <2>3
  <2> QED
    BY <2>4, FS_Subset
<1> HIDE DEF n, times, all
<1>7. start \in times /\ times \in SUBSET Int
  BY <1>1, <1>2, <1>4, <1>5
<1>8. Smallest(times) \in times /\ Smallest(times) <= start
  BY <1>6, <1>7, Extremes
<1>9. start <= Smallest(times) /\ Smallest(times) \in Int /\ start \in Int
  BY <1>4, <1>5, <1>7, <1>8
<1> QED
  BY <1>3, <1>7, <1>8, <1>9

\* A split has a reason that the windows show.
LEMMA SplitHasReason ==
  ASSUME WalkTypes, TimesKept, groups # <<>>,
         NEW a \in AlertRecords, Splits(a, a.ts),
         NEW w \in BuiltWindows, w.alerts = current, w.gap = groups[1].idle,
         w.longest = Larger(groups[1].idle, Longest)
  PROVE  CutAt(w, a.ts)
<1> DEFINE idle == groups[1].idle
           dynamic == IF batch.mode = "session" THEN idle
                      ELSE DynamicIdleGap(gaps, idle, batch.gap, Longest)
           longest == Larger(idle, Longest)
           gap == a.ts - last
           duration == IF start = NoTime THEN 0 ELSE a.ts - start
           signals == BoundarySignals(current, a, gap, idle, dynamic, batch.gap)
<1>1. /\ batch.mode # "fixed" /\ current # <<>>
      /\ \/ gap > dynamic \/ duration > longest
         \/ /\ batch.mode \in DOMAIN Weights
            /\ SoftSplit(current, gap, duration, idle, dynamic, signals, batch.mode)
  BY DEF Splits
<1>2. /\ dynamic \in Int /\ dynamic <= idle /\ idle \in Int
      /\ Longest \in Nat /\ LeastGap(batch.gap) \in Int /\ LeastGap(batch.gap) >= 60
      /\ (batch.mode # "session" => LeastGap(batch.gap) <= dynamic /\ LeastGap(batch.gap) <= idle)
      /\ (batch.mode = "session" => dynamic = idle)
  BY <1>1, GapNumbers
<1>3. longest \in Int /\ longest >= 0
  BY <1>2 DEF Larger
<1>4. last = w.alerts[Len(w.alerts)].ts
  BY <1>1 DEF TimesKept
<1>5. start # NoTime => w.start = start
  BY <1>1, StartIs
<1>6. a.ts \in Int /\ last \in Int /\ start \in Int
  BY AlertFields DEF WalkTypes
<1>7. SoftSplit(current, gap, duration, idle, dynamic, signals, batch.mode) =>
        gap >= 60 \/ duration >= Larger(idle, dynamic)
  <2> DEFINE soft == Larger(60, Rounded(35 * Smaller(idle, dynamic), 100))
  <2>1. SoftSplit(current, gap, duration, idle, dynamic, signals, batch.mode) =>
          gap >= soft \/ gap >= 60 \/ duration >= Larger(idle, dynamic)
    BY DEF SoftSplit
  <2>2. Smaller(idle, dynamic) \in Int
    BY <1>2 DEF Smaller
  <2>3. 35 * Smaller(idle, dynamic) \in Int /\ 0 \in Int
    BY <2>2
  <2>4. Rounded(35 * Smaller(idle, dynamic), 100) \in Int
    BY <2>3, RoundedBounds
  <2>5. soft \in Int /\ soft >= 60 /\ gap \in Int
    BY <1>6, <2>4 DEF Larger
  <2> HIDE DEF soft, gap
  <2>6. gap >= soft => gap >= 60
    BY <2>5
  <2> QED
    BY <2>1, <2>6
<1>8. gap \in Int /\ duration \in Int
  BY <1>6
<1> HIDE DEF signals, dynamic
<1>9. CASE gap > dynamic
  <2>1. CASE batch.mode = "session"
    <3>1. gap > w.gap
      BY <1>2, <1>9, <2>1
    <3> QED
      BY <1>4, <3>1 DEF CutAt
  <2>2. CASE batch.mode # "session"
    <3>1. gap > LeastGap(batch.gap)
      BY <1>2, <1>8, <1>9, <2>2
    <3> QED
      BY <1>4, <2>2, <3>1 DEF CutAt
  <2> QED
    BY <2>1, <2>2
<1>10. CASE duration > longest
  <2>1. start # NoTime
    BY <1>3, <1>10
  <2>2. a.ts - w.start > w.longest
    BY <1>5, <1>10, <2>1
  <2> QED
    BY <2>2 DEF CutAt
<1>11. CASE /\ batch.mode \in DOMAIN Weights
            /\ SoftSplit(current, gap, duration, idle, dynamic, signals, batch.mode)
  <2>1. batch.mode # "session"
    BY <1>11 DEF Weights
  <2>2. CASE gap >= 60
    BY <1>4, <1>11, <2>2 DEF CutAt
  <2>3. CASE duration >= Larger(idle, dynamic)
    <3>1. duration >= idle /\ idle >= 60
      BY <1>2, <1>8, <2>1, <2>3 DEF Larger
    <3>2. start # NoTime
      BY <1>2, <3>1
    <3>3. a.ts - w.start >= w.gap
      BY <1>5, <3>1, <3>2
    <3> QED
      BY <1>11, <3>3 DEF CutAt
  <2> QED
    BY <1>7, <1>11, <2>2, <2>3
<1> QED
  BY <1>1, <1>9, <1>10, <1>11

\* The open window becomes one that keeps to the gap and the length.
LEMMA ClosedIsBounded ==
  ASSUME TimesKept, OpenBounded, current # <<>>,
         NEW w \in BuiltWindows, w.alerts = current, w.gap = groups[1].idle,
         w.longest = Larger(groups[1].idle, Longest)
  PROVE  Bounded(w)
<1>1. start = current[1].ts /\ last = current[Len(current)].ts
  BY DEF TimesKept
<1> QED
  BY <1>1 DEF Bounded, OpenBounded

\* A window that is added keeps what is kept of the others.
LEMMA AddedWindow ==
  ASSUME WalkTypes, DistinctWindows, TimesKept, CutsKept, batch.mode # "fixed", phase = "cut",
         groups # <<>>, current # <<>>, batch' = batch,
         NEW w \in BuiltWindows, windows' = Append(windows, w), w.alerts = current,
         w.gap = groups[1].idle, w.longest = Larger(groups[1].idle, Longest),
         w.id[1] = Len(windows), w.id[2] = groups[1].key
  PROVE  /\ CutsReasoned' /\ \A v \in Elements(windows') : Bounded(v)
         /\ Len(windows') = Len(windows) + 1 /\ windows'[Len(windows) + 1] = w
<1> DEFINE n == Len(windows)
<1>1. /\ n \in Nat /\ windows \in Seq(BuiltWindows) /\ Len(windows') = n + 1
      /\ windows'[n + 1] = w /\ Elements(windows') = Elements(windows) \cup {w}
  BY GrownElements DEF WalkTypes
<1>2. Bounded(w) /\ \A v \in Elements(windows) : Bounded(v)
  BY ClosedIsBounded DEF CutsKept
<1>3. \A v \in Elements(windows) : \E j \in 1..n : v = windows[j] /\ v.id[1] = j - 1
  <2>1. \A j \in 1..n : windows[j].id[1] = j - 1
    BY DEF DistinctWindows
  <2>2. \A v \in Elements(windows) : \E j \in 1..n : v = windows[j]
    BY DEF Elements
  <2> QED
    BY <2>1, <2>2
<1>4. ASSUME NEW u \in Elements(windows'), NEW v \in Elements(windows'),
             u.id[2] = v.id[2], v.id[1] = u.id[1] + 1
      PROVE  CutAt(u, v.alerts[1].ts)
  <2>1. CASE u \in Elements(windows) /\ v \in Elements(windows)
    BY <1>4, <2>1 DEF CutsKept, CutsReasoned
  <2>2. CASE u \in Elements(windows) /\ v = w
    <3>1. PICK j \in 1..n : u = windows[j] /\ u.id[1] = j - 1
      BY <1>3, <2>2
    <3>2. j = n
      BY <1>1, <1>4, <2>2, <3>1
    <3>3. windows # <<>> /\ windows[Len(windows)].id[2] = groups[1].key
      BY <1>1, <1>4, <2>2, <3>1, <3>2
    <3> QED
      BY <2>2, <3>1, <3>2, <3>3 DEF CutsKept, LastReasoned
  <2>3. CASE u = w
    <3>1. v.id[1] = n + 1
      BY <1>4, <2>3
    <3>2. v # w
      BY <1>1, <3>1
    <3>3. PICK j \in 1..n : v.id[1] = j - 1
      BY <1>1, <1>3, <3>2
    <3> QED
      BY <1>1, <3>1, <3>3
  <2> QED
    BY <1>1, <1>4, <2>1, <2>2, <2>3
<1>5. \A u, v : CutAt(u, v.alerts[1].ts)' <=> CutAt(u, v.alerts[1].ts)
  BY DEF CutAt
<1>6. CutsReasoned'
  BY <1>4, <1>5 DEF CutsReasoned
<1> QED
  BY <1>1, <1>2, <1>6

\* Alerts that join keep the open window within bounds.
LEMMA JoinCuts ==
  WalkTypes /\ TimesKept /\ CutsKept /\ JoinWindow => CutsKept'
<1> SUFFICES ASSUME WalkTypes, TimesKept, CutsKept, JoinWindow, batch.mode # "fixed"
             PROVE  CutsKept'
  <2>1. JoinWindow => batch' = batch
    BY DEF JoinWindow
  <2> QED
    BY <2>1 DEF CutsKept
<1> DEFINE a == Head(groups[1].left)
           n == Len(current)
           idle == groups[1].idle
           longest == Larger(groups[1].idle, Longest)
<1>1. /\ phase = "cut" /\ phase' = phase /\ batch' = batch
      /\ groups # <<>> /\ groups[1].left # <<>> /\ a \in AlertRecords
      /\ groups'[1].key = groups[1].key /\ groups'[1].idle = idle
  BY TakeDoes
<1>2. /\ current' = Append(current, a) /\ current \in Seq(AlertRecords) /\ windows' = windows
      /\ ~Splits(a, TimeFor(a)) /\ start' = (IF current = <<>> THEN TimeFor(a) ELSE start)
      /\ last' = TimeFor(a)
  BY JoinDoes
<1>3. /\ TimeFor(a) = a.ts /\ a.ts \in Int
      /\ (current # <<>> => last <= a.ts /\ start <= last)
  BY <1>1, TakenTime
<1>4. ~Splits(a, a.ts)
  BY <1>2, <1>3
<1>5. current # <<>> => /\ last # NoTime => a.ts - last \in 0..idle
                        /\ start # NoTime => a.ts - start <= longest
  BY <1>1, <1>3, <1>4, JoinsInTime
<1>6. longest \in Int /\ longest >= 0 /\ Longest' = Longest
  <2>1. groups[1].idle \in Int /\ Longest \in Nat
    BY <1>1, HeadGroup
  <2>2. Longest' = Longest
    BY <1>1 DEF Longest
  <2> QED
    BY <2>1, <2>2 DEF Larger
<1> HIDE DEF a, idle, longest
<1>7. /\ Len(current') = n + 1 /\ current'[n + 1] = a /\ \A i \in 1..n : current'[i] = current[i]
      /\ n \in Nat /\ current' # <<>> /\ (current = <<>> <=> n = 0)
  BY <1>1, <1>2
<1> HIDE DEF n
<1>8. ASSUME NEW i \in 1..n, current'[i].ts # NoTime
      PROVE  current'[i + 1].ts - current'[i].ts \in 0..idle
  <2>1. CASE i = n
    <3>1. current # <<>> /\ last = current[n].ts
      BY <1>7, <2>1 DEF TimesKept, n
    <3> QED
      BY <1>5, <1>7, <1>8, <2>1, <3>1
  <2>2. CASE i # n
    <3>1. i \in 1..(n - 1) /\ i + 1 \in 1..n
      BY <1>7, <2>2
    <3> QED
      BY <1>7, <1>8, <3>1 DEF CutsKept, OpenBounded, n, idle
  <2> QED
    BY <2>1, <2>2
<1>9. start' # NoTime => last' - start' <= longest
  <2>1. CASE current = <<>>
    <3>1. last' - start' = 0
      BY <1>2, <1>3, <2>1
    <3> QED
      BY <1>6, <3>1
  <2>2. CASE current # <<>>
    BY <1>2, <1>3, <1>5, <2>2
  <2> QED
    BY <2>1, <2>2
<1>10. OpenBounded'
  <2>1. Len(current') - 1 = n
    BY <1>7
  <2>2. Larger(groups'[1].idle, Longest') = longest
    BY <1>1, <1>6 DEF longest, idle
  <2> QED
    BY <1>1, <1>8, <1>9, <2>1, <2>2 DEF OpenBounded, idle
<1>11. CutsReasoned' /\ \A v \in Elements(windows') : Bounded(v)
  BY <1>1, <1>2 DEF CutsKept, CutsReasoned, CutAt
<1>12. LastReasoned'
  <2> SUFFICES ASSUME windows # <<>>, windows[Len(windows)].id[2] = groups[1].key
               PROVE  CutAt(windows[Len(windows)], current'[1].ts)
    BY <1>1, <1>2, <1>7 DEF LastReasoned, CutAt
  <2>1. current # <<>> /\ CutAt(windows[Len(windows)], current[1].ts)
    BY <1>1 DEF CutsKept, LastReasoned
  <2>2. current'[1] = current[1]
    BY <1>7, <2>1
  <2> QED
    BY <2>1, <2>2
<1> QED
  BY <1>1, <1>10, <1>11, <1>12 DEF CutsKept

\* A split adds a window with a reason to be cut where it is.
LEMMA SplitCuts ==
  WalkTypes /\ DistinctWindows /\ TimesKept /\ CutsKept /\ SplitWindow => CutsKept'
<1> SUFFICES ASSUME WalkTypes, DistinctWindows, TimesKept, CutsKept, SplitWindow
             PROVE  CutsKept'
  OBVIOUS
<1> DEFINE a == Head(groups[1].left)
<1>1. /\ phase = "cut" /\ phase' = phase /\ batch' = batch
      /\ groups # <<>> /\ groups[1].left # <<>> /\ a \in AlertRecords
      /\ groups'[1].key = groups[1].key /\ groups'[1].idle = groups[1].idle
  BY TakeDoes
<1>2. /\ Splits(a, TimeFor(a)) /\ current' = <<a>> /\ start' = TimeFor(a) /\ last' = TimeFor(a)
      /\ current # <<>>
  BY SplitDoes
<1>3. PICK w \in BuiltWindows :
        /\ windows' = Append(windows, w) /\ w.alerts = current /\ w.gap = groups[1].idle
        /\ w.longest = Larger(groups[1].idle, Longest)
        /\ w.id[1] = Len(windows) /\ w.id[2] = groups[1].key
  BY SplitDoes
<1>4. batch.mode # "fixed"
  BY <1>2 DEF Splits
<1>5. /\ CutsReasoned' /\ \A v \in Elements(windows') : Bounded(v)
      /\ Len(windows') = Len(windows) + 1 /\ windows'[Len(windows) + 1] = w
  BY <1>1, <1>2, <1>3, <1>4, AddedWindow
<1>6. TimeFor(a) = a.ts /\ a.ts \in Int
  BY <1>1, TakenTime
<1>7. CutAt(w, a.ts)
  BY <1>1, <1>2, <1>3, <1>6, SplitHasReason
<1> HIDE DEF a
<1>8. OpenBounded'
  <2>1. groups[1].idle \in Int /\ Longest \in Nat
    BY <1>1, HeadGroup
  <2>2. Longest' = Longest
    BY <1>1 DEF Longest
  <2>3. Larger(groups'[1].idle, Longest') >= 0
    BY <1>1, <2>1, <2>2 DEF Larger
  <2>4. last' - start' = 0
    BY <1>2, <1>6
  <2>5. Len(current') - 1 = 0
    BY <1>2
  <2>6. 1..0 = {}
    OBVIOUS
  <2> QED
    BY <2>3, <2>4, <2>5, <2>6 DEF OpenBounded
<1>9. LastReasoned'
  <2>1. current' # <<>> /\ current'[1] = a
    BY <1>2
  <2>2. windows'[Len(windows')] = w
    BY <1>5
  <2> QED
    BY <1>1, <1>7, <2>1, <2>2 DEF LastReasoned, CutAt
<1> QED
  BY <1>1, <1>5, <1>8, <1>9 DEF CutsKept

\* The end of a group adds its last window.
LEMMA EndCuts ==
  WalkTypes /\ DistinctWindows /\ TimesKept /\ CutsKept /\ EndGroup => CutsKept'
<1> SUFFICES ASSUME WalkTypes, DistinctWindows, TimesKept, CutsKept, EndGroup, batch.mode # "fixed"
             PROVE  CutsKept'
  <2>1. EndGroup => batch' = batch
    BY DEF EndGroup
  <2> QED
    BY <2>1 DEF CutsKept
<1>1. /\ phase = "cut" /\ phase' = phase /\ batch' = batch
      /\ Len(groups) \in Nat /\ 1 \in 1..Len(groups) /\ groups # <<>>
      /\ Len(groups') = Len(groups) - 1
      /\ \A i \in 1..Len(groups') : i + 1 \in 1..Len(groups) /\ groups'[i] = groups[i + 1]
      /\ current' = <<>> /\ start' = NoTime /\ current # <<>>
  BY EndDoes
<1>2. PICK w \in BuiltWindows :
        /\ windows' = Append(windows, w) /\ w.alerts = current /\ w.gap = groups[1].idle
        /\ w.longest = Larger(groups[1].idle, Longest)
        /\ w.id[1] = Len(windows) /\ w.id[2] = groups[1].key
  BY EndDoes
<1>3. /\ CutsReasoned' /\ \A v \in Elements(windows') : Bounded(v)
      /\ Len(windows') = Len(windows) + 1 /\ windows'[Len(windows) + 1] = w
  BY <1>1, <1>2, AddedWindow
<1>4. OpenBounded'
  <2>1. Len(<<>>) = 0 /\ 1..(0 - 1) = {}
    OBVIOUS
  <2> QED
    BY <1>1, <2>1 DEF OpenBounded
<1>5. LastReasoned'
  <2>1. SUFFICES ASSUME groups' # <<>>, windows'[Len(windows')].id[2] = groups'[1].key
                 PROVE  FALSE
    BY DEF LastReasoned
  <2>2. groups' = Tail(groups) /\ groups \in Seq(KeyedGroups)
    BY DEF EndGroup, WalkTypes
  <2>3. 1 \in 1..Len(groups')
    BY <1>1, <2>1, <2>2
  <2>4. groups'[1] = groups[1 + 1] /\ 1 + 1 \in 1..Len(groups)
    BY <1>1, <2>3
  <2>5. groups[2].key # groups[1].key
    BY <1>1, <2>4 DEF DistinctWindows
  <2> QED
    BY <1>2, <1>3, <2>1, <2>4, <2>5
<1> QED
  BY <1>1, <1>3, <1>4, <1>5 DEF CutsKept

\* Every step keeps the cuts.
LEMMA CutsStep ==
  WalkTypes /\ DistinctWindows /\ TimesKept /\ CutsKept /\ [AdmissionNext]_admissionVars
    => CutsKept'
<1> SUFFICES ASSUME WalkTypes, DistinctWindows, TimesKept, CutsKept,
                    [AdmissionNext]_admissionVars
             PROVE  CutsKept'
  OBVIOUS
<1>1. CASE SortWindows \/ AdmitHighValue \/ EndFloor \/ AdmitByGain \/ EndSpending
           \/ UNCHANGED admissionVars
  <2>1. /\ batch' = batch /\ groups' = groups /\ current' = current /\ start' = start
        /\ last' = last /\ Elements(windows') = Elements(windows)
        /\ (phase' = "cut" => phase = "cut" /\ windows' = windows)
    BY <1>1, RestDoes
  <2>2. OpenBounded => OpenBounded'
    BY <2>1 DEF OpenBounded, Longest
  <2>3. CutsReasoned => CutsReasoned'
    BY <2>1 DEF CutsReasoned, CutAt
  <2>4. LastReasoned => LastReasoned'
    BY <2>1 DEF LastReasoned, CutAt
  <2> QED
    BY <2>1, <2>2, <2>3, <2>4 DEF CutsKept
<1> QED
  BY <1>1, JoinCuts, SplitCuts, EndCuts DEF AdmissionNext

\* The cuts in every state.
LEMMA CutsAreKept == AdmissionSpec => []CutsKept
<1>1. AdmissionInit => CutsKept
  <2> SUFFICES ASSUME AdmissionInit PROVE CutsKept
    OBVIOUS
  <2>1. current = <<>> /\ start = NoTime /\ windows = <<>>
    BY DEF AdmissionInit
  <2>2. Len(<<>>) = 0 /\ 1..(0 - 1) = {} /\ Elements(<<>>) = {}
    BY DEF Elements
  <2> QED
    BY <2>1, <2>2 DEF CutsKept, OpenBounded, CutsReasoned, LastReasoned
<1> QED
  BY <1>1, CutsStep, WalkTyped, WindowsDistinct, TimesAreKept, PTL DEF AdmissionSpec

\* The index gives an alert with an id of its own a window that holds it.
LEMMA IndexFinds ==
  ASSUME WalkTypes, NEW a \in AlertRecords, a.id # 0,
         Count(batch.alerts, LAMBDA b : b.id = a.id) = 1,
         \A b \in AlertRecords : b \in Held <=> b \in Elements(batch.alerts),
         a \in Elements(batch.alerts)
  PROVE  a \in Elements(WindowOf(a.id).alerts)
<1> DEFINE having == {i \in 1..Len(windows) : a.id \in Elements(windows[i].ids)}
<1>1. windows \in Seq(BuiltWindows) /\ batch.alerts \in Seq(AlertRecords)
  BY CaseTypes DEF WalkTypes
<1>2. ASSUME NEW i \in 1..Len(windows)
      PROVE  /\ windows[i].alerts \in Seq(AlertRecords)
             /\ (a.id \in Elements(windows[i].ids) <=>
                   \E b \in Elements(windows[i].alerts) : b.id = a.id)
  <2> DEFINE w == windows[i]
  <2>1. w \in BuiltWindows
    BY <1>1
  <2> HIDE DEF w
  <2>2. w.alerts \in Seq(AlertRecords) /\ w.ids = IdsOf(w.alerts)
    BY <2>1, WindowIs
  <2>3. a.id \in Elements(w.ids) <=> \E b \in Elements(w.alerts) : b.id = a.id
    BY <2>2, IdsAre
  <2> QED
    BY <2>2, <2>3 DEF w
<1>3. \E i \in 1..Len(windows) : a \in Elements(windows[i].alerts)
  BY DEF Held, Elements
<1>4. having # {}
  BY <1>2, <1>3
<1>5. IsFiniteSet(having) /\ having \in SUBSET Int
  <2>1. Len(windows) \in Int /\ 1 \in Int /\ \A i \in 1..Len(windows) : i \in Int
    BY <1>1
  <2>2. IsFiniteSet(1..Len(windows))
    BY <2>1, FS_Interval
  <2>3. having \subseteq 1..Len(windows)
    OBVIOUS
  <2> HIDE DEF having
  <2>4. IsFiniteSet(having)
    BY <2>2, <2>3, FS_Subset
  <2> QED
    BY <2>1, <2>3, <2>4
<1> DEFINE i == Largest(having)
<1>6. i \in having
  <2> HIDE DEF having
  <2> QED
    BY <1>4, <1>5, Extremes
<1>7. WindowOf(a.id) = windows[i]
  BY DEF WindowOf
<1>8. i \in 1..Len(windows) /\ a.id \in Elements(windows[i].ids)
  BY <1>6
<1> HIDE DEF i, having
<1>9. PICK b \in Elements(windows[i].alerts) : b.id = a.id
  BY <1>2, <1>8
<1>10. b \in AlertRecords /\ b \in Elements(batch.alerts)
  <2>1. Elements(windows[i].alerts) \subseteq AlertRecords
    BY <1>2, <1>8, ElementsOf
  <2>2. b \in Held
    BY <1>8, <1>9 DEF Held, Elements
  <2> QED
    BY <1>9, <2>1, <2>2
<1>11. a = b
  <2> DEFINE S == {j \in 1..Len(batch.alerts) : batch.alerts[j].id = a.id}
  <2>1. Cardinality(S) = 1
    BY DEF Count
  <2>2. PICK j \in 1..Len(batch.alerts) : batch.alerts[j] = a
    BY <1>1, ElementsOf
  <2>3. PICK k \in 1..Len(batch.alerts) : batch.alerts[k] = b
    BY <1>1, <1>10, ElementsOf
  <2>4. j \in S /\ k \in S
    BY <1>9, <2>2, <2>3
  <2>5. IsFiniteSet(S)
    <3>1. Len(batch.alerts) \in Int /\ 1 \in Int
      BY <1>1
    <3>2. IsFiniteSet(1..Len(batch.alerts))
      BY <3>1, FS_Interval
    <3> QED
      BY <3>2, FS_Subset
  <2> HIDE DEF S
  <2>6. \E x : S = {x}
    BY <2>1, <2>5, FS_Singleton
  <2> QED
    BY <2>2, <2>3, <2>4, <2>6
<1> QED
  BY <1>7, <1>9, <1>11

\* Cutting loses no alert and repeats none, the index finds it, windows keep to
\* their group, gap and length, and none is cut without a reason
\* (build_incident_windows in all its modes, for every batch).
THEOREM CuttingKeepsAll == AdmissionSpec => []WindowsPartition
<1>1. WalkTypes /\ DistinctWindows /\ KeysKept /\ PlacesKept /\ TimesKept /\ CutsKept
        => WindowsPartition
  <2> SUFFICES ASSUME WalkTypes, KeysKept, PlacesKept, CutsKept, phase # "cut"
               PROVE  /\ \A a \in Elements(batch.alerts) \cup Held :
                           /\ Cardinality(InWindows(a)) = Cardinality(Where(a, batch.alerts))
                           /\ (a.id # 0 /\ Count(batch.alerts, LAMBDA b : b.id = a.id) = 1) =>
                                a \in Elements(WindowOf(a.id).alerts)
                      /\ \A w \in Elements(windows) : \A a \in Elements(w.alerts) :
                           GroupKey(batch, a) = w.id[2]
                      /\ Concerned => \A v, w \in Elements(windows) :
                           /\ Bounded(w)
                           /\ (v.id[2] = w.id[2] /\ w.id[1] = v.id[1] + 1) => CutForAReason(v, w)
    BY DEF WindowsPartition
  <2>1. groups = <<>> /\ current = <<>> /\ 1..Len(<<>>) = {}
    BY DEF KeysKept, WalkTypes
  <2>2. ASSUME NEW a \in AlertRecords PROVE Cardinality(PlacesIn(a, windows)) = Occurs(a, batch.alerts)
    <3>1. HereOf(a) = Occurs(a, batch.alerts)
      BY <2>1 DEF PlacesKept
    <3>2. Occurs(a, current) = 0 /\ Cardinality(PlacesIn(a, windows)) \in Nat
      BY <2>1, OccursSmall, HereIsNumber
    <3> QED
      BY <3>1, <3>2 DEF HereOf
  <2>3. windows \in Seq(BuiltWindows) /\ batch.alerts \in Seq(AlertRecords)
    BY CaseTypes DEF WalkTypes
  <2>4. ASSUME NEW a \in AlertRecords PROVE a \in Held <=> a \in Elements(batch.alerts)
    <3>1. Cardinality(PlacesIn(a, windows)) > 0 <=>
            \E i \in 1..Len(windows) : a \in Elements(windows[i].alerts)
      BY <2>3, PlacesAre
    <3>2. Occurs(a, batch.alerts) > 0 <=> a \in Elements(batch.alerts)
      BY <2>3, OccursNumber
    <3>3. a \in Held <=> \E i \in 1..Len(windows) : a \in Elements(windows[i].alerts)
      BY DEF Held, Elements
    <3> QED
      BY <2>2, <3>1, <3>2, <3>3, Zenon
  <2>5. Elements(batch.alerts) \cup Held \subseteq AlertRecords
    <3>1. Elements(batch.alerts) \subseteq AlertRecords
      BY <2>3, ElementsOf
    <3>2. ASSUME NEW w \in Elements(windows) PROVE Elements(w.alerts) \subseteq AlertRecords
      <4>1. w \in BuiltWindows
        BY <2>3 DEF Elements
      <4>2. w.alerts \in Seq(AlertRecords)
        BY <4>1, WindowIs
      <4> QED
        BY <4>2, ElementsOf
    <3> QED
      BY <3>1, <3>2 DEF Held
  <2>6. ASSUME NEW a \in Elements(batch.alerts) \cup Held
        PROVE  /\ Cardinality(InWindows(a)) = Cardinality(Where(a, batch.alerts))
               /\ (a.id # 0 /\ Count(batch.alerts, LAMBDA b : b.id = a.id) = 1) =>
                    a \in Elements(WindowOf(a.id).alerts)
    <3>1. a \in AlertRecords /\ a \in Elements(batch.alerts)
      BY <2>4, <2>5
    <3>2. Cardinality(InWindows(a)) = Cardinality(Where(a, batch.alerts))
      BY <2>2, <3>1 DEF InWindows, PlacesIn, Occurs
    <3>3. (a.id # 0 /\ Count(batch.alerts, LAMBDA b : b.id = a.id) = 1) =>
             a \in Elements(WindowOf(a.id).alerts)
      BY <2>4, <3>1, IndexFinds
    <3> QED
      BY <3>2, <3>3
  <2>7. Concerned => \A v, w \in Elements(windows) :
          /\ Bounded(w)
          /\ (v.id[2] = w.id[2] /\ w.id[1] = v.id[1] + 1) => CutForAReason(v, w)
    BY DEF Concerned, CutsKept, CutsReasoned, CutAt, CutForAReason
  <2> QED
    BY <2>6, <2>7 DEF KeysKept
<1> QED
  BY <1>1, WalkTyped, WindowsDistinct, KeysAreKept, PlacesAreKept, TimesAreKept, CutsAreKept, PTL
=============================================================================
