----------------------------- MODULE AiopsAgent -----------------------------
(***************************************************************************)
(* The AIOps agent's loop (run_agent_loop): an alert of sufficient         *)
(* severity is reasoned over, the suggestion published and appended to a   *)
(* file; then the cluster aggregator sees the alert and a trigger sends a  *)
(* second, cluster-scope request the same way.  Only then the loop         *)
(* commits, if either suggestion got through.                              *)
(*                                                                         *)
(* A request and its suggestion are <<location of the alert, scope>>.  The *)
(* provider (template or HTTP service) answers or raises.  What it answers *)
(* is data; which request it was asked is kept, because the request in the *)
(* queue and the one the suggestion is built for are different objects.    *)
(***************************************************************************)
EXTENDS ConsumerGroup, ClusterAggregator

CONSTANTS
  Alerts,      \* alerts the correlator may publish
  Minor,       \* an alert below AIOPS_MIN_SEVERITY
  Junk,        \* a record that is not JSON
  KeyOf,       \* KeyOf[a]: cluster key of an alert
  Stamps       \* Stamps[a]: times observe may read; any, when alert_ts
               \* does not parse and the wall clock stands in

Requests == Locations \X {"alert", "cluster"}

ASSUME AgentAssumption ==
  /\ None \notin Requests
  /\ Records = Alerts \cup {Minor, Junk}
  /\ Minor \notin Alerts /\ Junk \notin Alerts /\ Minor # Junk
  /\ KeyOf \in [Alerts -> ClusterKeys]
  /\ Stamps \in [Alerts -> SUBSET Nat]

VARIABLES
  pc,          \* what the loop does next with the record in hand
  request,     \* inference_request of the emission under way, or None
  queue,       \* InMemoryInferenceQueue
  answered,    \* request the result in hand answers, or None
  emitted,     \* should_commit
  topic,       \* suggestions in the topic: <<request, answered>>
  file,        \* readable lines of the suggestion files, likewise
  torn,        \* the current file ends in a line without newline
  outcome,     \* history: <<location, how>> each handling ended
  rejoined     \* history: a rebalance since the process started

emission == <<request, queue, answered>>
stores == <<topic, file, torn>>
ownVars == <<pc, emission, emitted, stores, outcome, rejoined>>
vars == <<groupVars, aggregatorVars, ownVars>>

Hows == {"minor", "junk", "advised", "glued", "abandoned", "skipped"}

EndsAs(loc, how) == outcome' = outcome \cup {<<loc, how>>}

-----------------------------------------------------------------------------
Alert(p, r) == Produce(p, r) /\ UNCHANGED <<aggregatorVars, ownVars>>

\* Not JSON, or below the severity floor: nothing to do but commit.
TakeIgnored(p) ==
  /\ Poll(p)
  /\ \/ Upcoming(p) = Junk /\ EndsAs(<<p, position[p] + 1>>, "junk")
     \/ Upcoming(p) = Minor /\ EndsAs(<<p, position[p] + 1>>, "minor")
  /\ emitted' = TRUE
  /\ pc' = "commit"
  /\ UNCHANGED <<aggregatorVars, emission, stores, rejoined>>

\* _run_inference_and_emit, first lines.
Enqueue(req) ==
  /\ request' = req
  /\ queue' = Append(queue, req)
  /\ pc' = "infer"
  /\ UNCHANGED answered

Take(p) ==
  /\ Poll(p)
  /\ Upcoming(p) \in Alerts
  /\ Enqueue(<<<<p, position[p] + 1>>, "alert">>)
  /\ emitted' = FALSE
  /\ UNCHANGED <<aggregatorVars, stores, outcome, rejoined>>

\* Mutant of EmissionEnds: a failure is tried again from observe on.
EmissionEndsReobserves(ok) ==
  /\ emitted' = (emitted \/ ok)
  /\ request' = None /\ answered' = None
  /\ pc' = IF request[2] = "alert" \/ ~ok THEN "observe" ELSE "commit"

\* _run_inference_and_emit returns: what is left of it is should_commit.
EmissionEnds(ok) ==
  /\ emitted' = (emitted \/ ok)
  /\ request' = None /\ answered' = None
  /\ pc' = IF request[2] = "alert" THEN "observe" ELSE "commit"

\* worker.run_once: dequeue, then ask the provider.
ProviderAnswers ==
  /\ pc = "infer"
  /\ answered' = Head(queue)
  /\ queue' = Tail(queue)
  /\ pc' = "publish"
  /\ UNCHANGED <<groupVars, aggregatorVars, request, emitted, stores,
                 outcome, rejoined>>

\* Mutant of ProviderRaised: a request leaves the queue once it is answered.
ProviderRaisedKeeps ==
  /\ pc = "infer"
  /\ EmissionEnds(FALSE)
  /\ UNCHANGED <<groupVars, aggregatorVars, queue, stores, outcome, rejoined>>

ProviderRaised ==
  /\ pc = "infer"
  /\ queue' = Tail(queue)
  /\ EmissionEnds(FALSE)
  /\ UNCHANGED <<groupVars, aggregatorVars, stores, outcome, rejoined>>

Published == topic' = topic \cup {<<request, answered>>}

PublishAcked ==
  /\ pc = "publish"
  /\ Published
  /\ pc' = "append"
  /\ UNCHANGED <<groupVars, aggregatorVars, emission, emitted, file, torn,
                 outcome, rejoined>>

\* Mutant of PublishFailed: the suggestion is kept in the file all the same.
PublishFailedAppends ==
  /\ pc = "publish"
  /\ UNCHANGED topic \/ Published
  /\ pc' = "append"
  /\ UNCHANGED <<groupVars, aggregatorVars, emission, emitted, file, torn,
                 outcome, rejoined>>

\* get(timeout=30) raised; the producer may deliver all the same.
PublishFailed ==
  /\ pc = "publish"
  /\ UNCHANGED topic \/ Published
  /\ EmissionEnds(FALSE)
  /\ UNCHANGED <<groupVars, aggregatorVars, queue, file, torn, outcome, rejoined>>

\* The line is readable unless it is glued to a fragment.
AppendOk ==
  /\ pc = "append"
  /\ torn' = FALSE
  /\ file' = IF torn THEN file ELSE file \cup {<<request, answered>>}
  /\ EndsAs(request[1], IF torn THEN "glued" ELSE "advised")
  /\ EmissionEnds(TRUE)
  /\ UNCHANGED <<groupVars, aggregatorVars, queue, topic, rejoined>>

\* Mutant of AppendRaised: a suggestion that is published counts.
AppendRaisedCounts ==
  /\ pc = "append"
  /\ torn' \in {torn, TRUE}
  /\ EmissionEnds(TRUE)
  /\ EndsAs(request[1], "advised")
  /\ UNCHANGED <<groupVars, aggregatorVars, queue, topic, file, rejoined>>

\* A failed append may leave a fragment without newline.
AppendRaised ==
  /\ pc = "append"
  /\ torn' \in {torn, TRUE}
  /\ EmissionEnds(FALSE)
  /\ UNCHANGED <<groupVars, aggregatorVars, queue, topic, file, outcome, rejoined>>

\* aggregator.observe(alert), after the alert's own suggestion and whatever
\* became of it; a trigger starts the second emission.
Observe ==
  /\ pc = "observe"
  /\ \E now \in Stamps[Current] :
       LET key   == KeyOf[Current]
           entry == [at |-> now, from |-> Here]
       IN /\ Observed(key, entry)
          /\ IF Fires(key, entry) THEN Enqueue(<<Here, "cluster">>)
             ELSE pc' = "commit" /\ UNCHANGED emission
  /\ UNCHANGED <<groupVars, emitted, stores, outcome, rejoined>>

\* Mutant of Commit: commit_if_needed without its condition.
CommitAlways ==
  /\ pc = "commit"
  /\ CommitIfNeeded(TRUE)
  /\ pc' = "poll"
  /\ UNCHANGED <<aggregatorVars, emission, emitted, stores, outcome, rejoined>>

Commit ==
  /\ pc = "commit"
  /\ CommitIfNeeded(emitted)
  /\ IF emitted THEN UNCHANGED outcome ELSE EndsAs(Here, "abandoned")
  /\ pc' = "poll"
  /\ UNCHANGED <<aggregatorVars, emission, emitted, stores, rejoined>>

-----------------------------------------------------------------------------
\* The hour turns: the next line goes to a new file.
NewHour == torn /\ torn' = FALSE /\ UNCHANGED
  <<groupVars, aggregatorVars, pc, emission, emitted, topic, file, outcome, rejoined>>

Skip ==
  outcome' = outcome \cup
    {<<l, "skipped">> : l \in
       {l \in ResumeSkips : \A how \in Hows : <<l, how>> \notin outcome}}

\* A rebalance leaves queue and aggregator as they are.
Rejoin ==
  /\ Rebalance
  /\ Skip
  /\ rejoined' = TRUE
  /\ UNCHANGED <<aggregatorVars, pc, emission, emitted, stores>>

\* The process dies at any point and starts again.
Restart ==
  /\ Assign
  /\ Skip
  /\ AggregatorLost
  /\ pc' = "poll" /\ emitted' = FALSE
  /\ request' = None /\ queue' = <<>> /\ answered' = None
  /\ rejoined' = FALSE
  /\ UNCHANGED stores

Init ==
  /\ GroupInit /\ AggregatorInit
  /\ pc = "poll" /\ emitted = FALSE
  /\ request = None /\ queue = <<>> /\ answered = None
  /\ topic = {} /\ file = {} /\ torn = FALSE
  /\ outcome = {} /\ rejoined = FALSE

Emit ==
  \/ ProviderAnswers \/ ProviderRaised
  \/ PublishAcked \/ PublishFailed
  \/ AppendOk \/ AppendRaised

Next ==
  \/ \E p \in Partitions : TakeIgnored(p) \/ Take(p)
  \/ \E p \in Partitions : \E r \in Records : Alert(p, r)
  \/ Emit \/ Observe \/ Commit
  \/ NewHour \/ Rejoin \/ Restart

Spec == Init /\ [][Next]_vars

-----------------------------------------------------------------------------
TypeOK ==
  /\ GroupTypeOK /\ AggregatorTypeOK(Locations)
  /\ pc \in {"poll", "infer", "publish", "append", "observe", "commit"}
  /\ (pc = "poll") <=> (inHand = None)
  /\ (pc \in {"infer", "publish", "append"}) <=> (request # None)
  /\ request \in Requests \cup {None} /\ answered \in Requests \cup {None}
  /\ queue \in Seq(Requests)
  /\ emitted \in BOOLEAN /\ torn \in BOOLEAN /\ rejoined \in BOOLEAN
  /\ topic \subseteq Requests \X Requests /\ file \subseteq topic
  /\ outcome \subseteq Locations \X Hows

Settled == {x[1] : x \in outcome}

\* A suggestion is built from the answer to its own request, never from one
\* that an earlier failed emission left in the queue (run_once takes the
\* oldest request, _run_inference_and_emit builds for the newest).
AnswersMatch == \A s \in topic \cup file : s[1] = s[2]

\* Everything before a committed offset has a suggestion of either scope in
\* the topic and in a readable line, or had none to get, or was given up,
\* glued to a fragment, or skipped by the reset policy.
CommittedIsAdvised ==
  \A p \in Partitions : \A n \in 1..committed[p] :
    LET loc == <<p, n>> IN
    \/ log[p][n] \notin Alerts
    \/ \E s \in topic \cap file : s[1][1] = loc
    \/ \E how \in {"glued", "abandoned", "skipped"} : <<loc, how>> \in outcome

\* A cluster counts an alert twice only when a rebalance has handed it out
\* again in the same life of the process: an alert is observed once per
\* delivery, whatever became of its suggestion.
CountedOnce ==
  \A t \in triggers : \A i, j \in 1..Len(t.members) :
    t.members[i].from = t.members[j].from => i = j \/ rejoined

\* The agent keeps the offset promise of a core consumer.
Ledger ==
  INSTANCE OffsetLedger WITH
    end <- [p \in Partitions |-> Len(log[p])], hand <- inHand,
    settled <- Settled

LedgerSpec == Ledger!Spec

=============================================================================
