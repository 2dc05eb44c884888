--------------------------- MODULE SuggestionParts --------------------------
(***************************************************************************)
(* What the AIOps agent puts into a suggestion beside the provider's       *)
(* answer: the evidence pack, the ranked hypotheses, the review verdict    *)
(* and the runbook draft; and the upgrade of a suggestion that was written *)
(* before these parts existed.                                             *)
(*                                                                         *)
(* A bundle is the set of its fields that carry a value, with the two      *)
(* counts, the change flag and the gate that the builders branch on.  A    *)
(* piece of evidence is the name of the field it cites.                    *)
(***************************************************************************)
EXTENDS Integers, Sequences, FiniteSets, SequencesExt, Places

CONSTANT None

Least(a, b) == IF a <= b THEN a ELSE b
Greatest(a, b) == IF a >= b THEN a ELSE b
FirstOf(s, n) == SubSeq(s, 1, Least(n, Len(s)))

Present(b, fields) == SelectSeq(fields, LAMBDA f : f \in b.has)
Absent(b, fields) == SelectSeq(fields, LAMBDA f : f \notin b.has)
When(test, s) == IF test THEN s ELSE <<>>

\* A count of zero is a value: recurrence and cluster size always support, even
\* where they contradict.
DirectEvidence(b) ==
  <<"rule_id", "severity">> \o
  Present(b, <<"service", "src_device_key", "path_signature", "metrics">>)

SupportingEvidence(b) ==
  <<"recent_similar_1h", "cluster_size">> \o
  Present(b, <<"neighbor_refs", "recent_alert_samples", "change_refs", "known_services",
               "recent_policy_hits", "root_candidate_nodes">>) \o
  When(b.gate # None, <<"llm_invocation_gate">>)

ContradictoryEvidence(b) ==
  When(b.similar = 0, <<"recent_similar_1h">>) \o
  When(b.size <= 1, <<"cluster_size">>) \o
  When(~b.suspected, <<"suspected_change">>) \o
  When(b.gate # None /\ ~b.gate.invoke, <<"llm_invocation_gate">>)

MissingEvidence(b) ==
  Absent(b, <<"device_name", "srcip", "dstip", "neighbor_refs", "selected_node_ids",
              "recent_alert_samples", "change_refs">>)

\* Alert and topology are always live.
Freshness(b) ==
  <<"live_bundle_window", "live_bundle_window",
    IF b.similar > 0 THEN "hot_lookup_window" ELSE "no_recent_support",
    IF b.suspected \/ "change_refs" \in b.has THEN "recent_change_window" ELSE "not_attached">>

EvidencePack(b) ==
  [direct |-> DirectEvidence(b), supporting |-> SupportingEvidence(b),
   contradictory |-> ContradictoryEvidence(b), missing |-> MissingEvidence(b),
   fresh |-> Freshness(b)]

\* build_runbook_plan_outline asserts the same boundary for every alert.
RunbookOutline ==
  [prechecks |-> <<"confirm tuple", "check changes", "verify target">>,
   actions |-> <<"review evidence", "read-only first", "prepare rollback">>,
   rollback |-> <<"document state", "attach rollback steps">>,
   approval |-> TRUE, mode |-> "human_gated", write |-> FALSE]

ActionForRank(actions, i) ==
  IF actions = <<>> THEN "" ELSE IF i <= Len(actions) THEN actions[i] ELSE actions[1]

\* An answer without hypotheses has its summary as the only one.
BuildHypothesisSet(request, scope, pack, answer) ==
  LET direct == FirstOf(pack.direct, 3)  supporting == FirstOf(pack.supporting, 4)
      against == FirstOf(pack.contradictory, 3)  missing == FirstOf(pack.missing, 3)
      statements == IF answer.hypotheses = <<>> THEN <<answer.summary>> ELSE answer.hypotheses
      items == [i \in 1..Len(statements) |->
        [id |-> <<request, scope, i>>, rank |-> i, statement |-> statements[i],
         score |-> Greatest(35, answer.confidence - 8 * (i - 1)),
         support |-> direct \o supporting, against |-> against, missing |-> missing,
         next |-> ActionForRank(answer.actions, i),
         state |-> IF i = 1 THEN "pending_review" ELSE "candidate"]] IN
  [scope |-> scope, primary |-> items[1].id, items |-> items,
   total |-> Len(items), directCount |-> Len(direct), supportingCount |-> Len(supporting),
   againstCount |-> Len(against), missingCount |-> Len(missing)]

BlockingIssues(b, pack) ==
  When(~(Len(pack.direct) >= 4 /\ Len(pack.supporting) >= 1), <<"support missing">>) \o
  When(Len(pack.contradictory) > Len(pack.supporting) /\ pack.contradictory # <<>>,
       <<"contradicted">>) \o
  When(b.gate # None /\ ~b.gate.invoke /\ b.gate.lowEvidence, <<"low-evidence gate">>) \o
  When(RunbookOutline.rollback = <<>>, <<"rollback incomplete">>)

BuildReviewVerdict(scope, b, pack) ==
  LET issues == BlockingIssues(b, pack)
      approval == RunbookOutline.approval
      sections == {pack.fresh[i] : i \in 1..Len(pack.fresh)}
      anchored == {"service", "src_device_key", "path_signature"} \subseteq
                  {pack.direct[i] : i \in 1..Len(pack.direct)} IN
  [scope |-> scope,
   status |-> CASE issues # <<>> -> "needs_evidence"
                [] issues = <<>> /\ approval -> "operator_review"
                [] OTHER -> "accepted",
   disposition |-> CASE issues # <<>> -> "return_to_evidence_gather"
                     [] issues = <<>> /\ approval -> "project_with_operator_boundary"
                     [] OTHER -> "ready_for_projection",
   approval |-> approval,
   issues |-> issues,
   checks |->
     [sufficiency |-> IF Len(pack.direct) >= 4 /\ Len(pack.supporting) >= 1
                      THEN "sufficient" ELSE "needs_evidence",
      freshness |-> IF sections \cap {"live_bundle_window", "hot_lookup_window",
                                      "recent_change_window"} # {} THEN "fresh" ELSE "stale",
      topology |-> IF anchored /\ "selected_node_ids" \in b.has
                   THEN "consistent" ELSE "partial",
      overreach |-> IF approval THEN "guarded" ELSE "bounded",
      remediation |-> IF RunbookOutline.prechecks # <<>> /\ RunbookOutline.actions # <<>>
                      THEN "bounded" ELSE "draft_only",
      rollback |-> IF RunbookOutline.rollback # <<>> THEN "ready" ELSE "missing"]]

\* The lines of s without blanks and repetitions.
DedupeLines(s) ==
  LET kept == {i \in 1..Len(s) : s[i] # "" /\ \A j \in 1..(i - 1) : s[j] # s[i]} IN
  At(s, kept)

PrimaryHypothesis(set) ==
  LET named == {i \in 1..Len(set.items) : set.items[i].id = set.primary} IN
  IF named # {} THEN set.items[CHOOSE i \in named : \A j \in named : i <= j]
  ELSE set.items[1]

BuildRunbookDraft(scope, b, pack, set, verdict, actions) ==
  LET primary == PrimaryHypothesis(set) IN
  [scope |-> scope,
   status |-> IF verdict.disposition = "return_to_evidence_gather"
              THEN "needs_evidence" ELSE "draft_ready",
   hypothesis |-> primary.id, statement |-> primary.statement,
   actions |-> FirstOf(DedupeLines(RunbookOutline.actions \o actions), 4),
   boundaries |-> <<"guidance only", IF RunbookOutline.approval THEN "approval required"
                                     ELSE "approval not asserted">>
                  \o FirstOf(verdict.issues, 2),
   rollback |-> RunbookOutline.rollback,
   approval |-> RunbookOutline.approval, mode |-> RunbookOutline.mode,
   write |-> RunbookOutline.write,
   evidence |-> FirstOf(DedupeLines(pack.direct \o pack.supporting \o pack.contradictory
                                    \o pack.missing), 8),
   changed |-> b.suspected]

Priority(severity) == IF severity = "warning" THEN "P2" ELSE "P1"

\* A record of the suggestions file; staged says that it has stage requests.
\* The context repeats the counts of the bundle.
Suggestion(head, b, answer) ==
  LET pack == EvidencePack(b)
      set == BuildHypothesisSet(head.id, head.scope, pack, answer)
      verdict == BuildReviewVerdict(head.scope, b, pack) IN
  [id |-> head.id, alert |-> head.alert, ts |-> head.ts, scope |-> head.scope,
   severity |-> head.severity, first |-> head.first, last |-> head.last,
   bundle |-> b, priority |-> Priority(head.severity), answer |-> answer,
   context |-> [size |-> IF b.size # 0 THEN b.size ELSE 1, similar |-> b.similar,
                has |-> b.has \cap {"service", "src_device_key"}],
   set |-> set, verdict |-> verdict,
   plan |-> BuildRunbookDraft(head.scope, b, pack, set, verdict, answer.actions),
   staged |-> TRUE]

\* A suggestion from before: the provider's answer, a context and a bundle that
\* may be thin.
LegacySuggestion(head, context, b, answer) ==
  [id |-> head.id, alert |-> head.alert, ts |-> head.ts, scope |-> head.scope,
   severity |-> head.severity, first |-> head.first, last |-> head.last,
   bundle |-> b, priority |-> Priority(head.severity), answer |-> answer,
   context |-> context, set |-> None, verdict |-> None, plan |-> None, staged |-> FALSE]

\* The bundle gets a path signature whatever it knew and loses its policy hits;
\* what it lacks comes from the context.
UpgradeBundle(b, context) ==
  [b EXCEPT !.has = (@ \ {"recent_policy_hits"}) \cup context.has \cup {"path_signature"},
            !.similar = IF @ # 0 THEN @ ELSE context.similar,
            !.size = CASE @ # 0 -> @ [] @ = 0 /\ context.size # 0 -> context.size [] OTHER -> 1]

Upgrade(s) ==
  IF s.staged THEN s
  ELSE LET b == UpgradeBundle(s.bundle, s.context)
           pack == EvidencePack(b)
           set == BuildHypothesisSet(s.id, s.scope, pack, s.answer)
           verdict == BuildReviewVerdict(s.scope, b, pack) IN
       [s EXCEPT !.bundle = b, !.set = set, !.verdict = verdict, !.staged = TRUE,
                 !.plan = BuildRunbookDraft(s.scope, b, pack, set, verdict, s.answer.actions)]
=============================================================================
