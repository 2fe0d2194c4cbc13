-------------------------- MODULE DryRunOrchestration --------------------------
(***************************************************************************)
(* Runs of the dry-run orchestration (run_dry_run_orchestration) and       *)
(* reviews of a brief alone (build_management_review_packet_from_components *)
(* without triage and work order), each followed by the approval record    *)
(* built from its result.                                                  *)
(*                                                                         *)
(* The client runs the same task again after it changed: the management    *)
(* decision it passes may be the one taken on an earlier state of the      *)
(* task, since nothing ties a ManagementDecisionRecord to a summary.       *)
(***************************************************************************)
EXTENDS Governance

CONSTANTS AreaSets,     \* the sets of changed areas a request may name
          BriefGates,   \* the sets of hard gates a brief's risk snapshot may list
          Reviewers     \* who signs management decisions

ASSUME ReviewersAssumption == "dry-run-system" \notin Reviewers

VARIABLES decision,   \* the management decision on file for the task, or None
          request,    \* the last request: a triage context or a brief
          result      \* its outcome, None before the first one

vars == <<decision, request, result>>

ManagementDecisions == [decision : Decisions, reviewer : Reviewers]

Contexts ==
  [changed_areas : AreaSets, task_in_active_phase : BOOLEAN,
   verification_passed : BOOLEAN, ambiguous_scope : BOOLEAN, generate_work_order : BOOLEAN]

\* What intake_result_to_current_brief_artifact leaves at its defaults.
IntakeBrief == [candidate_routing |-> "progress_control_department", hard_gate_triggers |-> {}]

\* Briefs a caller assembles itself may list hard gates.
Briefs == [candidate_routing : {"progress_control_department"}, hard_gate_triggers : BriefGates]

\* The part that both paths share: summary, packet, queue item, projection, record.
Review(brief, triage, work_order, m) ==
  LET summary    == build_management_review_summary(brief, triage, work_order)
      activation == derive_dry_run_activation_decision(summary, effective_decision(summary, m))
  IN [summary |-> summary, management_decision |-> m, activation |-> activation,
      autonomous_continuation_allowed |-> project_dry_run_decision(summary, m),
      record |-> IF RecordRaises(activation) THEN None ELSE build_approval_record(activation, m)]

run_dry_run_orchestration(c, m) ==
  LET triage == triage_task(c)
  IN Review(IntakeBrief, triage,
            IF c.generate_work_order THEN build_work_order_draft(triage) ELSE None, m)

Init ==
  /\ decision = None
  /\ request = None
  /\ result = None

\* Management or an auditor decides, or decides anew.
Decide ==
  /\ decision' \in ManagementDecisions
  /\ UNCHANGED <<request, result>>

DryRun ==
  /\ \E c \in Contexts :
       /\ request' = c
       /\ result' = run_dry_run_orchestration(c, decision)
  /\ UNCHANGED decision

ReviewBrief ==
  /\ \E b \in Briefs :
       /\ request' = b
       /\ result' = Review(b, None, None, decision)
  /\ UNCHANGED decision

Next == Decide \/ DryRun \/ ReviewBrief

Spec == Init /\ [][Next]_vars

\* ------------------------------------------------------------------ properties

IsDryRun == request \in Contexts

\* Work that governance keeps from continuing on its own: a hard gate is touched,
\* several departments are, the phase is wrong, or nobody triaged it.
Gated ==
  IsDryRun =>
    \/ "cross_department" \in request.changed_areas
    \/ request.changed_areas \intersect DOMAIN AREA_TO_HARD_GATE # {}
    \/ ~request.task_in_active_phase

\* Whatever management decision is on file, fresh or stale, gated work is neither
\* allowed to continue nor activated, and no human approval is recorded for it
\* (triage_task, required_review through both summary paths, the downgrade in
\* derive_dry_run_activation_decision, the last two tests of project_dry_run_decision).
GatedWorkNeverContinues ==
  result # None /\ Gated =>
    /\ ~result.autonomous_continuation_allowed
    /\ result.activation.recommendation # "GO"
    /\ result.activation.human_status # "approved"

\* The decision that a result was projected from: the one management had taken when the
\* request was made, else the one of the summary.
Decided(r) == effective_decision(r.summary, r.management_decision)

\* It claims an approval exactly for GO, and that only where GO was decided and nothing
\* blocks it, escalates to the auditors exactly where REVIEW was decided, and is signed
\* by whoever decided.
RecordFollowsDecision(record, decided) ==
  /\ record.human_approval_status = "approved" <=> record.recommendation = "GO"
  /\ record.recommendation = "GO" => decided.decision = "GO" /\ record.blocker_notes = {}
  /\ record.escalation = IF decided.decision = "REVIEW"
                         THEN "Audit and Review Department" ELSE "none"
  /\ record.reviewer = decided.reviewer
  /\ record.approver = decided.reviewer

\* "If blockers remain unresolved, recommendation should be PAUSE or REVIEW"
\* (docs/action_department_activation_approval_record_format.md), for the record that
\* is filed: it can always be built, and approves, escalates and names as its signer
\* what was decided, through both downgrades (derive_dry_run_activation_decision,
\* build_action_department_activation_approval_record).
ApprovalRecordTruthful ==
  result # None =>
    result.record # None /\ RecordFollowsDecision(result.record, Decided(result))

\* Drafting a work order is no decision: without it the same task gets the same
\* summary, the same projection and the same record (build_work_order_draft and the
\* two branches of every _select_* function).
WorkOrderChangesNothing ==
  result # None /\ IsDryRun =>
    \A m \in ManagementDecisions \union {None} :
      run_dry_run_orchestration([request EXCEPT !.generate_work_order = TRUE], m)
        = run_dry_run_orchestration([request EXCEPT !.generate_work_order = FALSE], m)

\* The two classifiers agree: triage goes through its own chain of tests, and comes to
\* the decision of assess_continuation, but for work across departments; its
\* defensive fallback is never taken.
TriageFollowsAssessment ==
  result # None /\ IsDryRun =>
    LET areas  == normalized_areas(request)
        triage == triage_task(request)
    IN /\ triage.decision = IF "cross_department" \in areas THEN "REVIEW"
                            ELSE assess_continuation(request, detect_hard_gate_triggers(areas))
       /\ triage.hard_gate_triggers # {} => triage.decision = "REVIEW"
       /\ triage.escalation_reason = "ambiguous_scope" => request.ambiguous_scope

\* "Unresolved blockers prevent continuation even if management decision says GO."
\* (activation_decision.py): also where the permission to continue is decided.
BlockersPreventContinuation ==
  result # None /\ result.activation.remaining_blockers # {} =>
    ~result.autonomous_continuation_allowed
===============================================================================
