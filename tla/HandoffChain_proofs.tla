-------------------------- MODULE HandoffChain_proofs --------------------------
(***************************************************************************)
(* What the dry-run orchestration lets continue and which record it files, *)
(* for every set of areas, hard gates and reviewers, and what becomes of a *)
(* result that is handed off, in whichever order the builders are called.  *)
(*                                                                         *)
(* A result is a function of the last request and of a management decision *)
(* that was on file then, so the invariant of the dry runs only says       *)
(* which; the rest are facts about the pure pipeline of Governance.  The   *)
(* invariant of the handoff says which labels an artifact carries: the     *)
(* facts about the tables it rests on are checked stage by stage.          *)
(***************************************************************************)
EXTENDS HandoffChain, TLAPS

OnFile == ManagementDecisions \union {None}

Explained(m) ==
  \/ request \in Contexts /\ result = run_dry_run_orchestration(request, m)
  \/ request \in Briefs /\ result = Review(request, None, None, m)

IInv ==
  /\ decision \in OnFile
  /\ result # None => \E m \in OnFile : Explained(m)

\* ------------------------------------------------------------------- the triage

\* Triage decides one of the three decisions, and REVIEW exactly when it routes the
\* task to management and escalates it.
LEMMA TriageShape ==
  ASSUME NEW c \in Contexts
  PROVE  LET t == triage_task(c) IN
         /\ t.decision \in Decisions
         /\ t.decision = "REVIEW" <=> t.routing_target = "management_department"
         /\ t.decision = "REVIEW" <=> t.escalation_likely_required
         /\ t.routing_target # "audit_review_department"
         /\ t.escalation_likely_required \in BOOLEAN
         /\ t # None
BY DEF triage_task, TriageResult, Decisions, None

\* Work that is gated is triaged to REVIEW.
LEMMA GatedIsReview ==
  ASSUME NEW c \in Contexts,
         \/ "cross_department" \in c.changed_areas
         \/ c.changed_areas \intersect DOMAIN AREA_TO_HARD_GATE # {}
         \/ ~c.task_in_active_phase
  PROVE  triage_task(c).decision = "REVIEW"
<1> DEFINE hard_gates == detect_hard_gate_triggers(normalized_areas(c))
<1>1. "cross_department" \in c.changed_areas => "cross_department" \in normalized_areas(c)
  BY DEF normalized_areas, NoArea
<1>2. c.changed_areas \intersect DOMAIN AREA_TO_HARD_GATE # {} => hard_gates # {}
  <2> SUFFICES ASSUME NEW a \in c.changed_areas \intersect DOMAIN AREA_TO_HARD_GATE
               PROVE  hard_gates # {}
    OBVIOUS
  <2>1. NoArea \notin DOMAIN AREA_TO_HARD_GATE
    BY DEF NoArea, AREA_TO_HARD_GATE
  <2>2. a \in normalized_areas(c) \intersect DOMAIN AREA_TO_HARD_GATE
    BY <2>1 DEF normalized_areas
  <2>3. AREA_TO_HARD_GATE[a] \in hard_gates
    BY <2>2 DEF detect_hard_gate_triggers
  <2> QED
    BY <2>3
<1> HIDE DEF hard_gates
<1>3. "cross_department" \notin normalized_areas(c) /\ hard_gates # {} =>
        triage_task(c).decision = "REVIEW"
  BY DEF triage_task, TriageResult, hard_gates
<1>4. "cross_department" \in normalized_areas(c) \/ ~c.task_in_active_phase =>
        triage_task(c).decision = "REVIEW"
  BY DEF triage_task, TriageResult
<1> QED
  BY <1>1, <1>2, <1>3, <1>4

\* ------------------------------------------------------------------ the summary

\* The summary of a triaged task does not depend on a work order: it takes over the
\* triage and requires a review for REVIEW only.
LEMMA SummaryOfTriage ==
  ASSUME NEW c \in Contexts, NEW brief, NEW order \in {None, build_work_order_draft(triage_task(c))}
  PROVE  LET t == triage_task(c)
             s == build_management_review_summary(brief, t, order)
         IN /\ s.decision_outcome = t.decision
            /\ s.department_routing = t.routing_target
            /\ s.hard_gate_triggers = t.hard_gate_triggers
            /\ s.escalation_reason = t.escalation_reason
            /\ s.required_review <=> t.decision = "REVIEW"
            /\ s.hard_gate_triggered <=> t.hard_gate_triggers # {}
<1> DEFINE t == triage_task(c)
           s == build_management_review_summary(brief, t, order)
<1>1. /\ t.decision = "REVIEW" <=> t.routing_target = "management_department"
      /\ t.decision = "REVIEW" <=> t.escalation_likely_required
      /\ t.routing_target # "audit_review_department"
      /\ t # None
  BY TriageShape
<1> HIDE DEF t
<1>2. management_review_required(t) <=> t.decision = "REVIEW"
  BY <1>1 DEF management_review_required
<1>3. CASE order = None
  BY <1>1, <1>3 DEF build_management_review_summary, Summary, t
<1>4. CASE order = build_work_order_draft(t)
  <2> DEFINE draft == build_work_order_draft(t)
  <2>1. /\ draft.decision_outcome = t.decision /\ draft.assigned_department = t.routing_target
        /\ draft.hard_gate_triggers = t.hard_gate_triggers
        /\ draft.management_review_required <=> t.decision = "REVIEW"
        /\ draft.escalation_reason = t.escalation_reason
    BY <1>2 DEF build_work_order_draft
  <2>2. draft # None
    BY DEF build_work_order_draft, None
  <2> HIDE DEF draft
  <2>3. /\ s.decision_outcome = draft.decision_outcome
        /\ s.department_routing = draft.assigned_department
        /\ s.hard_gate_triggers = draft.hard_gate_triggers
        /\ s.escalation_reason = draft.escalation_reason
        /\ s.required_review = draft.management_review_required
        /\ s.hard_gate_triggered <=> draft.hard_gate_triggers # {}
    <3>1. order = draft
      BY <1>4 DEF draft
    <3> QED
      BY <2>2, <3>1 DEF build_management_review_summary, Summary
  <2> HIDE DEF s
  <2> QED
    BY <2>1, <2>3 DEF s, t
<1> QED
  BY <1>3, <1>4 DEF t

\* ------------------------------------------------------------------- the review

\* The decision that counts is one of the three.
LEMMA EffectiveDecides ==
  ASSUME NEW summary, summary.decision_outcome \in Decisions, NEW m \in OnFile
  PROVE  effective_decision(summary, m).decision \in Decisions
BY DEF effective_decision, OnFile, ManagementDecisions

\* A required review keeps the task from continuing and from being approved.
LEMMA RequiredReviewStops ==
  ASSUME NEW brief, NEW triage, NEW order, NEW m \in OnFile,
         LET summary == build_management_review_summary(brief, triage, order)
         IN summary.required_review /\ summary.decision_outcome \in Decisions
  PROVE  LET r == Review(brief, triage, order, m) IN
         /\ ~r.autonomous_continuation_allowed
         /\ r.activation.recommendation # "GO"
         /\ r.activation.human_status # "approved"
<1> DEFINE summary == build_management_review_summary(brief, triage, order)
           e == effective_decision(summary, m)
           a == derive_dry_run_activation_decision(summary, e)
           r == Review(brief, triage, order, m)
<1>1. e.decision \in Decisions
  BY EffectiveDecides
<1>2. r.autonomous_continuation_allowed = project_dry_run_decision(summary, m) /\ r.activation = a
  BY DEF Review
<1>3. ~project_dry_run_decision(summary, m)
  BY DEF project_dry_run_decision
<1> HIDE DEF r, e
<1>4. a.recommendation \in {"PAUSE", "REVIEW"}
  BY <1>1 DEF derive_dry_run_activation_decision, Activation, Decisions
<1>5. a.human_status = human_status_for_decision(a.recommendation)
  BY DEF derive_dry_run_activation_decision, Activation
<1>6. a.human_status # "approved"
  BY <1>4, <1>5 DEF human_status_for_decision
<1> QED
  BY <1>2, <1>3, <1>4, <1>6 DEF r

\* The record of every review says what the activation says.
LEMMA RecordOfReview ==
  ASSUME NEW brief, NEW triage, NEW order, NEW m \in OnFile,
         build_management_review_summary(brief, triage, order).decision_outcome \in Decisions
  PROVE  LET r == Review(brief, triage, order, m)
         IN r.record # None /\ RecordFollowsDecision(r.record, Decided(r))
<1> DEFINE summary == build_management_review_summary(brief, triage, order)
           e == effective_decision(summary, m)
           a == derive_dry_run_activation_decision(summary, e)
           r == Review(brief, triage, order, m)
           record == build_approval_record(a, m)
<1>1. e.decision \in Decisions
  BY EffectiveDecides
<1>2. /\ r.record = IF RecordRaises(a) THEN None ELSE record
      /\ Decided(r) = e
  BY DEF Review, Decided
<1>3. e.reviewer = IF m # None THEN m.reviewer ELSE "dry-run-system"
  BY DEF effective_decision
<1> HIDE DEF r, e, summary
<1>4. /\ a.recommendation \in Decisions
      /\ a.recommendation = "GO" => e.decision = "GO" /\ a.remaining_blockers = {}
      /\ a.recommendation = "REVIEW" <=> e.decision = "REVIEW"
      /\ a.recommendation = "REVIEW" =>
           a.escalation_destination = "Audit and Review Department"
      /\ a.human_status = human_status_for_decision(a.recommendation)
      /\ a.approver = e.reviewer
  BY <1>1 DEF derive_dry_run_activation_decision, Activation, Decisions
<1> HIDE DEF a
<1>5. /\ record.human_approval_status = a.human_status
      /\ record.recommendation = a.recommendation
      /\ record.blocker_notes = a.remaining_blockers
      /\ record.approver = a.approver
      /\ record.escalation = IF a.recommendation = "REVIEW"
                             THEN a.escalation_destination ELSE "none"
      /\ record.reviewer = IF m # None THEN m.reviewer ELSE a.approver
  BY DEF build_approval_record
<1>6. record # None
  BY DEF build_approval_record, None
<1> HIDE DEF record
<1>7. record.human_approval_status = "approved" <=> record.recommendation = "GO"
  BY <1>4, <1>5 DEF human_status_for_decision, Decisions
<1>8. r.record = record
  BY <1>2, <1>4 DEF RecordRaises
<1>9. RecordFollowsDecision(record, e)
  BY <1>3, <1>4, <1>5, <1>7 DEF RecordFollowsDecision
<1> QED
  BY <1>2, <1>6, <1>8, <1>9 DEF r

\* --------------------------------------------------------------- the invariants

\* Every result is explained by the last request and a decision of management.
THEOREM ResultsExplained == Spec => []IInv
<1>1. Init => IInv
  BY DEF Init, IInv, OnFile
<1>2. IInv /\ [Next]_vars => IInv'
  <2> SUFFICES ASSUME IInv, [Next]_vars PROVE IInv'
    OBVIOUS
  <2>1. CASE Decide
    BY <2>1 DEF Decide, IInv, OnFile, Explained
  <2>2. CASE DryRun
    BY <2>2 DEF DryRun, IInv, Explained
  <2>3. CASE ReviewBrief
    BY <2>3 DEF ReviewBrief, IInv, Explained
  <2>4. CASE UNCHANGED vars
    BY <2>4 DEF vars, IInv, Explained
  <2> QED
    BY <2>1, <2>2, <2>3, <2>4 DEF Next
<1> QED
  BY <1>1, <1>2, PTL DEF Spec

\* The summary of a dry run, with its decision.
LEMMA DryRunSummary ==
  ASSUME NEW c \in Contexts, NEW m
  PROVE  \E order \in {None, build_work_order_draft(triage_task(c))} :
           /\ run_dry_run_orchestration(c, m) = Review(IntakeBrief, triage_task(c), order, m)
           /\ LET summary == build_management_review_summary(IntakeBrief, triage_task(c), order)
              IN /\ summary.decision_outcome = triage_task(c).decision
                 /\ summary.decision_outcome \in Decisions
                 /\ summary.required_review <=> triage_task(c).decision = "REVIEW"
<1> DEFINE t     == triage_task(c)
           order == IF c.generate_work_order THEN build_work_order_draft(t) ELSE None
           summary == build_management_review_summary(IntakeBrief, t, order)
<1>1. run_dry_run_orchestration(c, m) = Review(IntakeBrief, t, order, m)
  BY DEF run_dry_run_orchestration
<1>2. order \in {None, build_work_order_draft(t)}
  OBVIOUS
<1>3. t.decision \in Decisions
  BY TriageShape
<1>4. /\ summary.decision_outcome = t.decision
      /\ summary.required_review <=> t.decision = "REVIEW"
  BY <1>2, SummaryOfTriage
<1> HIDE DEF order
<1> QED
  BY <1>1, <1>2, <1>3, <1>4

\* The summary of a brief alone pauses it and requires its review.
LEMMA BriefSummary ==
  ASSUME NEW b
  PROVE  LET summary == build_management_review_summary(b, None, None)
         IN summary.decision_outcome \in Decisions /\ summary.required_review
BY DEF build_management_review_summary, Summary, Decisions

\* Whatever decision management left on file, gated work neither continues nor is
\* approved (triage_task, derive_dry_run_activation_decision, project_dry_run_decision).
THEOREM GatedWorkStops == Spec => []GatedWorkNeverContinues
<1>1. IInv => GatedWorkNeverContinues
  <2> SUFFICES ASSUME IInv, result # None, Gated
               PROVE  /\ ~result.autonomous_continuation_allowed
                      /\ result.activation.recommendation # "GO"
                      /\ result.activation.human_status # "approved"
    BY DEF GatedWorkNeverContinues
  <2>1. PICK m \in OnFile : Explained(m)
    BY DEF IInv
  <2>2. CASE request \in Contexts /\ result = run_dry_run_orchestration(request, m)
    <3>1. triage_task(request).decision = "REVIEW"
      BY <2>2, GatedIsReview DEF Gated, IsDryRun
    <3>2. PICK order \in {None, build_work_order_draft(triage_task(request))} :
            /\ result = Review(IntakeBrief, triage_task(request), order, m)
            /\ LET summary ==
                     build_management_review_summary(IntakeBrief, triage_task(request), order)
               IN summary.decision_outcome \in Decisions /\ summary.required_review
      BY <2>2, <3>1, DryRunSummary
    <3> QED
      BY <3>2, RequiredReviewStops
  <2>3. CASE request \in Briefs /\ result = Review(request, None, None, m)
    BY <2>3, BriefSummary, RequiredReviewStops
  <2> QED
    BY <2>1, <2>2, <2>3 DEF Explained
<1> QED
  BY <1>1, ResultsExplained, PTL

\* The approval record can always be built, and approves, escalates and names as its
\* signer what was decided (build_approval_record, derive_dry_run_activation_decision).
THEOREM RecordsAreTruthful == Spec => []ApprovalRecordTruthful
<1>1. IInv => ApprovalRecordTruthful
  <2> SUFFICES ASSUME IInv, result # None
               PROVE  /\ result.record # None
                      /\ RecordFollowsDecision(result.record, Decided(result))
    BY DEF ApprovalRecordTruthful
  <2>1. PICK m \in OnFile : Explained(m)
    BY DEF IInv
  <2>2. CASE request \in Contexts /\ result = run_dry_run_orchestration(request, m)
    BY <2>2, DryRunSummary, RecordOfReview
  <2>3. CASE request \in Briefs /\ result = Review(request, None, None, m)
    BY <2>3, BriefSummary, RecordOfReview
  <2> QED
    BY <2>1, <2>2, <2>3 DEF Explained
<1> QED
  BY <1>1, ResultsExplained, PTL

\* With a work order or without, the summary of a triaged task is the same record.
LEMMA SameSummary ==
  ASSUME NEW c \in Contexts, NEW brief
  PROVE  build_management_review_summary(brief, triage_task(c),
                                         build_work_order_draft(triage_task(c)))
           = build_management_review_summary(brief, triage_task(c), None)
<1> DEFINE t     == triage_task(c)
           draft == build_work_order_draft(t)
<1>1. /\ t.decision = "REVIEW" <=> t.routing_target = "management_department"
      /\ t.decision = "REVIEW" <=> t.escalation_likely_required
      /\ t.routing_target # "audit_review_department"
      /\ t # None
  BY TriageShape
<1> HIDE DEF t
<1>2. /\ draft.decision_outcome = t.decision /\ draft.assigned_department = t.routing_target
      /\ draft.hard_gate_triggers = t.hard_gate_triggers
      /\ draft.escalation_reason = t.escalation_reason
      /\ draft.management_review_required = (t.decision = "REVIEW" \/ t.escalation_likely_required)
      /\ draft # None
  <2>1. management_review_required(t) = (t.decision = "REVIEW" \/ t.escalation_likely_required)
    BY <1>1 DEF management_review_required
  <2> QED
    BY <2>1 DEF build_work_order_draft, None
<1> HIDE DEF draft
<1>3. build_management_review_summary(brief, t, draft)
        = build_management_review_summary(brief, t, None)
  BY <1>1, <1>2 DEF build_management_review_summary
<1> QED
  BY <1>3 DEF draft, t

\* Triage, assessment and packet read nothing of a context but the facts of the task.
LEMMA TriageIgnoresOrder ==
  ASSUME NEW c \in Contexts, NEW b \in BOOLEAN
  PROVE  LET d == [c EXCEPT !.generate_work_order = b] IN
         /\ d \in Contexts
         /\ d.generate_work_order = b
         /\ triage_task(d) = triage_task(c)
<1> DEFINE d == [c EXCEPT !.generate_work_order = b]
<1>1. /\ d \in Contexts /\ d.generate_work_order = b
      /\ d.changed_areas = c.changed_areas /\ d.task_in_active_phase = c.task_in_active_phase
      /\ d.verification_passed = c.verification_passed /\ d.ambiguous_scope = c.ambiguous_scope
  BY DEF Contexts
<1> HIDE DEF d
<1>2. normalized_areas(d) = normalized_areas(c)
  BY <1>1 DEF normalized_areas
<1>3. \A gates : assess_continuation(d, gates) = assess_continuation(c, gates)
  BY <1>1 DEF assess_continuation
<1>4. triage_task(d) = triage_task(c)
  BY <1>1, <1>2, <1>3 DEF triage_task
<1> QED
  BY <1>1, <1>4 DEF d

\* A work order never changes what management, the activation or the record say
\* (build_work_order_draft, the _select_* functions of management_review.py).
THEOREM WorkOrderIsNeutral == Spec => []WorkOrderChangesNothing
<1>1. WorkOrderChangesNothing
  <2> SUFFICES ASSUME request \in Contexts, NEW m \in ManagementDecisions \union {None}
               PROVE  run_dry_run_orchestration([request EXCEPT !.generate_work_order = TRUE], m)
                        = run_dry_run_orchestration([request EXCEPT !.generate_work_order = FALSE], m)
    BY DEF WorkOrderChangesNothing, IsDryRun
  <2> DEFINE with    == [request EXCEPT !.generate_work_order = TRUE]
             without == [request EXCEPT !.generate_work_order = FALSE]
             t       == triage_task(request)
  <2>1. /\ triage_task(with) = t /\ with.generate_work_order = TRUE
        /\ triage_task(without) = t /\ without.generate_work_order = FALSE
    BY TriageIgnoresOrder
  <2> HIDE DEF with, without
  <2>2. run_dry_run_orchestration(with, m) = Review(IntakeBrief, t, build_work_order_draft(t), m)
    BY <2>1 DEF run_dry_run_orchestration
  <2>3. run_dry_run_orchestration(without, m) = Review(IntakeBrief, t, None, m)
    BY <2>1 DEF run_dry_run_orchestration
  <2>4. build_management_review_summary(IntakeBrief, t, build_work_order_draft(t))
          = build_management_review_summary(IntakeBrief, t, None)
    BY SameSummary
  <2>5. Review(IntakeBrief, t, build_work_order_draft(t), m) = Review(IntakeBrief, t, None, m)
    BY <2>4 DEF Review
  <2> QED
    BY <2>2, <2>3, <2>5 DEF with, without
<1> QED
  BY <1>1, PTL

\* The two classifiers agree on every task, and the fallback of triage is never taken
\* (triage_task, assess_continuation).
THEOREM ClassifiersAgree == Spec => []TriageFollowsAssessment
<1>1. TriageFollowsAssessment
  <2> SUFFICES ASSUME request \in Contexts
               PROVE  LET areas  == normalized_areas(request)
                          triage == triage_task(request)
                      IN /\ triage.decision =
                              IF "cross_department" \in areas THEN "REVIEW"
                              ELSE assess_continuation(request, detect_hard_gate_triggers(areas))
                         /\ triage.hard_gate_triggers # {} => triage.decision = "REVIEW"
                         /\ triage.escalation_reason = "ambiguous_scope" => request.ambiguous_scope
    BY DEF TriageFollowsAssessment, IsDryRun
  <2> QED
    BY DEF triage_task, TriageResult, assess_continuation
<1> QED
  BY <1>1, PTL

\* ------------------------------------------------------------ the stages and tables

\* The label of every stage, for each recommendation: the columns of the tables.
Path ==
  <<[GO |-> "ready", PAUSE |-> "hold", REVIEW |-> "needs_review"],
    [GO |-> "deliver", PAUSE |-> "defer", REVIEW |-> "route_for_review"],
    [GO |-> "dispatch", PAUSE |-> "wait", REVIEW |-> "review_queue"],
    [GO |-> "send", PAUSE |-> "park", REVIEW |-> "review"],
    [GO |-> "active", PAUSE |-> "queued", REVIEW |-> "review_pending"],
    [GO |-> "open", PAUSE |-> "deferred", REVIEW |-> "blocked_for_review"],
    [GO |-> "in_progress", PAUSE |-> "pending", REVIEW |-> "review_hold"],
    [GO |-> "advance", PAUSE |-> "await", REVIEW |-> "review_wait"],
    [GO |-> "moving", PAUSE |-> "standing_by", REVIEW |-> "awaiting_review"],
    [GO |-> "none", PAUSE |-> "monitor", REVIEW |-> "review_required"],
    [GO |-> "low", PAUSE |-> "medium", REVIEW |-> "high"],
    [GO |-> "none", PAUSE |-> "notify", REVIEW |-> "escalate"],
    [GO |-> "normal", PAUSE |-> "elevated", REVIEW |-> "urgent"],
    [GO |-> "standard_channel", PAUSE |-> "priority_channel", REVIEW |-> "escalation_channel"],
    [GO |-> "standard_route", PAUSE |-> "priority_route", REVIEW |-> "escalation_route"],
    [GO |-> "none", PAUSE |-> "follow_up", REVIEW |-> "escalation_follow_up"],
    [GO |-> "observe", PAUSE |-> "engage", REVIEW |-> "escalate"],
    [GO |-> "no_action", PAUSE |-> "action_required", REVIEW |-> "escalation_required"],
    [GO |-> "observation_queue", PAUSE |-> "action_queue", REVIEW |-> "escalation_queue"],
    [GO |-> "observe_only", PAUSE |-> "process_action", REVIEW |-> "process_escalation"],
    [GO |-> "none", PAUSE |-> "operator_required", REVIEW |-> "senior_operator_required"],
    [GO |-> "self_service_lane", PAUSE |-> "operator_lane", REVIEW |-> "senior_operator_lane"],
    [GO |-> "self_service", PAUSE |-> "operator_managed", REVIEW |-> "senior_managed"],
    [GO |-> "deferred", PAUSE |-> "standard", REVIEW |-> "priority"],
    [GO |-> "backlog_window", PAUSE |-> "standard_window", REVIEW |-> "priority_window"],
    [GO |-> "later", PAUSE |-> "scheduled", REVIEW |-> "immediate"],
    [GO |-> "backlog_commitment", PAUSE |-> "scheduled_commitment",
     REVIEW |-> "immediate_commitment"],
    [GO |-> "deferred_readiness", PAUSE |-> "planned_readiness", REVIEW |-> "ready_now"],
    [GO |-> "parked", PAUSE |-> "prepared", REVIEW |-> "dispatch_ready"],
    [GO |-> "withhold", PAUSE |-> "pre_authorize", REVIEW |-> "authorize"],
    [GO |-> "not_permitted", PAUSE |-> "conditionally_permitted", REVIEW |-> "permitted"],
    [GO |-> "blocked", PAUSE |-> "gated", REVIEW |-> "clear"],
    [GO |-> "hold_release", PAUSE |-> "conditional_release", REVIEW |-> "release"],
    [GO |-> "hold_mode", PAUSE |-> "guarded_mode", REVIEW |-> "release_mode"],
    [GO |-> "do_not_execute", PAUSE |-> "execute_with_guard", REVIEW |-> "execute_release"],
    [GO |-> "blocked_lane", PAUSE |-> "guarded_lane", REVIEW |-> "release_lane"],
    [GO |-> "do_not_route", PAUSE |-> "route_with_guard", REVIEW |-> "route_for_release"],
    [GO |-> "hold_plan", PAUSE |-> "guarded_release_plan", REVIEW |-> "release_plan"],
    [GO |-> "hold_queue", PAUSE |-> "guarded_release_queue", REVIEW |-> "release_queue"],
    [GO |-> "low", PAUSE |-> "medium", REVIEW |-> "high"],
    [GO |-> "deferred_window", PAUSE |-> "controlled_window", REVIEW |-> "immediate_window"],
    [GO |-> "backlog_schedule", PAUSE |-> "guarded_schedule", REVIEW |-> "immediate_schedule"],
    [GO |-> "not_ready", PAUSE |-> "prepared", REVIEW |-> "ready"],
    [GO |-> "withhold", PAUSE |-> "conditional_authority", REVIEW |-> "full_authority"],
    [GO |-> "not_permitted", PAUSE |-> "conditionally_permitted", REVIEW |-> "permitted"],
    [GO |-> "blocked", PAUSE |-> "gated", REVIEW |-> "clear"]>>

\* The place of every key in the chain.
Position ==
  [receiver_readiness_classification |-> 1,
   receiver_handling_directive |-> 2,
   receiver_action_label |-> 3,
   receiver_dispatch_intent |-> 4,
   receiver_dispatch_mode |-> 5,
   receiver_release_gate |-> 6,
   receiver_progress_state |-> 7,
   receiver_progress_signal |-> 8,
   receiver_progress_outcome |-> 9,
   receiver_intervention_requirement |-> 10,
   receiver_attention_level |-> 11,
   receiver_notification_requirement |-> 12,
   receiver_response_priority |-> 13,
   receiver_response_channel |-> 14,
   receiver_response_route |-> 15,
   receiver_followup_requirement |-> 16,
   consumer_decision_posture |-> 17,
   consumer_action_requirement |-> 18,
   consumer_work_queue_assignment |-> 19,
   consumer_processing_plan |-> 20,
   consumer_operator_requirement |-> 21,
   consumer_assignment_lane |-> 22,
   consumer_service_tier |-> 23,
   consumer_sla_class |-> 24,
   consumer_response_window |-> 25,
   consumer_timing_posture |-> 26,
   consumer_scheduling_commitment |-> 27,
   consumer_execution_readiness |-> 28,
   consumer_dispatch_readiness |-> 29,
   consumer_dispatch_authority |-> 30,
   consumer_dispatch_permission |-> 31,
   consumer_dispatch_clearance |-> 32,
   consumer_release_decision |-> 33,
   consumer_release_mode |-> 34,
   consumer_release_execution_requirement |-> 35,
   consumer_release_execution_lane |-> 36,
   consumer_release_handling_intent |-> 37,
   consumer_release_action_plan |-> 38,
   consumer_release_queue |-> 39,
   consumer_release_priority |-> 40,
   consumer_release_window |-> 41,
   consumer_release_schedule |-> 42,
   consumer_release_readiness |-> 43,
   consumer_release_authority |-> 44,
   consumer_release_permission |-> 45,
   consumer_release_clearance |-> 46]

Stages == 1..Len(Chain)

\* The label that the builder of stage n reads.
Before(n, r) == IF n = 1 THEN r ELSE Path[n - 1][r]

Released == {"ready", "deliver", "dispatch", "send", "active", "open"}

\* Stage n adds a key of its own, reads the key of the stage before, and its table
\* knows every label that one can add and tells them apart; it carries all ids along; of
\* the receiver's stages, only the one for GO releases anything.
Fits(n) ==
  /\ Position[Chain[n].adds] = n
  /\ Chain[n].carries = RelatedIds
  /\ n > 1 => Chain[n].reads = Chain[n - 1].adds
  /\ \A r \in Decisions :
       /\ Before(n, r) \in DOMAIN Chain[n].table
       /\ Chain[n].table[Before(n, r)] = Path[n][r]
       /\ \A s \in Decisions \ {r} : Path[n][s] # Path[n][r]
       /\ n <= ReceiverStages /\ r # "GO" => Path[n][r] \notin Released

\* Every stage fits the one before (the tables of HandoffStages, one by one).
LEMMA StagesFit ==
  /\ Len(Chain) = 46
  /\ \A n \in Stages : Fits(n)
<1> USE DEF Fits, Before, Path, Position, Chain, Stage, Decisions, ReceiverStages, Released
<1>1. Fits(1)
  BY DEF receiver_readiness_classification
<1>2. Fits(2)
  BY DEF receiver_readiness_classification, receiver_handling_directive
<1>3. Fits(3)
  BY DEF receiver_handling_directive, receiver_action_label
<1>4. Fits(4)
  BY DEF receiver_action_label, receiver_dispatch_intent
<1>5. Fits(5)
  BY DEF receiver_dispatch_intent, receiver_dispatch_mode
<1>6. Fits(6)
  BY DEF receiver_dispatch_mode, receiver_release_gate
<1>7. Fits(7)
  BY DEF receiver_release_gate, receiver_progress_state
<1>8. Fits(8)
  BY DEF receiver_progress_state, receiver_progress_signal
<1>9. Fits(9)
  BY DEF receiver_progress_signal, receiver_progress_outcome
<1>10. Fits(10)
  BY DEF receiver_progress_outcome, receiver_intervention_requirement
<1>11. Fits(11)
  BY DEF receiver_intervention_requirement, receiver_attention_level
<1>12. Fits(12)
  BY DEF receiver_attention_level, receiver_notification_requirement
<1>13. Fits(13)
  BY DEF receiver_notification_requirement, receiver_response_priority
<1>14. Fits(14)
  BY DEF receiver_response_priority, receiver_response_channel
<1>15. Fits(15)
  BY DEF receiver_response_channel, receiver_response_route
<1>16. Fits(16)
  BY DEF receiver_response_route, receiver_followup_requirement
<1>17. Fits(17)
  BY DEF receiver_followup_requirement, consumer_decision_posture
<1>18. Fits(18)
  BY DEF consumer_decision_posture, consumer_action_requirement
<1>19. Fits(19)
  BY DEF consumer_action_requirement, consumer_work_queue_assignment
<1>20. Fits(20)
  BY DEF consumer_work_queue_assignment, consumer_processing_plan
<1>21. Fits(21)
  BY DEF consumer_processing_plan, consumer_operator_requirement
<1>22. Fits(22)
  BY DEF consumer_operator_requirement, consumer_assignment_lane
<1>23. Fits(23)
  BY DEF consumer_assignment_lane, consumer_service_tier
<1>24. Fits(24)
  BY DEF consumer_service_tier, consumer_sla_class
<1>25. Fits(25)
  BY DEF consumer_sla_class, consumer_response_window
<1>26. Fits(26)
  BY DEF consumer_response_window, consumer_timing_posture
<1>27. Fits(27)
  BY DEF consumer_timing_posture, consumer_scheduling_commitment
<1>28. Fits(28)
  BY DEF consumer_scheduling_commitment, consumer_execution_readiness
<1>29. Fits(29)
  BY DEF consumer_execution_readiness, consumer_dispatch_readiness
<1>30. Fits(30)
  BY DEF consumer_dispatch_readiness, consumer_dispatch_authority
<1>31. Fits(31)
  BY DEF consumer_dispatch_authority, consumer_dispatch_permission
<1>32. Fits(32)
  BY DEF consumer_dispatch_permission, consumer_dispatch_clearance
<1>33. Fits(33)
  BY DEF consumer_dispatch_clearance, consumer_release_decision
<1>34. Fits(34)
  BY DEF consumer_release_decision, consumer_release_mode
<1>35. Fits(35)
  BY DEF consumer_release_mode, consumer_release_execution_requirement
<1>36. Fits(36)
  BY DEF consumer_release_execution_requirement, consumer_release_execution_lane
<1>37. Fits(37)
  BY DEF consumer_release_execution_lane, consumer_release_handling_intent
<1>38. Fits(38)
  BY DEF consumer_release_handling_intent, consumer_release_action_plan
<1>39. Fits(39)
  BY DEF consumer_release_action_plan, consumer_release_queue
<1>40. Fits(40)
  BY DEF consumer_release_queue, consumer_release_priority
<1>41. Fits(41)
  BY DEF consumer_release_priority, consumer_release_window
<1>42. Fits(42)
  BY DEF consumer_release_window, consumer_release_schedule
<1>43. Fits(43)
  BY DEF consumer_release_schedule, consumer_release_readiness
<1>44. Fits(44)
  BY DEF consumer_release_readiness, consumer_release_authority
<1>45. Fits(45)
  BY DEF consumer_release_authority, consumer_release_permission
<1>46. Fits(46)
  BY DEF consumer_release_permission, consumer_release_clearance
<1> HIDE DEF Fits, Before, Path, Position, Stage, Decisions, ReceiverStages, Released
<1>47. Len(Chain) = 46
  BY DEF Chain
<1> HIDE DEF Chain
<1> QED
  BY <1>1, <1>2, <1>3, <1>4, <1>5, <1>6, <1>7, <1>8, <1>9, <1>10, <1>11, <1>12,
     <1>13, <1>14, <1>15, <1>16, <1>17, <1>18, <1>19, <1>20, <1>21, <1>22, <1>23,
     <1>24, <1>25, <1>26, <1>27, <1>28, <1>29, <1>30, <1>31, <1>32, <1>33, <1>34,
     <1>35, <1>36, <1>37, <1>38, <1>39, <1>40, <1>41, <1>42, <1>43, <1>44, <1>45,
     <1>46, <1>47 DEF Stages

\* Different stages add different keys.
LEMMA KeysDiffer ==
  ASSUME NEW i \in Stages, NEW j \in Stages, Chain[i].adds = Chain[j].adds
  PROVE  i = j
BY StagesFit DEF Fits

\* Called in order, the builders add the labels of the path.
LEMMA LabelsOfPath ==
  ASSUME NEW r \in Decisions
  PROVE  \A n \in Stages : LabelOf(r)[n] = Path[n][r]
<1> DEFINE Is(f) == f = [n \in Stages |-> Chain[n].table[IF n = 1 THEN r ELSE f[n - 1]]]
           path  == [n \in Stages |-> Path[n][r]]
           f     == LabelOf(r)
<1>1. Is(path)
  <2> SUFFICES ASSUME NEW n \in Stages
               PROVE  Path[n][r] = Chain[n].table[IF n = 1 THEN r ELSE path[n - 1]]
    OBVIOUS
  <2>1. n # 1 => path[n - 1] = Path[n - 1][r]
    BY StagesFit DEF Stages
  <2>2. Chain[n].table[Before(n, r)] = Path[n][r]
    BY StagesFit DEF Fits
  <2> QED
    BY <2>1, <2>2 DEF Before
<1>2. f = CHOOSE g : Is(g)
  BY DEF LabelOf, Stages
<1>3. Is(f)
  <2> HIDE DEF Is, path
  <2> QED
    BY <1>1, <1>2
<1> HIDE DEF f
<1>4. f[1] = Path[1][r]
  <2>1. Chain[1].table[Before(1, r)] = Path[1][r]
    BY StagesFit DEF Fits, Stages
  <2> QED
    BY <1>3, <2>1, StagesFit DEF Before, Stages
<1>5. ASSUME NEW n \in Stages, n > 1, f[n - 1] = Path[n - 1][r]
      PROVE  f[n] = Path[n][r]
  <2>1. Chain[n].table[Before(n, r)] = Path[n][r]
    BY StagesFit DEF Fits
  <2> QED
    BY <1>3, <1>5, <2>1 DEF Before
<1>6. \A n \in Stages : f[n] = Path[n][r]
  <2> HIDE DEF Is
  <2>1. Stages = 1..46
    BY StagesFit DEF Stages
  <2> QED
    BY <1>4, <1>5, <2>1
<1> QED
  BY <1>6 DEF f

\* ------------------------------------------------------------------- the handoff

LabelsOK(a, r) ==
  /\ \E k \in 0..Len(Chain) : DOMAIN a.labels = Labelled(k)
  /\ \A n \in Stages : Chain[n].adds \in DOMAIN a.labels => a.labels[Chain[n].adds] = Path[n][r]

\* An artifact holds the activation that was handed off, and of the labels that belong
\* to its recommendation those of the first k stages.
ChainInv ==
  artifact # None =>
    /\ result # None
    /\ {"projected", "approval_record", "related", "labels"} \subseteq DOMAIN artifact
    /\ artifact.related \subseteq RelatedIds
    /\ artifact.projected = result.activation
    /\ artifact.projected.recommendation \in Decisions
    /\ LabelsOK(artifact, artifact.projected.recommendation)

\* What a builder leaves alone, and the labels after it.
Kept(a, b) ==
  /\ b # None
  /\ {"projected", "approval_record", "related", "labels"} \subseteq DOMAIN b
  /\ b.projected = a.projected
  /\ b.approval_record = a.approval_record
  /\ b.related = a.related

\* Setting the labels of an artifact changes nothing else of it, if its ids are carried.
LEMMA LabelsSet ==
  ASSUME NEW a, {"projected", "approval_record", "related", "labels"} \subseteq DOMAIN a,
         NEW f, NEW b, NEW ids, a.related \subseteq ids,
         \/ b = [a EXCEPT !.labels = f]
         \/ b = [a EXCEPT !.related = @ \intersect ids, !.labels = f]
  PROVE  Kept(a, b) /\ b.labels = f
<1>1. DOMAIN b = DOMAIN a
  OBVIOUS
<1>2. DOMAIN None = {"none"}
  BY DEF None
<1>3. b # None
  BY <1>1, <1>2
<1>4. a.related \intersect ids = a.related
  OBVIOUS
<1> QED
  BY <1>1, <1>3, <1>4 DEF Kept

\* A builder that repackages the first labels keeps them as they are.
LEMMA RepackagingKeeps ==
  ASSUME NEW a, NEW r,
         {"projected", "approval_record", "related", "labels"} \subseteq DOMAIN a,
         LabelsOK(a, r),
         NEW k \in 0..Len(Chain), Labelled(k) \subseteq DOMAIN a.labels
  PROVE  Kept(a, Repackaged(a, k)) /\ LabelsOK(Repackaged(a, k), r)
<1> DEFINE f == [key \in Labelled(k) |-> a.labels[key]]
<1>1. Kept(a, Repackaged(a, k)) /\ Repackaged(a, k).labels = f
  <2>1. Repackaged(a, k) = [a EXCEPT !.labels = f] /\ a.related \subseteq a.related
    BY DEF Repackaged
  <2> HIDE DEF f
  <2> QED
    BY <2>1, LabelsSet
<1>2. \A n \in Stages : Chain[n].adds \in DOMAIN f => f[Chain[n].adds] = Path[n][r]
  BY DEF LabelsOK
<1> HIDE DEF f
<1>3. DOMAIN f = Labelled(k)
  BY DEF f
<1> QED
  BY <1>1, <1>2, <1>3 DEF LabelsOK

\* A labelling builder adds the label of its stage and drops those of later ones.
LEMMA BuildingLabels ==
  ASSUME NEW a, NEW r \in Decisions, a.projected.recommendation = r,
         {"projected", "approval_record", "related", "labels"} \subseteq DOMAIN a,
         a.related \subseteq RelatedIds, LabelsOK(a, r),
         NEW n \in Stages, Accepts(a, n)
  PROVE  Kept(a, Build(a, n)) /\ LabelsOK(Build(a, n), r)
<1> DEFINE f == [key \in Required(n) \union {Chain[n].adds} |->
                   IF key = Chain[n].adds THEN Chain[n].table[Read(a, n)] ELSE a.labels[key]]
<1>1. Kept(a, Build(a, n)) /\ Build(a, n).labels = f
  <2>1. Build(a, n) = [a EXCEPT !.related = @ \intersect Chain[n].carries, !.labels = f]
    BY DEF Build
  <2>2. a.related \subseteq Chain[n].carries
    BY StagesFit DEF Fits
  <2> HIDE DEF f
  <2> QED
    BY <2>1, <2>2, LabelsSet
<1>2. n \in 1..46 /\ Stages = 1..46 /\ Len(Chain) = 46
  BY StagesFit DEF Stages
<1>3. DOMAIN f = Labelled(n)
  <2>1. Labelled(n) = Labelled(n - 1) \union {Chain[n].adds}
    BY <1>2 DEF Labelled
  <2> QED
    BY <2>1 DEF Required
<1>4. Read(a, n) = Before(n, r)
  <2>1. CASE n = 1
    BY <2>1 DEF Read, Before
  <2>2. CASE n # 1
    <3>1. n - 1 \in Stages /\ Chain[n].reads = Chain[n - 1].adds
      BY <1>2, <2>2, StagesFit DEF Fits
    <3>2. Chain[n - 1].adds \in Labelled(n - 1)
      BY <1>2, <2>2 DEF Labelled
    <3>3. a.labels[Chain[n - 1].adds] = Path[n - 1][r]
      BY <3>1, <3>2 DEF Accepts, Required, LabelsOK
    <3> QED
      BY <2>2, <3>1, <3>3 DEF Read, Before
  <2> QED
    BY <2>1, <2>2
<1>5. f[Chain[n].adds] = Path[n][r]
  BY <1>4, StagesFit DEF Fits
<1>6. ASSUME NEW m \in Stages, Chain[m].adds \in DOMAIN f
      PROVE  f[Chain[m].adds] = Path[m][r]
  <2>1. CASE Chain[m].adds = Chain[n].adds
    <3>1. m = n
      BY <2>1, KeysDiffer
    <3> QED
      BY <1>5, <3>1
  <2>2. CASE Chain[m].adds # Chain[n].adds
    <3>1. Chain[m].adds \in Required(n)
      BY <1>6, <2>2
    <3>2. f[Chain[m].adds] = a.labels[Chain[m].adds]
      BY <2>2, <3>1
    <3>3. Chain[m].adds \in DOMAIN a.labels
      BY <3>1 DEF Accepts
    <3> QED
      BY <3>2, <3>3 DEF LabelsOK
  <2> QED
    BY <2>1, <2>2
<1> HIDE DEF f
<1> QED
  BY <1>1, <1>2, <1>3, <1>6 DEF LabelsOK

\* What an artifact was labelled with is settled by its recommendation.
LEMMA ChainStep ==
  ASSUME ChainInv, artifact # None, UNCHANGED vars,
         Label \/ RepackageEnvelope \/ RepackageDecisionSurface
  PROVE  ChainInv' /\ Kept(artifact, artifact')
<1> DEFINE r == artifact.projected.recommendation
<1>1. /\ result # None /\ result' = result
      /\ {"projected", "approval_record", "related", "labels"} \subseteq DOMAIN artifact
      /\ artifact.related \subseteq RelatedIds
      /\ artifact.projected = result.activation
      /\ r \in Decisions
      /\ LabelsOK(artifact, r)
  BY DEF ChainInv, vars
<1>2. Kept(artifact, artifact') /\ LabelsOK(artifact', r)
  <2>1. CASE Label
    BY <1>1, <2>1, BuildingLabels DEF Label, Stages
  <2>2. CASE RepackageEnvelope
    <3>1. 0 \in 0..Len(Chain) /\ Labelled(0) \subseteq DOMAIN artifact.labels
      BY StagesFit DEF Labelled
    <3> QED
      BY <1>1, <2>2, <3>1, RepackagingKeeps DEF RepackageEnvelope
  <2>3. CASE RepackageDecisionSurface
    <3>1. ReceiverStages \in 0..Len(Chain)
      BY StagesFit DEF ReceiverStages
    <3> QED
      BY <1>1, <2>3, <3>1, RepackagingKeeps DEF RepackageDecisionSurface
  <2> QED
    BY <2>1, <2>2, <2>3
<1>3. r' = r /\ artifact'.projected = artifact.projected
  BY <1>2 DEF Kept
<1>4. LabelsOK(artifact, artifact.projected.recommendation)'
  BY <1>2, <1>3 DEF LabelsOK, Stages, Labelled
<1> QED
  BY <1>1, <1>2, <1>3, <1>4 DEF Kept, ChainInv

\* What is handed off comes with one of the three recommendations.
LEMMA ActivationDecides ==
  ASSUME IInv, result # None
  PROVE  result.activation.recommendation \in Decisions
<1>1. ASSUME NEW brief, NEW triage, NEW order, NEW m \in OnFile,
             build_management_review_summary(brief, triage, order).decision_outcome \in Decisions
      PROVE  Review(brief, triage, order, m).activation.recommendation \in Decisions
  <2> DEFINE summary == build_management_review_summary(brief, triage, order)
             e == effective_decision(summary, m)
  <2>1. e.decision \in Decisions
    BY <1>1, EffectiveDecides
  <2>2. Review(brief, triage, order, m).activation = derive_dry_run_activation_decision(summary, e)
    BY DEF Review
  <2> HIDE DEF e, summary
  <2>3. derive_dry_run_activation_decision(summary, e).recommendation \in Decisions
    BY <2>1 DEF derive_dry_run_activation_decision, Activation, Decisions
  <2> QED
    BY <2>2, <2>3
<1>2. PICK m \in OnFile : Explained(m)
  BY DEF IInv
<1>3. CASE request \in Contexts /\ result = run_dry_run_orchestration(request, m)
  BY <1>1, <1>3, DryRunSummary
<1>4. CASE request \in Briefs /\ result = Review(request, None, None, m)
  BY <1>1, <1>4, BriefSummary
<1> QED
  BY <1>2, <1>3, <1>4 DEF Explained

\* The handoff takes over the activation, without labels.
LEMMA HandOffStep ==
  ASSUME IInv, HandOff
  PROVE  ChainInv'
<1>1. PICK ids \in RelatedIdSets :
        artifact' = [projected |-> result.activation, approval_record |-> result.record,
                     related |-> ids, labels |-> <<>>]
  BY DEF HandOff
<1>2. /\ result # None /\ result' = result
      /\ result.activation.recommendation \in Decisions
  BY ActivationDecides DEF HandOff, vars
<1>3. /\ artifact'.projected = result.activation
      /\ artifact'.related \subseteq RelatedIds
      /\ DOMAIN artifact' = {"projected", "approval_record", "related", "labels"}
      /\ artifact'.labels = <<>>
  BY <1>1, RelatedIdsAssumption
<1>4. DOMAIN artifact'.labels = {}
  BY <1>3
<1>5. Labelled(0) = {} /\ 0 \in 0..Len(Chain)
  BY StagesFit DEF Labelled
<1>6. LabelsOK(artifact, artifact.projected.recommendation)'
  BY <1>4, <1>5 DEF LabelsOK
<1> QED
  BY <1>2, <1>3, <1>6 DEF ChainInv

\* The handoff leaves the dry runs as they are: what holds of those holds here.
THEOREM ChainKeepsDryRuns == ChainSpec => Spec
<1>1. ChainInit => Init
  BY DEF ChainInit
<1>2. [ChainNext]_chainVars => [Next]_vars
  BY DEF ChainNext, Orchestrate, HandOff, Label, RepackageEnvelope, RepackageDecisionSurface,
         chainVars, vars
<1> QED
  BY <1>1, <1>2, PTL DEF ChainSpec, Spec

\* In whichever order the builders are called.
THEOREM LabelsInvariant == ChainSpec => []ChainInv
<1>1. ChainInit => ChainInv
  BY DEF ChainInit, ChainInv
<1>2. IInv /\ ChainInv /\ [ChainNext]_chainVars => ChainInv'
  <2> SUFFICES ASSUME IInv, ChainInv, [ChainNext]_chainVars PROVE ChainInv'
    OBVIOUS
  <2>1. CASE Orchestrate
    BY <2>1 DEF Orchestrate, ChainInv
  <2>2. CASE HandOff
    BY <2>2, HandOffStep
  <2>3. CASE Label
    BY <2>3, ChainStep DEF Label
  <2>4. CASE RepackageEnvelope
    BY <2>4, ChainStep DEF RepackageEnvelope
  <2>5. CASE RepackageDecisionSurface
    BY <2>5, ChainStep DEF RepackageDecisionSurface
  <2>6. CASE UNCHANGED chainVars
    <3>1. result' = result /\ artifact' = artifact
      BY <2>6 DEF chainVars
    <3> QED
      BY <3>1 DEF ChainInv, LabelsOK
  <2> QED
    BY <2>1, <2>2, <2>3, <2>4, <2>5, <2>6 DEF ChainNext
<1>3. ChainSpec => []IInv
  BY ResultsExplained, ChainKeepsDryRuns, PTL
<1> QED
  BY <1>1, <1>2, <1>3, PTL DEF ChainSpec

\* An artifact carries a prefix of the labels, each the one that belongs to its
\* recommendation and to no other (the tables, each written against the last).
THEOREM LabelsTellTheDecision == ChainSpec => []LabelsIdentifyDecision
<1>1. ChainInv => LabelsIdentifyDecision
  <2> SUFFICES ASSUME ChainInv, artifact # None PROVE LabelsIdentifyDecision
    BY DEF LabelsIdentifyDecision, HandedOff
  <2> DEFINE r == artifact.projected.recommendation
  <2>1. r \in Decisions /\ LabelsOK(artifact, r)
    BY DEF ChainInv
  <2>2. ASSUME NEW n \in Stages, Chain[n].adds \in DOMAIN artifact.labels
        PROVE  /\ artifact.labels[Chain[n].adds] = LabelOf(r)[n]
               /\ \A other \in Decisions \ {r} : LabelOf(other)[n] # LabelOf(r)[n]
    <3>1. artifact.labels[Chain[n].adds] = Path[n][r]
      BY <2>1, <2>2 DEF LabelsOK
    <3>2. \A other \in Decisions : LabelOf(other)[n] = Path[n][other]
      BY LabelsOfPath
    <3>3. \A other \in Decisions \ {r} : Path[n][other] # Path[n][r]
      BY <2>1, StagesFit DEF Fits
    <3> QED
      BY <2>1, <3>1, <3>2, <3>3
  <2>3. \E k \in 0..Len(Chain) : DOMAIN artifact.labels = Labelled(k)
    BY <2>1 DEF LabelsOK
  <2> QED
    BY <2>2, <2>3 DEF LabelsIdentifyDecision, Stages
<1> QED
  BY <1>1, LabelsInvariant, PTL

\* No builder meets a label its table does not know (the KeyError of the lookups).
THEOREM TheChainContinues == ChainSpec => []ChainContinues
<1>1. ChainInv => ChainContinues
  <2> SUFFICES ASSUME ChainInv, artifact # None,
                      Chain[Len(Chain)].adds \notin DOMAIN artifact.labels
               PROVE  \E n \in Stages :
                        Chain[n].adds \notin DOMAIN artifact.labels /\ Accepts(artifact, n)
    BY DEF ChainContinues, HandedOff, Stages
  <2> DEFINE r == artifact.projected.recommendation
  <2>1. r \in Decisions /\ LabelsOK(artifact, r)
    BY DEF ChainInv
  <2>2. PICK k \in 0..Len(Chain) : DOMAIN artifact.labels = Labelled(k)
    BY <2>1 DEF LabelsOK
  <2>3. k + 1 \in Stages /\ k \in Nat
    <3>1. k # Len(Chain)
      BY <2>2, StagesFit DEF Labelled
    <3> QED
      BY <3>1, StagesFit DEF Stages
  <2>4. Required(k + 1) \subseteq DOMAIN artifact.labels
    BY <2>2, <2>3 DEF Required
  <2>5. Chain[k + 1].adds \notin DOMAIN artifact.labels
    <3> SUFFICES ASSUME NEW i \in 1..k, Chain[i].adds = Chain[k + 1].adds PROVE FALSE
      BY <2>2 DEF Labelled
    <3>1. i \in Stages
      BY <2>3 DEF Stages
    <3> QED
      BY <2>3, <3>1, KeysDiffer
  <2>6. Read(artifact, k + 1) = Before(k + 1, r)
    <3>1. CASE k = 0
      BY <3>1 DEF Read, Before
    <3>2. CASE k # 0
      <4>1. k \in Stages /\ Chain[k + 1].reads = Chain[k].adds
        BY <2>3, <3>2, StagesFit DEF Fits, Stages
      <4>2. Chain[k].adds \in Labelled(k)
        BY <2>3, <3>2 DEF Labelled
      <4>3. artifact.labels[Chain[k].adds] = Path[k][r]
        BY <2>1, <2>2, <4>1, <4>2 DEF LabelsOK
      <4> QED
        BY <2>3, <3>2, <4>1, <4>3 DEF Read, Before
    <3> QED
      BY <3>1, <3>2
  <2>7. Accepts(artifact, k + 1)
    BY <2>1, <2>3, <2>4, <2>6, StagesFit DEF Accepts, Fits
  <2> QED
    BY <2>3, <2>5, <2>7
<1> QED
  BY <1>1, LabelsInvariant, PTL

\* Whatever was on file, the receiver never gets gated work as ready (from triage_task
\* to build_consumer_receiver_release_gate_from_mode).
THEOREM GatedWorkIsHeld == ChainSpec => []GatedWorkNotReleased
<1>1. ChainInv /\ GatedWorkNeverContinues => GatedWorkNotReleased
  <2> SUFFICES ASSUME ChainInv, GatedWorkNeverContinues, artifact # None, Gated,
                      NEW label \in Released,
                      NEW key \in Labelled(ReceiverStages) \intersect DOMAIN artifact.labels
               PROVE  artifact.labels[key] # label
    BY DEF GatedWorkNotReleased, HandedOff, Released
  <2> DEFINE r == artifact.projected.recommendation
  <2>1. r \in Decisions /\ LabelsOK(artifact, r)
    BY DEF ChainInv
  <2>2. r # "GO"
    BY DEF ChainInv, GatedWorkNeverContinues
  <2>3. PICK n \in 1..ReceiverStages : key = Chain[n].adds
    BY DEF Labelled
  <2>4. n \in Stages /\ n <= ReceiverStages
    BY StagesFit DEF Stages, ReceiverStages
  <2>5. artifact.labels[key] = Path[n][r]
    BY <2>1, <2>3, <2>4 DEF LabelsOK
  <2>6. Path[n][r] \notin Released
    BY <2>1, <2>2, <2>4, StagesFit DEF Fits
  <2> QED
    BY <2>5, <2>6
<1>2. ChainSpec => []GatedWorkNeverContinues
  BY ChainKeepsDryRuns, GatedWorkStops, PTL
<1> QED
  BY <1>1, <1>2, LabelsInvariant, PTL

\* What is handed off is what was decided, and no label is rewritten (the builders
\* select the keys they know and never change one).
THEOREM TheDecisionIsCarried == ChainSpec => DecisionCarriedAlong
<1> DEFINE Carried ==
             HandedOff /\ HandedOff' =>
               /\ artifact'.projected = artifact.projected
               /\ artifact'.approval_record = artifact.approval_record
               /\ artifact'.related = artifact.related
               /\ \A key \in DOMAIN artifact.labels \intersect DOMAIN artifact'.labels :
                    artifact'.labels[key] = artifact.labels[key]
<1>1. ChainInv /\ ChainInv' /\ [ChainNext]_chainVars => [Carried]_chainVars
  <2> SUFFICES ASSUME ChainInv, ChainInv', ChainNext, artifact # None PROVE Carried
    BY DEF HandedOff
  <2>1. Label \/ RepackageEnvelope \/ RepackageDecisionSurface
    BY DEF ChainNext, Orchestrate, HandOff
  <2>2. UNCHANGED vars
    BY <2>1 DEF Label, RepackageEnvelope, RepackageDecisionSurface
  <2>3. Kept(artifact, artifact')
    BY <2>1, <2>2, ChainStep
  <2> DEFINE r == artifact.projected.recommendation
  <2>4. LabelsOK(artifact, r) /\ LabelsOK(artifact', r)
    <3>1. LabelsOK(artifact, artifact.projected.recommendation)'
      BY <2>3 DEF ChainInv, Kept
    <3> QED
      BY <2>3, <3>1 DEF ChainInv, Kept, LabelsOK, Stages, Labelled
  <2>5. ASSUME NEW key \in DOMAIN artifact.labels \intersect DOMAIN artifact'.labels
        PROVE  artifact'.labels[key] = artifact.labels[key]
    <3>1. PICK k \in 0..Len(Chain) : DOMAIN artifact.labels = Labelled(k)
      BY <2>4 DEF LabelsOK
    <3>2. PICK n \in 1..k : key = Chain[n].adds
      BY <2>5, <3>1 DEF Labelled
    <3>3. n \in Stages
      BY StagesFit DEF Stages
    <3> QED
      BY <2>4, <2>5, <3>2, <3>3 DEF LabelsOK
  <2> QED
    BY <2>3, <2>5 DEF Kept
<1> QED
  BY <1>1, LabelsInvariant, PTL DEF ChainSpec, DecisionCarriedAlong
===============================================================================
