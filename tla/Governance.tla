------------------------------ MODULE Governance ------------------------------
(***************************************************************************)
(* The pure governance pipeline of app/services: continuation.py and       *)
(* triage.py classify a task, work_order.py drafts a work order,           *)
(* management_review.py, review_packet.py and review_queue.py summarise it *)
(* for management, activation_decision.py and dry_run_orchestration.py     *)
(* turn the management decision into a projected activation and into a     *)
(* permission to continue, approval_record_builder.py writes the record.   *)
(*                                                                         *)
(* Areas are compared after strip and lower; NoArea stands for the blank   *)
(* ones.  An artifact that may be missing is None.  Lists whose order and  *)
(* repetitions only matter to their layout (triggers, reasons, blockers)   *)
(* are sets.  Risk levels, summaries and suggested wording are left out.   *)
(***************************************************************************)

None == [none |-> TRUE]

NoArea == ""

Decisions == {"GO", "PAUSE", "REVIEW"}

\* ------------------------------------------------------------- continuation.py

AREA_TO_HARD_GATE ==
  [auth                 |-> "authentication_behavior_change",
   authorization        |-> "authorization_behavior_change",
   approval             |-> "approval_flow_change",
   policy               |-> "policy_model_change",
   strict_mode          |-> "strict_mode_change",
   actor_trust          |-> "actor_identity_trust_change",
   audit                |-> "audit_logging_semantics_change",
   schema               |-> "database_schema_or_migration",
   migration            |-> "database_schema_or_migration",
   provider_contract    |-> "external_provider_contract_change",
   dependency           |-> "dependency_addition_required",
   destructive_refactor |-> "destructive_refactor",
   production_behavior  |-> "production_behavior_change",
   external_write       |-> "external_write_send_publish_action",
   env                  |-> "secrets_credentials_env_handling_change",
   phase_change         |-> "roadmap_phase_change_required",
   architecture_change  |-> "architecture_direction_change_required"]

detect_hard_gate_triggers(areas) ==
  {AREA_TO_HARD_GATE[a] : a \in areas \intersect DOMAIN AREA_TO_HARD_GATE}

\* The decision of assess_continuation for a context and its hard gates.
assess_continuation(c, hard_gates) ==
  IF hard_gates # {} \/ ~c.task_in_active_phase THEN "REVIEW"
  ELSE IF c.ambiguous_scope \/ ~c.verification_passed THEN "PAUSE"
  ELSE "GO"

\* ------------------------------------------------------------------- triage.py

LOW_RISK_AREAS == {"docs", "formatting", "tests", "summary", "classification", "extraction"}

normalized_areas(c) == c.changed_areas \ {NoArea}

TriageResult(hard_gates, decision, target, reason, escalate) ==
  [hard_gate_triggers |-> hard_gates, decision |-> decision, routing_target |-> target,
   escalation_reason |-> reason, escalation_likely_required |-> escalate]

\* Mutant: low-risk areas are let through before anything else is looked at.
triage_task_LowRiskFirst(c) ==
  IF normalized_areas(c) # {} /\ normalized_areas(c) \subseteq LOW_RISK_AREAS
  THEN TriageResult({}, "GO", "action_department", "none", FALSE)
  ELSE TriageResult(detect_hard_gate_triggers(normalized_areas(c)),
                    IF "cross_department" \in normalized_areas(c) THEN "REVIEW"
                    ELSE assess_continuation(c, detect_hard_gate_triggers(normalized_areas(c))),
                    "management_department", "ambiguous_scope", TRUE)

triage_task(c) ==
  LET areas      == normalized_areas(c)
      hard_gates == detect_hard_gate_triggers(areas)
      Result(decision, target, reason, escalate) ==
        TriageResult(hard_gates, decision, target, reason, escalate)
  IN IF "cross_department" \in areas
       THEN Result("REVIEW", "management_department", "cross_department_routing", TRUE)
     ELSE IF hard_gates # {}
       THEN Result("REVIEW", "management_department", "hard_gate_triggered", TRUE)
     ELSE IF ~c.task_in_active_phase
       THEN Result("REVIEW", "management_department", "phase_mismatch", TRUE)
     ELSE IF ~c.verification_passed
       THEN Result("PAUSE", "progress_control_department", "verification_unstable", FALSE)
     ELSE IF c.ambiguous_scope
       THEN Result("PAUSE", "progress_control_department", "ambiguous_scope", FALSE)
     ELSE IF areas # {} /\ areas \subseteq LOW_RISK_AREAS
       THEN Result("GO", "action_department", "none", FALSE)
     ELSE IF assess_continuation(c, hard_gates) = "GO"
       THEN Result("GO", "implementation_department", "none", FALSE)
     ELSE Result("PAUSE", "progress_control_department", "ambiguous_scope", FALSE)

\* --------------------------------------------------------------- work_order.py

management_review_required(triage) ==
  \/ triage.decision = "REVIEW"
  \/ triage.routing_target \in {"management_department", "audit_review_department"}
  \/ triage.escalation_likely_required

\* Mutant: the hard gates are not carried over into the work order.
build_work_order_draft_NoGates(triage) ==
  [decision_outcome |-> triage.decision, assigned_department |-> triage.routing_target,
   hard_gate_triggers |-> {}, escalation_reason |-> triage.escalation_reason,
   management_review_required |-> management_review_required(triage)]

build_work_order_draft(triage) ==
  [decision_outcome |-> triage.decision, assigned_department |-> triage.routing_target,
   hard_gate_triggers |-> triage.hard_gate_triggers,
   escalation_reason |-> triage.escalation_reason,
   management_review_required |-> management_review_required(triage)]

\* -------------------------------------------------------- management_review.py

Summary(decision, routing, hard_gates, required, reason) ==
  [decision_outcome |-> decision, department_routing |-> routing,
   hard_gate_triggers |-> hard_gates, hard_gate_triggered |-> hard_gates # {},
   required_review |-> required, escalation_reason |-> reason]

\* Every field is selected from the work order, else from the triage, else from
\* the risk snapshot of the brief (the _select_* functions).
build_management_review_summary(brief, triage, work_order) ==
  IF work_order # None
  THEN Summary(work_order.decision_outcome, work_order.assigned_department,
               work_order.hard_gate_triggers, work_order.management_review_required,
               work_order.escalation_reason)
  ELSE IF triage # None
  THEN Summary(triage.decision, triage.routing_target, triage.hard_gate_triggers,
               triage.decision = "REVIEW" \/ triage.escalation_likely_required,
               triage.escalation_reason)
  ELSE Summary("PAUSE", brief.candidate_routing, brief.hard_gate_triggers, TRUE, "none")

\* --------------------------------------------- review_packet.py, review_queue.py

\* The reasons of the packet, which the queue item takes over: its single reason is
\* one of them.
escalation_reasons(summary) ==
  LET reasons == ({summary.escalation_reason} \ {"none"}) \union
                 (IF summary.hard_gate_triggered THEN {"hard_gate_triggered"} ELSE {})
  IN IF reasons = {} /\ summary.required_review /\ summary.decision_outcome = "REVIEW"
     THEN {"review_required"} ELSE reasons

\* ------------------------------------------------------ activation_decision.py

collect_unresolved_blockers(summary) ==
  LET named == summary.hard_gate_triggers \union escalation_reasons(summary)
  IN IF summary.hard_gate_triggered /\ named = {} THEN {"hard_gate_active"} ELSE named

human_status_for_decision(decision) ==
  CASE decision = "GO"     -> "approved"
    [] decision = "PAUSE"  -> "pending"
    [] decision = "REVIEW" -> "withheld"

Activation(recommendation, status, blockers, approver) ==
  [recommendation |-> recommendation, human_status |-> status, approver |-> approver,
   remaining_blockers |-> blockers,
   escalation_destination |-> IF recommendation = "REVIEW"
                              THEN "Audit and Review Department" ELSE "none",
   re_review_required |-> blockers # {} \/ recommendation \in {"PAUSE", "REVIEW"}]

\* Mutant: the packet's required_review is not looked at.
derive_activation_BlockersOnly(summary, m) ==
  LET blockers == collect_unresolved_blockers(summary)
      recommendation == IF m.decision = "GO" /\ blockers # {} THEN "PAUSE" ELSE m.decision
  IN Activation(recommendation, human_status_for_decision(recommendation), blockers, m.reviewer)

\* Mutant: the human status is taken from the decision before it is downgraded.
derive_activation_StatusFirst(summary, m) ==
  LET blockers == collect_unresolved_blockers(summary)
      recommendation ==
        IF m.decision = "GO" /\ (blockers # {} \/ summary.required_review)
        THEN "PAUSE" ELSE m.decision
  IN Activation(recommendation, human_status_for_decision(m.decision), blockers, m.reviewer)

derive_dry_run_activation_decision(summary, m) ==
  LET blockers == collect_unresolved_blockers(summary)
      recommendation ==
        IF m.decision = "GO" /\ (blockers # {} \/ summary.required_review)
        THEN "PAUSE" ELSE m.decision
  IN Activation(recommendation, human_status_for_decision(recommendation), blockers, m.reviewer)

\* ---------------------------------------------------- dry_run_orchestration.py

\* The decision used when management has taken none.
effective_decision(summary, m) ==
  IF m # None THEN m
  ELSE [decision |-> summary.decision_outcome, reviewer |-> "dry-run-system"]

\* autonomous_continuation_allowed of project_dry_run_decision.
project_dry_run_decision(summary, m) ==
  /\ effective_decision(summary, m).decision = "GO"
  /\ ~summary.required_review
  /\ ~summary.hard_gate_triggered

\* -------------------------------------------------- approval_record_builder.py

\* The builder raises on a REVIEW without a destination.
RecordRaises(activation) ==
  activation.recommendation = "REVIEW" /\ activation.escalation_destination = "none"

\* With the reviewer that build_approval_record_builder_kwargs_from_projection names; the
\* note and the follow-up actions name the destination of an escalation.
build_approval_record(activation, m) ==
  [human_approval_status |-> activation.human_status, approver |-> activation.approver,
   reviewer |-> IF m # None THEN m.reviewer ELSE activation.approver,
   recommendation |-> activation.recommendation,
   escalation |-> IF activation.recommendation = "REVIEW"
                  THEN activation.escalation_destination ELSE "none",
   blocker_notes |-> activation.remaining_blockers]
===============================================================================
