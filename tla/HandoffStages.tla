----------------------------- MODULE HandoffStages -----------------------------
(***************************************************************************)
(* The builders of app/services/dry_run_orchestration.py that label a      *)
(* handed-off dry-run artifact, one after the other: each reads the label  *)
(* of the one before (the first one the recommendation of the projected    *)
(* activation decision), looks it up in its table and adds the result      *)
(* under its own key.  A definition per builder, under the key it adds.    *)
(***************************************************************************)
EXTENDS Sequences

RelatedIds ==
  {"related_project_id", "related_activation_decision_id", "related_packet_id",
   "related_queue_item_id"}

\* The key a builder adds, the label it reads, its table, and the optional ids that it
\* copies, each with a test and an assignment of its own.
Stage(adds, reads, table) ==
  [adds |-> adds, reads |-> reads, table |-> table, carries |-> RelatedIds]

\* Mutant: what is not to be reviewed is ready.
receiver_readiness_classification_NotReviewed ==
  Stage("receiver_readiness_classification", "recommendation",
        [GO |-> "ready", PAUSE |-> "ready", REVIEW |-> "needs_review"])

receiver_readiness_classification ==
  Stage("receiver_readiness_classification", "recommendation",
        [GO |-> "ready", PAUSE |-> "hold", REVIEW |-> "needs_review"])

receiver_handling_directive ==
  Stage("receiver_handling_directive", "receiver_readiness_classification",
        [ready |-> "deliver", hold |-> "defer", needs_review |-> "route_for_review"])

receiver_action_label ==
  Stage("receiver_action_label", "receiver_handling_directive",
        [deliver |-> "dispatch", defer |-> "wait", route_for_review |-> "review_queue"])

\* Mutant: the label of the stage before, in another spelling.
receiver_dispatch_intent_Renamed ==
  Stage("receiver_dispatch_intent", "receiver_action_label",
        [dispatch |-> "send", wait |-> "park", review |-> "review"])

receiver_dispatch_intent ==
  Stage("receiver_dispatch_intent", "receiver_action_label",
        [dispatch |-> "send", wait |-> "park", review_queue |-> "review"])

receiver_dispatch_mode ==
  Stage("receiver_dispatch_mode", "receiver_dispatch_intent",
        [send |-> "active", park |-> "queued", review |-> "review_pending"])

receiver_release_gate ==
  Stage("receiver_release_gate", "receiver_dispatch_mode",
        [active |-> "open", queued |-> "deferred", review_pending |-> "blocked_for_review"])

receiver_progress_state ==
  Stage("receiver_progress_state", "receiver_release_gate",
        [open |-> "in_progress", deferred |-> "pending",
         blocked_for_review |-> "review_hold"])

receiver_progress_signal ==
  Stage("receiver_progress_signal", "receiver_progress_state",
        [in_progress |-> "advance", pending |-> "await", review_hold |-> "review_wait"])

receiver_progress_outcome ==
  Stage("receiver_progress_outcome", "receiver_progress_signal",
        [advance |-> "moving", await |-> "standing_by", review_wait |-> "awaiting_review"])

receiver_intervention_requirement ==
  Stage("receiver_intervention_requirement", "receiver_progress_outcome",
        [moving |-> "none", standing_by |-> "monitor", awaiting_review |-> "review_required"])

receiver_attention_level ==
  Stage("receiver_attention_level", "receiver_intervention_requirement",
        [none |-> "low", monitor |-> "medium", review_required |-> "high"])

receiver_notification_requirement ==
  Stage("receiver_notification_requirement", "receiver_attention_level",
        [low |-> "none", medium |-> "notify", high |-> "escalate"])

receiver_response_priority ==
  Stage("receiver_response_priority", "receiver_notification_requirement",
        [none |-> "normal", notify |-> "elevated", escalate |-> "urgent"])

receiver_response_channel ==
  Stage("receiver_response_channel", "receiver_response_priority",
        [normal |-> "standard_channel", elevated |-> "priority_channel",
         urgent |-> "escalation_channel"])

receiver_response_route ==
  Stage("receiver_response_route", "receiver_response_channel",
        [standard_channel |-> "standard_route", priority_channel |-> "priority_route",
         escalation_channel |-> "escalation_route"])

receiver_followup_requirement ==
  Stage("receiver_followup_requirement", "receiver_response_route",
        [standard_route |-> "none", priority_route |-> "follow_up",
         escalation_route |-> "escalation_follow_up"])

consumer_decision_posture ==
  Stage("consumer_decision_posture", "receiver_followup_requirement",
        [none |-> "observe", follow_up |-> "engage", escalation_follow_up |-> "escalate"])

consumer_action_requirement ==
  Stage("consumer_action_requirement", "consumer_decision_posture",
        [observe |-> "no_action", engage |-> "action_required",
         escalate |-> "escalation_required"])

consumer_work_queue_assignment ==
  Stage("consumer_work_queue_assignment", "consumer_action_requirement",
        [no_action |-> "observation_queue", action_required |-> "action_queue",
         escalation_required |-> "escalation_queue"])

consumer_processing_plan ==
  Stage("consumer_processing_plan", "consumer_work_queue_assignment",
        [observation_queue |-> "observe_only", action_queue |-> "process_action",
         escalation_queue |-> "process_escalation"])

consumer_operator_requirement ==
  Stage("consumer_operator_requirement", "consumer_processing_plan",
        [observe_only |-> "none", process_action |-> "operator_required",
         process_escalation |-> "senior_operator_required"])

consumer_assignment_lane ==
  Stage("consumer_assignment_lane", "consumer_operator_requirement",
        [none |-> "self_service_lane", operator_required |-> "operator_lane",
         senior_operator_required |-> "senior_operator_lane"])

consumer_service_tier ==
  Stage("consumer_service_tier", "consumer_assignment_lane",
        [self_service_lane |-> "self_service", operator_lane |-> "operator_managed",
         senior_operator_lane |-> "senior_managed"])

\* Mutant: two tiers get the same class.
consumer_sla_class_Merged ==
  Stage("consumer_sla_class", "consumer_service_tier",
        [self_service |-> "standard", operator_managed |-> "standard",
         senior_managed |-> "priority"])

consumer_sla_class ==
  Stage("consumer_sla_class", "consumer_service_tier",
        [self_service |-> "deferred", operator_managed |-> "standard",
         senior_managed |-> "priority"])

\* Mutant: one builder forgets to copy one of the ids.
consumer_response_window_NoPacket ==
  [Stage("consumer_response_window", "consumer_sla_class",
         [deferred |-> "backlog_window", standard |-> "standard_window",
          priority |-> "priority_window"])
   EXCEPT !.carries = @ \ {"related_packet_id"}]

consumer_response_window ==
  Stage("consumer_response_window", "consumer_sla_class",
        [deferred |-> "backlog_window", standard |-> "standard_window",
         priority |-> "priority_window"])

consumer_timing_posture ==
  Stage("consumer_timing_posture", "consumer_response_window",
        [backlog_window |-> "later", standard_window |-> "scheduled",
         priority_window |-> "immediate"])

consumer_scheduling_commitment ==
  Stage("consumer_scheduling_commitment", "consumer_timing_posture",
        [later |-> "backlog_commitment", scheduled |-> "scheduled_commitment",
         immediate |-> "immediate_commitment"])

consumer_execution_readiness ==
  Stage("consumer_execution_readiness", "consumer_scheduling_commitment",
        [backlog_commitment |-> "deferred_readiness",
         scheduled_commitment |-> "planned_readiness",
         immediate_commitment |-> "ready_now"])

consumer_dispatch_readiness ==
  Stage("consumer_dispatch_readiness", "consumer_execution_readiness",
        [deferred_readiness |-> "parked", planned_readiness |-> "prepared",
         ready_now |-> "dispatch_ready"])

consumer_dispatch_authority ==
  Stage("consumer_dispatch_authority", "consumer_dispatch_readiness",
        [parked |-> "withhold", prepared |-> "pre_authorize", dispatch_ready |-> "authorize"])

consumer_dispatch_permission ==
  Stage("consumer_dispatch_permission", "consumer_dispatch_authority",
        [withhold |-> "not_permitted", pre_authorize |-> "conditionally_permitted",
         authorize |-> "permitted"])

consumer_dispatch_clearance ==
  Stage("consumer_dispatch_clearance", "consumer_dispatch_permission",
        [not_permitted |-> "blocked", conditionally_permitted |-> "gated",
         permitted |-> "clear"])

consumer_release_decision ==
  Stage("consumer_release_decision", "consumer_dispatch_clearance",
        [blocked |-> "hold_release", gated |-> "conditional_release", clear |-> "release"])

consumer_release_mode ==
  Stage("consumer_release_mode", "consumer_release_decision",
        [hold_release |-> "hold_mode", conditional_release |-> "guarded_mode",
         release |-> "release_mode"])

consumer_release_execution_requirement ==
  Stage("consumer_release_execution_requirement", "consumer_release_mode",
        [hold_mode |-> "do_not_execute", guarded_mode |-> "execute_with_guard",
         release_mode |-> "execute_release"])

consumer_release_execution_lane ==
  Stage("consumer_release_execution_lane", "consumer_release_execution_requirement",
        [do_not_execute |-> "blocked_lane", execute_with_guard |-> "guarded_lane",
         execute_release |-> "release_lane"])

consumer_release_handling_intent ==
  Stage("consumer_release_handling_intent", "consumer_release_execution_lane",
        [blocked_lane |-> "do_not_route", guarded_lane |-> "route_with_guard",
         release_lane |-> "route_for_release"])

consumer_release_action_plan ==
  Stage("consumer_release_action_plan", "consumer_release_handling_intent",
        [do_not_route |-> "hold_plan", route_with_guard |-> "guarded_release_plan",
         route_for_release |-> "release_plan"])

consumer_release_queue ==
  Stage("consumer_release_queue", "consumer_release_action_plan",
        [hold_plan |-> "hold_queue", guarded_release_plan |-> "guarded_release_queue",
         release_plan |-> "release_queue"])

consumer_release_priority ==
  Stage("consumer_release_priority", "consumer_release_queue",
        [hold_queue |-> "low", guarded_release_queue |-> "medium", release_queue |-> "high"])

consumer_release_window ==
  Stage("consumer_release_window", "consumer_release_priority",
        [low |-> "deferred_window", medium |-> "controlled_window",
         high |-> "immediate_window"])

consumer_release_schedule ==
  Stage("consumer_release_schedule", "consumer_release_window",
        [deferred_window |-> "backlog_schedule", controlled_window |-> "guarded_schedule",
         immediate_window |-> "immediate_schedule"])

consumer_release_readiness ==
  Stage("consumer_release_readiness", "consumer_release_schedule",
        [backlog_schedule |-> "not_ready", guarded_schedule |-> "prepared",
         immediate_schedule |-> "ready"])

consumer_release_authority ==
  Stage("consumer_release_authority", "consumer_release_readiness",
        [not_ready |-> "withhold", prepared |-> "conditional_authority",
         ready |-> "full_authority"])

consumer_release_permission ==
  Stage("consumer_release_permission", "consumer_release_authority",
        [withhold |-> "not_permitted", conditional_authority |-> "conditionally_permitted",
         full_authority |-> "permitted"])

consumer_release_clearance ==
  Stage("consumer_release_clearance", "consumer_release_permission",
        [not_permitted |-> "blocked", conditionally_permitted |-> "gated",
         permitted |-> "clear"])

\* The order in which the builders are meant to be called.
Chain ==
  <<receiver_readiness_classification, receiver_handling_directive,
    receiver_action_label, receiver_dispatch_intent, receiver_dispatch_mode,
    receiver_release_gate, receiver_progress_state, receiver_progress_signal,
    receiver_progress_outcome, receiver_intervention_requirement,
    receiver_attention_level, receiver_notification_requirement,
    receiver_response_priority, receiver_response_channel, receiver_response_route,
    receiver_followup_requirement, consumer_decision_posture,
    consumer_action_requirement, consumer_work_queue_assignment,
    consumer_processing_plan, consumer_operator_requirement, consumer_assignment_lane,
    consumer_service_tier, consumer_sla_class, consumer_response_window,
    consumer_timing_posture, consumer_scheduling_commitment,
    consumer_execution_readiness, consumer_dispatch_readiness,
    consumer_dispatch_authority, consumer_dispatch_permission,
    consumer_dispatch_clearance, consumer_release_decision, consumer_release_mode,
    consumer_release_execution_requirement, consumer_release_execution_lane,
    consumer_release_handling_intent, consumer_release_action_plan,
    consumer_release_queue, consumer_release_priority, consumer_release_window,
    consumer_release_schedule, consumer_release_readiness, consumer_release_authority,
    consumer_release_permission, consumer_release_clearance>>
===============================================================================
