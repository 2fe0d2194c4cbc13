------------------------------ MODULE StateGraph ------------------------------
(***************************************************************************)
(* The project state machine of app/orchestrator/graph.py and the          *)
(* enumerations of app/schemas/project.py that every other module of the   *)
(* orchestrator is written in.                                             *)
(***************************************************************************)

ProjectStatuses ==
  {"draft", "intake_pending", "ready_for_planning", "in_progress",
   "waiting_approval", "review_failed", "revision_requested", "completed"}

\* Mutant: the transition table of docs/architecture.md, which has no row for a
\* rejected approval.
STATE_TRANSITIONS_Documented ==
  [s \in ProjectStatuses |->
     CASE s = "draft"              -> {"intake_pending"}
       [] s = "intake_pending"     -> {"ready_for_planning"}
       [] s = "ready_for_planning" -> {"in_progress"}
       [] s = "in_progress"        -> {"waiting_approval", "review_failed", "completed"}
       [] s = "waiting_approval"   -> {"in_progress"}
       [] s = "review_failed"      -> {"revision_requested"}
       [] s = "revision_requested" -> {"ready_for_planning", "in_progress"}
       [] s = "completed"          -> {}]

\* STATE_TRANSITIONS: the statuses a project may move to from each status.
STATE_TRANSITIONS ==
  [s \in ProjectStatuses |->
     CASE s = "draft"              -> {"intake_pending"}
       [] s = "intake_pending"     -> {"ready_for_planning"}
       [] s = "ready_for_planning" -> {"in_progress"}
       [] s = "in_progress"        -> {"waiting_approval", "review_failed", "completed"}
       [] s = "waiting_approval"   -> {"in_progress", "revision_requested"}
       [] s = "review_failed"      -> {"revision_requested"}
       [] s = "revision_requested" -> {"ready_for_planning", "in_progress"}
       [] s = "completed"          -> {}]

can_transition(current, next) == next \in STATE_TRANSITIONS[current]

\* The statuses a handler only passes through before it saves the record.
TransientStatuses == {"draft", "intake_pending", "in_progress", "review_failed"}

Departments == {"research", "design", "build", "trend", "review"}

TaskStatuses ==
  {"pending", "in_progress", "waiting_approval", "revision_requested", "done", "blocked"}

RevisionResumeModes == {"replanning", "rebuilding", "rereview"}
===============================================================================
