--------------------------- MODULE ProjectLifecycle ---------------------------
(***************************************************************************)
(* What the orchestrator promises about a stored project, with everything  *)
(* but its stage, the decisions taken on it and the use of an external     *)
(* provider left out.                                                      *)
(*                                                                         *)
(* A stage is a status the store may hold.  One request moves a project    *)
(* along a path of STATE_TRANSITIONS through transient statuses only.      *)
(***************************************************************************)
EXTENDS StateGraph, ApprovalPolicy

CONSTANT Projects

VARIABLES stage,      \* the stored status of each project, "absent" before run
          settled,    \* the decisions recorded for it: (action, decision) pairs
          permitted,  \* the actions decided or pre-approved in its favour
          sent        \* the projects whose trend artifact came from an external provider

vars == <<stage, settled, permitted, sent>>

Stages == (ProjectStatuses \ TransientStatuses) \union {"absent"}

Init ==
  /\ stage = [p \in Projects |-> "absent"]
  /\ settled = [p \in Projects |-> {}]
  /\ permitted = [p \in Projects |-> {}]
  /\ sent = {}

\* A path of STATE_TRANSITIONS from s to t whose inner statuses are transient.
Leads(s, t) ==
  \/ can_transition(s, t)
  \/ \E u \in TransientStatuses :
       /\ can_transition(s, u)
       /\ \/ can_transition(u, t)
          \/ \E v \in TransientStatuses : can_transition(u, v) /\ can_transition(v, t)

\* A run is stored once its first execution paused, failed its review or finished.
Open(p) ==
  /\ stage[p] = "absent"
  /\ \E t \in Stages : Leads("ready_for_planning", t) /\ stage' = [stage EXCEPT ![p] = t]
  /\ \E as \in SUBSET ActionTypes : permitted' = [permitted EXCEPT ![p] = as]
  /\ UNCHANGED settled

\* Decisions are taken while the project waits and are never withdrawn.  After an
\* approval it waits on or is completed.
Approve(p) ==
  /\ stage[p] = "waiting_approval"
  /\ \E as \in (SUBSET ActionTypes) \ {{}} :
       /\ settled' = [settled EXCEPT ![p] = @ \union (as \X {"approved"})]
       /\ permitted' = [permitted EXCEPT ![p] = @ \union as]
  /\ \E t \in {"waiting_approval", "completed"} : stage' = [stage EXCEPT ![p] = t]

\* A rejection sends the project to revision.
Reject(p) ==
  /\ stage[p] = "waiting_approval"
  /\ \E as \in (SUBSET ActionTypes) \ {{}} :
       settled' = [settled EXCEPT ![p] = @ \union (as \X {"rejected"})]
  /\ stage' = [stage EXCEPT ![p] = "revision_requested"]
  /\ UNCHANGED permitted

\* Everything that was asked for had been approved by earlier calls.
Finish(p) ==
  /\ stage[p] = "waiting_approval"
  /\ \E a \in ActionTypes : <<a, "approved">> \in settled[p]
  /\ stage' = [stage EXCEPT ![p] = "completed"]
  /\ UNCHANGED <<settled, permitted>>

\* A project in revision or replanning is executed again, or replanned first.
Rework(p) ==
  /\ stage[p] \in {"revision_requested", "ready_for_planning"}
  /\ \E t \in Stages \ {stage[p], "revision_requested"} :
       Leads(stage[p], t) /\ stage' = [stage EXCEPT ![p] = t]
  /\ \E as \in SUBSET ActionTypes : permitted' = [permitted EXCEPT ![p] = @ \union as]
  /\ UNCHANGED settled

\* An execution may use an external provider only once the send is permitted.
SendOnlyPermitted(p) ==
  /\ sent' \ {p} = sent \ {p}
  /\ p \in sent' \ sent => "external_api_send" \in permitted'[p]

Next ==
  \E p \in Projects :
    /\ Open(p) \/ Approve(p) \/ Reject(p) \/ Finish(p) \/ Rework(p)
    /\ SendOnlyPermitted(p)

Spec == Init /\ [][Next]_vars
===============================================================================
