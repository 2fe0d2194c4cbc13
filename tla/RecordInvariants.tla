--------------------------- MODULE RecordInvariants ---------------------------
(***************************************************************************)
(* What every stored project record satisfies, whichever handlers wrote it *)
(* and in whichever order.  Each predicate is about one record, so that    *)
(* the sequential service, the concurrent API and the proofs share it.     *)
(***************************************************************************)
EXTENDS PMOrchestrator, DocumentedPolicy

StoredStatuses == ProjectStatuses \ TransientStatuses

Decided == {"approval_approved", "approval_rejected"}

EventTypes ==
  {"authentication_succeeded", "authentication_failed", "actor_resolved",
   "approval_requested", "approval_approved", "approval_rejected",
   "authorization_granted", "authorization_failed", "policy_override_applied",
   "revision_requested", "replanning_started", "resume_triggered"}

\* The policy and the actors are opaque here: the handlers hand them on to
\* ApprovalPolicy and record them.
RecordTypeOK(r) ==
  /\ DOMAIN r = {"status", "policy", "tasks", "approvals", "gate", "delivered",
                 "artifacts", "trend_source", "reviews", "history", "events"}
  /\ r.status \in StoredStatuses
  /\ r.tasks \in [Departments -> TaskStatuses]
  /\ r.approvals \subseteq ActionTypes \X {"pending", "approved", "rejected"}
  /\ r.gate \in {"absent", "open", "approved"}
  /\ r.delivered \in BOOLEAN
  /\ r.artifacts \subseteq Departments \ {"review"}
  /\ r.trend_source \in {"none", "mock", "external"}
  /\ r.reviews \in Seq({"approved", "changes_requested"})
  /\ r.history \subseteq ProjectStatuses \X ProjectStatuses
  /\ \A e \in r.events : e.type \in EventTypes

\* The tasks of a record: `before` for research, design and build.
TasksAre(r, before, trend, review) ==
  /\ \A d \in BeforeTrend : r.tasks[d] = before
  /\ r.tasks["trend"] = trend
  /\ r.tasks["review"] = review

\* The status of a stored project and the statuses of its tasks never drift
\* apart: what resumes a project finds exactly the tasks it has to run.
TasksMatchStatus(r) ==
  CASE r.status = "waiting_approval"   -> TasksAre(r, "done", "waiting_approval", "pending")
    [] r.status = "completed"          -> TasksAre(r, "done", "done", "done")
    [] r.status = "revision_requested" ->
         \/ /\ TasksAre(r, "done", "done", "done")
            /\ r.reviews = <<"changes_requested">>
         \/ /\ TasksAre(r, "done", "revision_requested", "pending")
            /\ rejected_actions(r) # {}
    [] r.status = "ready_for_planning" ->
         /\ r.tasks["research"] = "done"
         /\ \A d \in Departments \ {"research"} : r.tasks[d] = "pending"

\* A project is completed exactly when it has its delivery checkpoint; every task
\* that is done left its artifact, and a completed project was approved by its
\* last review, after at most one failed one.
CompletedIsDelivered(r) ==
  /\ r.delivered <=> r.status = "completed"
  /\ \A d \in Departments \ {"review"} : r.tasks[d] = "done" => d \in r.artifacts
  /\ r.tasks["trend"] = "done" => r.trend_source # "none"
  /\ r.reviews \in IF r.status = "completed"
                   THEN {<<"approved">>, <<"changes_requested", "approved">>}
                   ELSE {<<>>, <<"changes_requested">>}

\* A project waits only for a request that is there; outside the waiting lane no
\* request is open, except for an action that another request has approved.
WaitingHasRequest(r) ==
  CASE r.status = "waiting_approval" ->
         /\ pending_actions(r) # {}
         /\ EXT \in pending_actions(r) \union approved_actions(r)
         /\ r.gate # "absent"
    [] r.status = "completed" -> pending_actions(r) \subseteq approved_actions(r)
    [] OTHER -> pending_actions(r) = {}

\* _transition never meets a change of status that graph.py does not list, so its
\* ValueError cannot abort a handler halfway.
TransitionsLegal(r) ==
  /\ \A step \in r.history : can_transition(step[1], step[2])
  /\ \E step \in r.history : step[2] = r.status

\* Every decision on a request has its audit event, by an actor to whom the
\* authorization for that very action was granted, and the other way round.
DecisionsAudited(r) ==
  /\ \A a \in approved_actions(r) :
       \E e \in r.events : e.type = "approval_approved" /\ e.subject = a
  /\ \A a \in rejected_actions(r) :
       \E e \in r.events : e.type = "approval_rejected" /\ e.subject = a
  /\ \A e \in r.events :
       /\ e.type \in Decided =>
            ActorEvent("authorization_granted", e.subject, e.actor) \in r.events
       /\ e.type = "approval_approved" => e.subject \in approved_actions(r)
       /\ e.type = "approval_rejected" => e.subject \in rejected_actions(r)

\* Whoever approved or rejected an action had, by the documented rules, a role for it
\* under the policy of the project.
DecidersHadRole(r) ==
  \A e \in r.events : e.type \in Decided => HasRole(e.subject, e.actor, r.policy)

RecordInv(r) ==
  /\ RecordTypeOK(r)
  /\ TasksMatchStatus(r)
  /\ CompletedIsDelivered(r)
  /\ WaitingHasRequest(r)
  /\ TransitionsLegal(r)
  /\ DecisionsAudited(r)
===============================================================================
