---------------------------- MODULE PMOrchestrator ----------------------------
(***************************************************************************)
(* app/orchestrator/service.py: the handlers of PMOrchestrator, each as a  *)
(* function from the record it read to the outcome of the call.            *)
(*                                                                         *)
(* Every handler gets a copy of the stored record, works on that copy and  *)
(* calls repository.save at most once, so a call is [rec, saved, reply]:   *)
(* the record it ended with, whether it saved it, and its answer           *)
(*   "ok", "partial", "idempotent" - an OrchestrationResult                *)
(*   "refused" - ValueError (409), "forbidden" - PermissionError (403).    *)
(* The specifications that use this module decide when the copy is read    *)
(* and when the outcome is published.                                      *)
(*                                                                         *)
(* A record keeps what the handlers branch on and what an auditor reads:   *)
(*   status, policy, tasks    the project and the status of its five tasks *)
(*   approvals                the set of (action, status) pairs of its     *)
(*                            approval requests: the code asks only which  *)
(*                            actions have a request of which status       *)
(*   gate                     the approval checkpoint: "absent", "open"    *)
(*                            (approved = False) or "approved"             *)
(*   delivered                the delivery checkpoint exists               *)
(*   artifacts, trend_source  departments with an artifact, and the kind   *)
(*                            of provider behind the trend artifact        *)
(*   reviews                  the verdicts of the reviews, in order        *)
(*   history                  the set of status changes made so far        *)
(*   events                   the set of audit events; an event is kept    *)
(*                            with its subject (action or mode) and, for   *)
(*                            authorization and decision events, its actor *)
(***************************************************************************)
EXTENDS StateGraph, ApprovalPolicy, Naturals, Sequences

CONSTANT StrictProviders   \* TREND_PROVIDER_STRICT is set

ASSUME StrictProvidersAssumption == StrictProviders \in BOOLEAN

EXT == "external_api_send"

\* -------------------------------------------------------------- audit events

NoActor == [id |-> NoId, role |-> "viewer"]

\* An event of _record_event whose actor the model does not tell apart.
Event(type, subject) == [type |-> type, subject |-> subject, actor |-> NoActor]

ActorEvent(type, subject, actor) == [type |-> type, subject |-> subject, actor |-> actor]

\* Mutant: the list of events is replaced instead of extended.
record_event_Replace(r, es) == [r EXCEPT !.events = es]

record_event(r, es) == [r EXCEPT !.events = @ \union es]

\* ------------------------------------------------------------------ outcomes

Unsaved(r, reply) == [rec |-> r, saved |-> FALSE, reply |-> reply]

Saved(r, reply) == [rec |-> r, saved |-> TRUE, reply |-> reply]

\* -------------------------------------------------------- approval_action_state

Having(r, status) == {a \in ActionTypes : <<a, status>> \in r.approvals}

pending_actions(r)  == Having(r, "pending")
approved_actions(r) == Having(r, "approved")
rejected_actions(r) == Having(r, "rejected")
known_actions(r)    == pending_actions(r) \union approved_actions(r) \union rejected_actions(r)

\* Mutant: decided requests are removed from the record.
Decide_Remove(approvals, actions, decision) ==
  approvals \ {<<a, "pending">> : a \in actions}

\* The requests of `actions` that are pending get the status `decision`.
Decide(approvals, actions, decision) ==
  LET decided == {a \in actions : <<a, "pending">> \in approvals}
  IN (approvals \ {<<a, "pending">> : a \in decided}) \union {<<a, decision>> : a \in decided}

\* ---------------------------------------------------------------- _transition

\* _transition: records the change of status.  The ValueError it raises on an
\* illegal change is shown never to be reached (TransitionsLegal).
Transition(r, next) ==
  IF r.status = next THEN r
  ELSE [r EXCEPT !.status = next, !.history = @ \union {<<r.status, next>>}]

\* _reset_tasks_for_departments with TaskStatus.PENDING.
ResetTasks(r, departments) ==
  [r EXCEPT !.tasks = [d \in Departments |-> IF d \in departments THEN "pending" ELSE r.tasks[d]]]

\* Mutant: the waiting task is left as it is.
ReleaseWaiting_Forgotten(r, next) == r

\* The tasks that wait for an approval move on to `next`.
ReleaseWaiting(r, next) ==
  [r EXCEPT !.tasks =
     [d \in Departments |-> IF r.tasks[d] = "waiting_approval" THEN next ELSE r.tasks[d]]]

\* ------------------------------------------------- _authorize_actions_or_raise

\* Actions are checked in the order of their values.
ActionOrder ==
  [a \in ActionTypes |->
     CASE a = "bulk_modify"                 -> 1
       [] a = "destructive_change"          -> 2
       [] a = "external_api_send"           -> 3
       [] a = "production_affecting_change" -> 4]

\* Mutant: only the first of the actions is authorized.
DeniedActions_FirstOnly(r, actions, actor, allow) ==
  {a \in actions : /\ ~authorize_action(a, actor, r.policy, allow)
                   /\ \A b \in actions : ActionOrder[a] <= ActionOrder[b]}

DeniedActions(r, actions, actor, allow) ==
  {a \in actions : ~authorize_action(a, actor, r.policy, allow)}

\* The actions examined: up to the first denied one, all when none is denied.
ExaminedActions(r, actions, actor, allow) ==
  {a \in actions : \A d \in DeniedActions(r, actions, actor, allow) :
                      ActionOrder[a] <= ActionOrder[d]}

AuthorizationEvents(r, actions, actor, allow) ==
  LET examined == ExaminedActions(r, actions, actor, allow)
      denied   == DeniedActions(r, actions, actor, allow)
  IN {ActorEvent("authorization_granted", a, actor) : a \in examined \ denied}
     \union {ActorEvent("authorization_failed", a, actor) : a \in examined \intersect denied}
     \union {ActorEvent("policy_override_applied", a, actor) :
               a \in {b \in examined : override_applied(b, actor, r.policy, allow)}}

\* Mutant: a granted authorization leaves no event.
authorize_actions_FailuresOnly(r, actions, actor, allow) ==
  record_event(r, {e \in AuthorizationEvents(r, actions, actor, allow) :
                     e.type # "authorization_granted"})

authorize_actions(r, actions, actor, allow) ==
  record_event(r, AuthorizationEvents(r, actions, actor, allow))

\* --------------------------------------------------------------- the providers

\* providers/factory.py: an unknown name raises in strict mode and is the mock
\* provider otherwise; every other non-mock name is an external provider.
get_trend_provider(name) ==
  IF name # "unsupported" THEN name
  ELSE IF StrictProviders THEN "raises" ELSE "mock"

\* -------------------------------------------------------- _execute_pending_tasks

Unfinished(r) == {d \in Departments : r.tasks[d] # "done"}

\* The tasks of _build_plan that are executed before the trend task; the review
\* follows it.  Task ids are identified with their departments.
BeforeTrend == {"research", "design", "build"}

\* Mutant: any earlier request for the send opens the gate.
SendGated_AskedOnce(r, provider, approved) ==
  /\ "trend" \in Unfinished(r)
  /\ provider # "mock"
  /\ EXT \notin approved \union known_actions(r)

\* The trend task would call an external provider and the send is not approved.
SendGated(r, provider, approved) ==
  /\ "trend" \in Unfinished(r)
  /\ provider # "mock"
  /\ requires_human_approval(EXT)
  /\ EXT \notin approved

\* Mutant: no request is opened when one of any status exists.
PauseForApproval_AskedOnce(r) ==
  Transition([r EXCEPT
                !.tasks = [d \in Departments |->
                             CASE d \in BeforeTrend -> "done"
                               [] d = "trend"       -> "waiting_approval"
                               [] d = "review"      -> r.tasks[d]],
                !.artifacts = @ \union (Unfinished(r) \intersect BeforeTrend),
                !.approvals = IF EXT \in known_actions(r) THEN @ ELSE @ \union {<<EXT, "pending">>},
                !.gate = "open"],
             "waiting_approval")

\* Everything before the trend task runs, the trend task stops at the gate, one
\* request is opened unless one is pending, the approval checkpoint is (re)opened.
PauseForApproval(r) ==
  LET paused ==
        [r EXCEPT
           !.tasks = [d \in Departments |->
                        CASE d \in BeforeTrend -> "done"
                          [] d = "trend"       -> "waiting_approval"
                          [] d = "review"      -> r.tasks[d]],
           !.artifacts = @ \union (Unfinished(r) \intersect BeforeTrend),
           !.approvals = @ \union {<<EXT, "pending">>},
           !.gate = "open",
           !.events = @ \union (IF EXT \in pending_actions(r) THEN {}
                                ELSE {Event("approval_requested", EXT)})]
  IN Transition(paused, "waiting_approval")

\* ReviewAgent.run: a review of no artifacts requests changes.
ReviewVerdict(artifacts, simulate_review_failure) ==
  IF simulate_review_failure \/ artifacts = {} THEN "changes_requested" ELSE "approved"

\* Every unfinished task runs to done.  Artifacts are upserted by task, so a
\* department keeps one; the review task appends a verdict.
RunAllTasks(r, provider, simulate_review_failure) ==
  LET ran       == Unfinished(r)
      artifacts == r.artifacts \union (ran \ {"review"})
  IN [r EXCEPT
        !.tasks = [d \in Departments |-> "done"],
        !.artifacts = artifacts,
        !.trend_source = IF "trend" \in ran THEN provider ELSE @,
        !.reviews = IF "review" \in ran
                    THEN Append(@, ReviewVerdict(artifacts, simulate_review_failure))
                    ELSE @]

\* Mutant: the record is saved before the failed review asks for a revision.
FinishExecution_SaveEarly(r, provider, simulate_review_failure) ==
  LET done == RunAllTasks(r, provider, simulate_review_failure)
  IN IF done.reviews[Len(done.reviews)] = "changes_requested"
     THEN Transition(done, "review_failed")
     ELSE Transition([done EXCEPT !.delivered = TRUE], "completed")

\* Mutant: the verdict of the review is not looked at.
FinishExecution_AnyVerdict(r, provider, simulate_review_failure) ==
  Transition([RunAllTasks(r, provider, simulate_review_failure) EXCEPT !.delivered = TRUE],
             "completed")

FinishExecution(r, provider, simulate_review_failure) ==
  LET done   == RunAllTasks(r, provider, simulate_review_failure)
      failed == /\ "review" \in Unfinished(r)
                /\ done.reviews[Len(done.reviews)] = "changes_requested"
  IN IF failed
     THEN record_event(Transition(Transition(done, "review_failed"), "revision_requested"),
                       {Event("revision_requested", "review")})
     ELSE Transition([done EXCEPT !.delivered = TRUE], "completed")

\* get_trend_provider is called before any task runs: when it raises, nothing
\* that the handler did to its copy is saved.
execute_pending_tasks(r, provider_name, approved, simulate_review_failure) ==
  LET provider == get_trend_provider(provider_name)
  IN IF provider = "raises" THEN Unsaved(r, "refused")
     ELSE IF SendGated(r, provider, approved) THEN Saved(PauseForApproval(r), "ok")
     ELSE Saved(FinishExecution(r, provider, simulate_review_failure), "ok")

\* ------------------------------------------------------------------------- run

NewRecord(policy) ==
  [status |-> "draft", policy |-> policy,
   tasks |-> [d \in Departments |-> "pending"],
   approvals |-> {}, gate |-> "absent", delivered |-> FALSE,
   artifacts |-> {}, trend_source |-> "none", reviews |-> <<>>,
   history |-> {}, events |-> {}]

\* _parse_approved_actions raises on a value that is not an ApprovalActionType.
Parses(actions) == actions \subseteq ActionTypes

run(q) ==
  LET started == Transition(Transition(Transition(NewRecord(q.policy),
                   "intake_pending"), "ready_for_planning"), "in_progress")
  IN IF ~Parses(q.actions) THEN Unsaved(started, "refused")
     ELSE execute_pending_tasks(started, q.provider, q.actions, q.simulate_review_failure)

\* --------------------------------------------- record_authentication_success/failure

record_authentication_success(r) ==
  Saved(record_event(r, {Event("authentication_succeeded", ""), Event("actor_resolved", "")}), "ok")

record_authentication_failure(r) ==
  Saved(record_event(r, {Event("authentication_failed", "")}), "ok")

\* -------------------------------------------------------- resume_from_approval

\* _validate_approval_action_request
ValidActions(r, actions) ==
  /\ actions \subseteq known_actions(r)
  /\ actions \intersect rejected_actions(r) = {}

\* A repeated resume of a completed project is answered without any change.
idempotent_resume_from_approval(r, q) ==
  /\ r.status = "completed"
  /\ Parses(q.actions)
  /\ q.actions # {}
  /\ known_actions(r) # {}
  /\ ValidActions(r, q.actions)
  /\ pending_actions(r) = {}
  /\ q.actions \subseteq approved_actions(r)

ApprovalResumable(r, q) ==
  /\ r.status = "waiting_approval"
  /\ Parses(q.actions)
  /\ q.actions # {}
  /\ pending_actions(r) # {}
  /\ ValidActions(r, q.actions)

\* The pending requests of `actions` become approved; each one that does sets the
\* approval checkpoint and leaves an event.
ApproveRequests(r, actions, actor) ==
  LET decided == actions \intersect pending_actions(r)
  IN [r EXCEPT
        !.approvals = Decide(@, actions, "approved"),
        !.gate = IF decided # {} /\ @ # "absent" THEN "approved" ELSE @,
        !.events = @ \union {ActorEvent("approval_approved", a, actor) : a \in decided}]

\* Mutant: a partly denied call decides about what it was granted.
resume_from_approval_GrantedOnly(r, q) ==
  LET actions_to_approve == q.actions \ approved_actions(r)
      denied     == DeniedActions(r, actions_to_approve, q.actor, q.allow)
      authorized == authorize_actions(r, actions_to_approve, q.actor, q.allow)
      approved   == ApproveRequests(authorized, actions_to_approve \ denied, q.actor)
  IN IF ~ApprovalResumable(r, q) THEN Unsaved(r, "refused")
     ELSE IF denied # {} THEN Saved(approved, "forbidden")
     ELSE IF pending_actions(r) \ q.actions # {}
          THEN Saved(record_event(approved,
                 {Event("resume_triggered", "approval_resume_partial")}), "partial")
     ELSE execute_pending_tasks(
            Transition(ReleaseWaiting(approved, "pending"), "in_progress"), q.provider,
            approved_actions(r) \union actions_to_approve, FALSE)

resume_from_approval(r, q) ==
  LET actions_to_approve == q.actions \ approved_actions(r)
      missing_actions    == pending_actions(r) \ q.actions
      authorized         == authorize_actions(r, actions_to_approve, q.actor, q.allow)
      approved           == ApproveRequests(authorized, actions_to_approve, q.actor)
      resumed            == Transition(
                              record_event(ReleaseWaiting(approved, "pending"),
                                           {Event("resume_triggered", "approval_resume")}),
                              "in_progress")
  IN IF idempotent_resume_from_approval(r, q) THEN Unsaved(r, "idempotent")
     ELSE IF ~ApprovalResumable(r, q) THEN Unsaved(r, "refused")
     ELSE IF DeniedActions(r, actions_to_approve, q.actor, q.allow) # {}
          THEN Saved(authorized, "forbidden")
     ELSE IF missing_actions # {}
          THEN IF actions_to_approve = {} THEN Unsaved(r, "partial")
               ELSE Saved(record_event(approved,
                            {Event("resume_triggered", "approval_resume_partial")}), "partial")
     ELSE execute_pending_tasks(resumed, q.provider,
                                approved_actions(r) \union actions_to_approve, FALSE)

\* -------------------------------------------------------------- reject_approval

idempotent_reject(r, q) ==
  LET actions == IF q.actions = {} THEN rejected_actions(r) ELSE q.actions
  IN /\ r.status = "revision_requested"
     /\ Parses(q.actions)
     /\ actions # {}
     /\ actions \subseteq rejected_actions(r)

\* An empty action set stands for every pending action; a named one must be pending.
Rejectable(r, q) ==
  /\ r.status = "waiting_approval"
  /\ pending_actions(r) # {}
  /\ Parses(q.actions)
  /\ q.actions \subseteq pending_actions(r)

\* Every pending request is closed, the ones the caller did not name too.
RejectRequests(r, actor) ==
  [r EXCEPT
     !.approvals = Decide(@, pending_actions(r), "rejected"),
     !.gate = IF @ # "absent" THEN "open" ELSE @,
     !.events = @ \union {ActorEvent("approval_rejected", a, actor) : a \in pending_actions(r)}]

\* Mutant: only the actions the caller named are authorized.
reject_approval_NamedOnly(r, q) ==
  LET named      == IF q.actions = {} THEN pending_actions(r) ELSE q.actions
      authorized == authorize_actions(r, named, q.actor, q.allow)
      rejected   == ReleaseWaiting(RejectRequests(authorized, q.actor), "revision_requested")
  IN IF ~q.reason_given THEN Unsaved(r, "refused")
     ELSE IF idempotent_reject(r, q) THEN Unsaved(r, "idempotent")
     ELSE IF ~Rejectable(r, q) THEN Unsaved(r, "refused")
     ELSE IF DeniedActions(r, named, q.actor, q.allow) # {}
          THEN Saved(authorized, "forbidden")
     ELSE Saved(Transition(rejected, "revision_requested"), "ok")

reject_approval(r, q) ==
  LET authorized == authorize_actions(r, pending_actions(r), q.actor, q.allow)
      rejected   == ReleaseWaiting(RejectRequests(authorized, q.actor), "revision_requested")
  IN IF ~q.reason_given THEN Unsaved(r, "refused")
     ELSE IF idempotent_reject(r, q) THEN Unsaved(r, "idempotent")
     ELSE IF ~Rejectable(r, q) THEN Unsaved(r, "refused")
     ELSE IF DeniedActions(r, pending_actions(r), q.actor, q.allow) # {}
          THEN Saved(authorized, "forbidden")
     ELSE Saved(Transition(rejected, "revision_requested"), "ok")

\* --------------------------------------------------------- resume_from_revision

HasResumed(r, mode) == Event("resume_triggered", mode) \in r.events

\* Mutant: a completed project does not know that it was resumed.
idempotent_resume_from_revision_Planning(r, mode) ==
  r.status = "ready_for_planning" /\ mode = "replanning"

idempotent_resume_from_revision(r, mode) ==
  \/ r.status = "ready_for_planning" /\ mode = "replanning"
  \/ r.status = "completed" /\ HasResumed(r, mode)

\* _revision_resume_config: the departments each mode runs again.
RevisionDepartments(mode) ==
  CASE mode = "replanning" -> {"design", "build", "trend", "review"}
    [] mode = "rebuilding" -> {"build", "trend", "review"}
    [] mode = "rereview"   -> {"review"}

\* The approvals recorded for the project are not consulted: only the actions
\* named in this call count as approved.
resume_from_revision(r, q) ==
  LET reset == ResetTasks(record_event(r, {Event("resume_triggered", q.mode)}),
                          RevisionDepartments(q.mode))
  IN IF r.status # "revision_requested"
     THEN Unsaved(r, IF idempotent_resume_from_revision(r, q.mode) THEN "idempotent" ELSE "refused")
     ELSE IF q.mode = "replanning" THEN Saved(Transition(reset, "ready_for_planning"), "ok")
     ELSE IF ~Parses(q.actions) THEN Unsaved(r, "refused")
     ELSE execute_pending_tasks(Transition(reset, "in_progress"), q.provider, q.actions, FALSE)

\* ------------------------------------------------------------- start_replanning

idempotent_start_replanning(r) ==
  r.status = "completed" /\ Event("replanning_started", "") \in r.events

\* Mutant: a replanned project that is completed is started again.
start_replanning_Again(r, q) ==
  LET reset   == IF q.reset_downstream_tasks
                 THEN ResetTasks(r, {"design", "build", "trend", "review"}) ELSE r
      started == Transition(record_event(reset, {Event("replanning_started", "")}), "in_progress")
  IN IF r.status # "ready_for_planning" /\ ~idempotent_start_replanning(r)
     THEN Unsaved(r, "refused")
     ELSE IF ~Parses(q.actions) THEN Unsaved(r, "refused")
     ELSE execute_pending_tasks(started, q.provider, q.actions, FALSE)

start_replanning(r, q) ==
  LET reset   == IF q.reset_downstream_tasks
                 THEN ResetTasks(r, {"design", "build", "trend", "review"}) ELSE r
      started == Transition(record_event(reset, {Event("replanning_started", "")}), "in_progress")
  IN IF r.status # "ready_for_planning"
     THEN Unsaved(r, IF idempotent_start_replanning(r) THEN "idempotent" ELSE "refused")
     ELSE IF ~Parses(q.actions) THEN Unsaved(r, "refused")
     ELSE execute_pending_tasks(started, q.provider, q.actions, FALSE)
===============================================================================
