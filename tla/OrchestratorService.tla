-------------------------- MODULE OrchestratorService --------------------------
(***************************************************************************)
(* The orchestrator behind its repository, one call at a time: a call      *)
(* reads the record, runs the handler of PMOrchestrator and publishes what *)
(* the handler saved, all in one step.  ConcurrentApi takes that step      *)
(* apart.                                                                  *)
(*                                                                         *)
(* A call for a project that is not stored raises LookupError and changes  *)
(* nothing (_get_record_or_raise): the actions are guarded by Known.       *)
(***************************************************************************)
EXTENDS RecordInvariants

CONSTANTS Projects,       \* the ids run draws from (uuid4 in the code)
          Actors,         \* [id, role] records the authentication resolves to
          Policies,       \* project policies a run request may carry
          AllowLists,     \* runtime allow-lists a caller of the service may pass
          ProviderNames,  \* "mock", "external" and "unsupported"
          ActionSets,     \* values of approved_actions / rejected_actions
          ManualActions   \* actions whose request is put into a waiting record from outside

ASSUME ServiceAssumption ==
  /\ ProviderNames \subseteq {"mock", "external", "unsupported"}
  /\ ManualActions \subseteq ActionTypes

VARIABLES store,     \* the repository: the record of each project, or NoRecord
          pregranted \* history variable: the projects that a call executed which named
                     \* the external send as approved beforehand

vars == <<store, pregranted>>

NoRecord == [status |-> "absent"]

Known(p) == store[p] # NoRecord

RunRequests ==
  [policy : Policies, provider : ProviderNames, actions : ActionSets,
   simulate_review_failure : BOOLEAN]

ApprovalRequests ==
  [actions : ActionSets, actor : Actors, allow : AllowLists, provider : ProviderNames]

RejectionRequests ==
  [actions : ActionSets, actor : Actors, allow : AllowLists, reason_given : BOOLEAN]

RevisionRequests ==
  [mode : RevisionResumeModes, provider : ProviderNames, actions : ActionSets]

ReplanningRequests ==
  [provider : ProviderNames, actions : ActionSets, reset_downstream_tasks : BOOLEAN]

\* ------------------------------------------------------------------- behaviour

Init ==
  /\ store = [p \in Projects |-> NoRecord]
  /\ pregranted = {}

\* Mutant: the tasks that are stored are not overwritten by a save.
Publish_KeepTasks(p, out) ==
  store' = IF ~out.saved THEN store
           ELSE IF ~Known(p) THEN [store EXCEPT ![p] = out.rec]
           ELSE [store EXCEPT ![p] = [out.rec EXCEPT !.tasks = store[p].tasks]]

\* What the handler saved is published.
Publish(p, out) ==
  store' = IF out.saved THEN [store EXCEPT ![p] = out.rec] ELSE store

\* The same, for the calls that name actions as approved beforehand.
PublishGranted(p, out, actions) ==
  /\ Publish(p, out)
  /\ pregranted' = IF out.saved /\ EXT \in actions THEN pregranted \union {p} ELSE pregranted

Run(p) ==
  /\ ~Known(p)
  /\ \E q \in RunRequests : PublishGranted(p, run(q), q.actions)

ResumeFromApproval(p) ==
  /\ Known(p)
  /\ \E q \in ApprovalRequests : Publish(p, resume_from_approval(store[p], q))
  /\ UNCHANGED pregranted

RejectApproval(p) ==
  /\ Known(p)
  /\ \E q \in RejectionRequests : Publish(p, reject_approval(store[p], q))
  /\ UNCHANGED pregranted

\* In the replanning lane nothing is executed and the named actions are not read.
ResumeFromRevision(p) ==
  /\ Known(p)
  /\ \E q \in RevisionRequests :
       PublishGranted(p, resume_from_revision(store[p], q),
                      IF q.mode = "replanning" THEN {} ELSE q.actions)

StartReplanning(p) ==
  /\ Known(p)
  /\ \E q \in ReplanningRequests :
       PublishGranted(p, start_replanning(store[p], q), q.actions)

RecordAuthentication(p) ==
  /\ Known(p)
  /\ \/ Publish(p, record_authentication_success(store[p]))
     \/ Publish(p, record_authentication_failure(store[p]))
  /\ UNCHANGED pregranted

\* Another owner of the repository adds a pending request to a waiting record, as
\* tests/test_api.py does: no handler opens requests for these actions.
AddManualRequest(p) ==
  /\ Known(p)
  /\ store[p].status = "waiting_approval"
  /\ \E a \in ManualActions \ known_actions(store[p]) :
       store' = [store EXCEPT ![p].approvals = @ \union {<<a, "pending">>}]
  /\ UNCHANGED pregranted

Next ==
  \E p \in Projects :
    \/ Run(p)
    \/ ResumeFromApproval(p)
    \/ RejectApproval(p)
    \/ ResumeFromRevision(p)
    \/ StartReplanning(p)
    \/ RecordAuthentication(p)
    \/ AddManualRequest(p)

Spec == Init /\ [][Next]_vars

\* ------------------------------------------------------------------ invariants

Stored == {p \in Projects : Known(p)}

\* The store holds well-typed records and, between calls, only statuses at which
\* a call returns.
TypeOK ==
  /\ DOMAIN store = Projects
  /\ \A p \in Stored : RecordTypeOK(store[p])
  /\ pregranted \subseteq Projects

\* Whatever sequence of runs, approvals, rejections, revisions and replannings a
\* project went through, its status and its tasks agree (_execute_pending_tasks
\* and the task resets of the resume calls).
StatusMatchesTasks == \A p \in Stored : TasksMatchStatus(store[p])

\* completed, the delivery checkpoint, the artifacts and the approving review
\* come together (the end of _execute_pending_tasks).
CompletionIsDelivery == \A p \in Stored : CompletedIsDelivered(store[p])

\* No project waits without an open request, and no request stays open in the
\* revision and planning lanes (the pause in _execute_pending_tasks,
\* reject_approval closing every request).
RequestsMatchStatus == \A p \in Stored : WaitingHasRequest(store[p])

\* No handler runs into the ValueError of _transition.
LegalTransitions == \A p \in Stored : TransitionsLegal(store[p])

\* Decisions and their audit events agree, and every decision was authorized.
AuditMatchesDecisions == \A p \in Stored : DecisionsAudited(store[p])

\* However the calls went, every approval and every rejection on file was given by an
\* actor whom the documented rules allow to decide about that action in this project
\* (the actor of the event against the policy of the record).
DecidersHadAuthority == \A p \in Stored : DecidersHadRole(store[p])

\* What a call asks of an actor: to decide about the actions.  If the documented rules
\* refuse the actor one of them, nothing but the audit events may change; and whatever
\* is decided, those rules allow.
DecidesAsEntitled(r, q, actions, out) ==
  /\ \A d \in out.rec.approvals \ r.approvals :
       d[2] # "pending" => Entitled(d[1], q.actor, r.policy, q.allow)
  /\ (\E a \in actions : ~Entitled(a, q.actor, r.policy, q.allow)) =>
       \A f \in DOMAIN r \ {"events"} : out.rec[f] = r[f]

\* A call decides about an action only if its actor is entitled to under the project's
\* policy and the caller's allow-list, and a call that is denied one action decides
\* about none: also the requests that reject_approval closes without being asked to
\* (_authorize_actions_or_raise before any request changes its status).
DecisionsAuthorized ==
  \A p \in Stored :
    LET r == store[p]
    IN /\ \A q \in ApprovalRequests :
            DecidesAsEntitled(r, q, q.actions \ approved_actions(r), resume_from_approval(r, q))
       /\ \A q \in RejectionRequests :
            DecidesAsEntitled(r, q, pending_actions(r), reject_approval(r, q))

\* A client that repeats a call it already got through, not having seen the
\* answer, is answered as before and changes nothing (the _idempotent_* handlers).
\* Excluded: calls that left the project waiting for an approval, and completions
\* that left a request open.
RetryIsIdempotent ==
  \A p \in Stored :
    LET r == store[p]
        Retried(first, again) ==
          first.saved /\ first.reply = "ok" /\ first.rec.status # "waiting_approval"
            => ~again.saved /\ again.reply = "idempotent"
    IN /\ \A q \in ApprovalRequests :
            LET first == resume_from_approval(r, q)
            IN pending_actions(first.rec) = {} =>
                 Retried(first, resume_from_approval(first.rec, q))
       /\ \A q \in RejectionRequests :
            LET first == reject_approval(r, q)
            IN Retried(first, reject_approval(first.rec, q))
       /\ \A q \in RevisionRequests :
            LET first == resume_from_revision(r, q)
            IN Retried(first, resume_from_revision(first.rec, q))
       /\ \A q \in ReplanningRequests :
            LET first == start_replanning(r, q)
            IN Retried(first, start_replanning(first.rec, q))

\* The actor may decide everything that is asked.
MayDecide(r, q) == DeniedActions(r, pending_actions(r), q.actor, q.allow) = {}

Executes(q) == Parses(q.actions) /\ get_trend_provider(q.provider) # "raises"

Leaves(out, statuses) == out.saved /\ out.reply = "ok" /\ out.rec.status \in statuses

CanBeApproved(r) ==
  pending_actions(r) \intersect rejected_actions(r) = {} =>
    \A q \in ApprovalRequests :
      q.actions = pending_actions(r) /\ MayDecide(r, q) /\ Executes(q) =>
        Leaves(resume_from_approval(r, q), {"completed"})

CanBeRejected(r) ==
  \A q \in RejectionRequests :
    q.reason_given /\ q.actions \subseteq pending_actions(r) /\ MayDecide(r, q) =>
      Leaves(reject_approval(r, q), {"revision_requested"})

CanBeReworked(r) ==
  \A q \in RevisionRequests :
    IF q.mode = "replanning"
    THEN Leaves(resume_from_revision(r, q), {"ready_for_planning"})
    ELSE Executes(q) => Leaves(resume_from_revision(r, q), {"waiting_approval", "completed"})

CanBeReplanned(r) ==
  \A q \in ReplanningRequests :
    Executes(q) => Leaves(start_replanning(r, q), {"waiting_approval", "completed"})

GetsOn(r) ==
  \/ r.status = "completed"
  \/ r.status = "waiting_approval" /\ CanBeApproved(r) /\ CanBeRejected(r)
  \/ r.status = "revision_requested" /\ CanBeReworked(r)
  \/ r.status = "ready_for_planning" /\ CanBeReplanned(r)

\* Wherever a project has got to, the calls of its lane get it on: who may decide all
\* that is asked completes it by approving, unless that was rejected before, and sends
\* it to revision by rejecting; a rework is accepted and never ends in revision again
\* (the guards of the five handlers against the records that the others leave behind).
NeverStuck == \A p \in Stored : GetsOn(store[p])

\* ------------------------------------------------------------ action properties

\* A completed project keeps everything but its audit events: a late approval,
\* rejection, revision or replanning cannot reopen it (COMPLETED: [] in graph.py).
CompletedIsFinal ==
  [][\A p \in Stored :
       store[p].status = "completed" =>
         \A f \in DOMAIN store[p] \ {"events"} : store'[p][f] = store[p][f]]_vars

\* The audit trail only grows: events, status changes and taken decisions are
\* never lost, whatever is reset for a revision.
AuditOnlyGrows ==
  [][\A p \in Stored :
       /\ store[p].events \subseteq store'[p].events
       /\ store[p].history \subseteq store'[p].history
       /\ approved_actions(store[p]) \subseteq approved_actions(store'[p])
       /\ rejected_actions(store[p]) \subseteq rejected_actions(store'[p])]_vars

\* The send was approved on this project by somebody who had the role for it.
SendApprovedByAuthority(r) ==
  \E e \in r.events :
    e.type = "approval_approved" /\ e.subject = EXT /\ HasRole(EXT, e.actor, r.policy)

\* A project that waits is waiting for the send, whatever else it waits for, and it is
\* completed only over the approval of an authorized actor: partial approvals, denied
\* calls and the providers that the callers name are no way around it
\* (missing_actions and the gate behind the approval resume).
WaitingCompletesByAuthority ==
  [][\A p \in Stored :
       store[p].status = "waiting_approval" /\ store'[p].status = "completed" =>
         SendApprovedByAuthority(store'[p])]_vars

\* ------------------------------------------------------------------ refinement

\* The abstract view of the store: the status of each project, the decisions taken on
\* it, the actions approved for it or named beforehand, and the external sends.  The
\* code permits what a caller names, with nobody's authorization; SendsAreAuthorized
\* below is what the documentation asks instead.
Stage == [p \in Projects |-> store[p].status]

Settled ==
  [p \in Projects |-> IF Known(p) THEN {d \in store[p].approvals : d[2] # "pending"} ELSE {}]

Permitted ==
  [p \in Projects |-> (IF p \in pregranted THEN {EXT} ELSE {}) \union
                      (IF Known(p) THEN approved_actions(store[p]) ELSE {})]

Sent == {p \in Projects : Known(p) /\ store[p].trend_source = "external"}

Lifecycle == INSTANCE ProjectLifecycle WITH
  stage <- Stage, settled <- Settled, permitted <- Permitted, sent <- Sent

\* The service implements the abstract lifecycle: every call moves a project along
\* a legal path, takes decisions only while it waits and sends only what is permitted.
LifecycleRefined == Lifecycle!Spec

\* --------------------------------------------- stated by the code, not satisfied

\* What the answer to a paused call says: "Approve action `external_api_send`.",
\* then "Call approval resume API" - some decision request approves a waiting
\* project's open requests.
WaitingCanBeApproved ==
  \A p \in Stored :
    store[p].status = "waiting_approval" =>
      pending_actions(store[p]) \intersect rejected_actions(store[p]) = {}

\* "pending approvals are fully satisfied" before execution resumes.
NothingPendingWhenCompleted ==
  \A p \in Stored : store[p].status = "completed" => pending_actions(store[p]) = {}

\* "approved action input is rejected unless actor authorization also passes": a send
\* goes to an external provider only over an approval by an authorized actor.
SendsAreAuthorized ==
  \A p \in Stored :
    store[p].trend_source = "external" => SendApprovedByAuthority(store[p])

\* "runtime allow-list (if provided) can further restrict actor IDs": where the rule of
\* the project lists ids, whoever decides is one of them, whatever the caller's list.
DecidersAreListed ==
  \A p \in Stored : \A e \in store[p].events :
    e.type \in Decided => Listed(e.subject, e.actor, RuleIds(store[p].policy))
===============================================================================
