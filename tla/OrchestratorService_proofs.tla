----------------------- MODULE OrchestratorService_proofs -----------------------
(***************************************************************************)
(* The invariants of OrchestratorService hold for every set of projects,   *)
(* actors, policies, allow-lists and action sets.                          *)
(*                                                                         *)
(* A save replaces one record by what a handler made of it, so the records *)
(* of the store satisfy RecordInv because every handler keeps it           *)
(* (RecordInvariants_proofs).  Neither part of RecordInv is inductive      *)
(* alone: the tasks agree with the status after a resume only because the  *)
(* requests did before it, and the other way round.                        *)
(***************************************************************************)
EXTENDS OrchestratorService, RecordInvariants_proofs

IInv ==
  /\ DOMAIN store = Projects
  /\ pregranted \subseteq Projects
  /\ \A p \in Stored : RecordInv(store[p])

\* A request put into a waiting record from outside, for an action without one.
LEMMA ManualRequestKeeps ==
  ASSUME NEW r, RecordInv(r), r.status = "waiting_approval",
         NEW a \in ActionTypes \ known_actions(r)
  PROVE  RecordInv([r EXCEPT !.approvals = @ \union {<<a, "pending">>}])
<1> DEFINE t == [r EXCEPT !.approvals = @ \union {<<a, "pending">>}]
<1>1. /\ RecordTypeOK(r) /\ TasksMatchStatus(r) /\ CompletedIsDelivered(r)
      /\ WaitingHasRequest(r) /\ TransitionsLegal(r) /\ DecisionsAudited(r)
  BY DEF RecordInv
<1>2. /\ DOMAIN t = DOMAIN r /\ t.tasks = r.tasks /\ t.status = r.status
      /\ t.approvals = r.approvals \union {<<a, "pending">>} /\ t.gate = r.gate
      /\ t.delivered = r.delivered /\ t.artifacts = r.artifacts
      /\ t.trend_source = r.trend_source /\ t.reviews = r.reviews
      /\ t.history = r.history /\ t.events = r.events
  BY <1>1 DEF RecordTypeOK
<1> HIDE DEF t
<1>3. /\ pending_actions(t) = pending_actions(r) \union {a}
      /\ approved_actions(t) = approved_actions(r)
      /\ rejected_actions(t) = rejected_actions(r)
  BY <1>2 DEF pending_actions, approved_actions, rejected_actions, Having
<1>4. RecordTypeOK(t)
  BY <1>1, <1>2 DEF RecordTypeOK
<1>5. TasksMatchStatus(t)
  BY <1>1, <1>2 DEF TasksMatchStatus, TasksAre
<1>6. CompletedIsDelivered(t)
  BY <1>1, <1>2 DEF CompletedIsDelivered
<1>7. WaitingHasRequest(t)
  BY <1>1, <1>2, <1>3 DEF WaitingHasRequest
<1>8. TransitionsLegal(t)
  BY <1>1, <1>2, LegalBySame
<1>9. DecisionsAudited(t)
  BY <1>1, <1>2, <1>3, AuditedByMore
<1> USE DEF t
<1> QED
  BY <1>4, <1>5, <1>6, <1>7, <1>8, <1>9 DEF RecordInv

\* One record of the store is replaced by one that satisfies RecordInv.
LEMMA ReplaceKeeps ==
  ASSUME IInv, NEW p \in Projects, NEW rec, RecordInv(rec),
         store' = [store EXCEPT ![p] = rec],
         pregranted' \subseteq Projects
  PROVE  IInv'
<1>1. DOMAIN store' = Projects
  BY DEF IInv
<1>2. ASSUME NEW s \in Projects, store'[s] # NoRecord
      PROVE  RecordInv(store'[s])
  <2>1. CASE s = p
    BY <2>1 DEF IInv
  <2>2. CASE s # p
    BY <1>2, <2>2 DEF IInv, Stored, Known
  <2> QED
    BY <2>1, <2>2
<1> QED
  BY <1>1, <1>2 DEF IInv, Stored, Known

\* A call that publishes its outcome keeps the invariant when what it saves
\* satisfies RecordInv.
LEMMA PublishKeeps ==
  ASSUME IInv, NEW p \in Projects, NEW out,
         out.saved => RecordInv(out.rec),
         Publish(p, out),
         pregranted' \subseteq Projects
  PROVE  IInv'
<1>1. CASE out.saved
  BY <1>1, ReplaceKeeps DEF Publish
<1>2. CASE ~out.saved
  BY <1>2 DEF Publish, IInv, Stored, Known
<1> QED
  BY <1>1, <1>2

\* Every call keeps the invariant.
LEMMA NextKeeps ==
  ASSUME IInv, [Next]_vars
  PROVE  IInv'
<1>1. CASE UNCHANGED vars
  BY <1>1 DEF vars, IInv, Stored, Known
<1>2. ASSUME NEW p \in Projects, Known(p)
      PROVE  RecordInv(store[p])
  BY <1>2 DEF IInv, Stored
<1>3. \A name \in ProviderNames : name \in Names
  BY ServiceAssumption DEF Names
<1>4. ASSUME NEW p \in Projects, Run(p)
      PROVE  IInv'
  <2>1. PICK q \in RunRequests : PublishGranted(p, run(q), q.actions)
    BY <1>4 DEF Run
  <2>2. q.provider \in Names /\ q.simulate_review_failure \in BOOLEAN
    BY <1>3 DEF RunRequests
  <2>3. run(q).saved => RecordInv(run(q).rec)
    BY <2>2, RunKeeps
  <2>4. Publish(p, run(q)) /\ pregranted' \subseteq Projects
    BY <2>1 DEF PublishGranted, IInv
  <2> QED
    BY <2>3, <2>4, PublishKeeps
<1>5. ASSUME NEW p \in Projects, ResumeFromApproval(p)
      PROVE  IInv'
  <2>1. PICK q \in ApprovalRequests : Publish(p, resume_from_approval(store[p], q))
    BY <1>5 DEF ResumeFromApproval
  <2>2. q.provider \in Names /\ RecordInv(store[p])
    BY <1>2, <1>3, <1>5 DEF ApprovalRequests, ResumeFromApproval
  <2>3. resume_from_approval(store[p], q).saved => RecordInv(resume_from_approval(store[p], q).rec)
    BY <2>2, ApprovalKeeps
  <2>4. pregranted' \subseteq Projects
    BY <1>5 DEF ResumeFromApproval, IInv
  <2> QED
    BY <2>1, <2>3, <2>4, PublishKeeps
<1>6. ASSUME NEW p \in Projects, RejectApproval(p)
      PROVE  IInv'
  <2>1. PICK q \in RejectionRequests : Publish(p, reject_approval(store[p], q))
    BY <1>6 DEF RejectApproval
  <2>2. RecordInv(store[p]) /\ pregranted' \subseteq Projects
    BY <1>2, <1>6 DEF RejectApproval, IInv
  <2>3. reject_approval(store[p], q).saved => RecordInv(reject_approval(store[p], q).rec)
    BY <2>2, RejectionKeeps
  <2> QED
    BY <2>1, <2>2, <2>3, PublishKeeps
<1>7. ASSUME NEW p \in Projects, ResumeFromRevision(p)
      PROVE  IInv'
  <2>1. PICK q \in RevisionRequests :
          PublishGranted(p, resume_from_revision(store[p], q),
                         IF q.mode = "replanning" THEN {} ELSE q.actions)
    BY <1>7 DEF ResumeFromRevision
  <2>2. q.provider \in Names /\ q.mode \in RevisionResumeModes /\ RecordInv(store[p])
    BY <1>2, <1>3, <1>7 DEF RevisionRequests, ResumeFromRevision
  <2>3. resume_from_revision(store[p], q).saved => RecordInv(resume_from_revision(store[p], q).rec)
    BY <2>2, RevisionKeeps
  <2>4. Publish(p, resume_from_revision(store[p], q)) /\ pregranted' \subseteq Projects
    BY <2>1 DEF PublishGranted, IInv
  <2> QED
    BY <2>3, <2>4, PublishKeeps
<1>8. ASSUME NEW p \in Projects, StartReplanning(p)
      PROVE  IInv'
  <2>1. PICK q \in ReplanningRequests :
          PublishGranted(p, start_replanning(store[p], q), q.actions)
    BY <1>8 DEF StartReplanning
  <2>2. q.provider \in Names /\ RecordInv(store[p])
    BY <1>2, <1>3, <1>8 DEF ReplanningRequests, StartReplanning
  <2>3. start_replanning(store[p], q).saved => RecordInv(start_replanning(store[p], q).rec)
    BY <2>2, ReplanningKeeps
  <2>4. Publish(p, start_replanning(store[p], q)) /\ pregranted' \subseteq Projects
    BY <2>1 DEF PublishGranted, IInv
  <2> QED
    BY <2>3, <2>4, PublishKeeps
<1>9. ASSUME NEW p \in Projects, RecordAuthentication(p)
      PROVE  IInv'
  <2>1. RecordInv(store[p]) /\ pregranted' \subseteq Projects
    BY <1>2, <1>9 DEF RecordAuthentication, IInv
  <2>2. /\ RecordInv(record_authentication_success(store[p]).rec)
        /\ RecordInv(record_authentication_failure(store[p]).rec)
    BY <2>1, AuthenticationKeeps
  <2>3. \/ Publish(p, record_authentication_success(store[p]))
        \/ Publish(p, record_authentication_failure(store[p]))
    BY <1>9 DEF RecordAuthentication
  <2> QED
    BY <2>1, <2>2, <2>3, PublishKeeps
<1>10. ASSUME NEW p \in Projects, AddManualRequest(p)
       PROVE  IInv'
  <2>1. PICK a \in ManualActions \ known_actions(store[p]) :
          store' = [store EXCEPT ![p].approvals = @ \union {<<a, "pending">>}]
    BY <1>10 DEF AddManualRequest
  <2> DEFINE rec == [store[p] EXCEPT !.approvals = @ \union {<<a, "pending">>}]
  <2>2. RecordInv(rec)
    <3>1. RecordInv(store[p]) /\ store[p].status = "waiting_approval"
      BY <1>2, <1>10 DEF AddManualRequest
    <3>2. a \in ActionTypes \ known_actions(store[p])
      BY ServiceAssumption
    <3> QED
      BY <3>1, <3>2, ManualRequestKeeps
  <2>3. store' = [store EXCEPT ![p] = rec]
    BY <2>1
  <2>4. pregranted' \subseteq Projects
    BY <1>10 DEF AddManualRequest, IInv
  <2> HIDE DEF rec
  <2> QED
    BY <2>2, <2>3, <2>4, ReplaceKeeps
<1> QED
  BY <1>1, <1>4, <1>5, <1>6, <1>7, <1>8, <1>9, <1>10 DEF Next

\* The store always satisfies the inductive invariant.
THEOREM Invariance == Spec => []IInv
<1>1. Init => IInv
  BY DEF Init, IInv, Stored, Known
<1>2. IInv /\ [Next]_vars => IInv'
  BY NextKeeps
<1> QED
  BY <1>1, <1>2, PTL DEF Spec

\* Whatever the callers do, the stored records keep their types and a status at
\* which a call returns: no handler leaves a project in a transient status.
THEOREM TypesAreKept == Spec => []TypeOK
<1>1. IInv => TypeOK
  BY DEF IInv, TypeOK, RecordInv
<1> QED
  BY <1>1, Invariance, PTL

\* After any sequence of calls the status of a project and its five tasks agree
\* (_execute_pending_tasks and the task resets of the resume calls).
THEOREM TasksFollowStatus == Spec => []StatusMatchesTasks
<1>1. IInv => StatusMatchesTasks
  BY DEF IInv, StatusMatchesTasks, RecordInv
<1> QED
  BY <1>1, Invariance, PTL

\* A project is completed exactly when it was delivered, with all its artifacts and
\* after a review that approved it (the end of _execute_pending_tasks).
THEOREM CompletionsAreDeliveries == Spec => []CompletionIsDelivery
<1>1. IInv => CompletionIsDelivery
  BY DEF IInv, CompletionIsDelivery, RecordInv
<1> QED
  BY <1>1, Invariance, PTL

\* A project that waits has a request to decide about, and none is left open in the
\* revision and planning lanes (_execute_pending_tasks, reject_approval).
THEOREM WaitingHasRequests == Spec => []RequestsMatchStatus
<1>1. IInv => RequestsMatchStatus
  BY DEF IInv, RequestsMatchStatus, RecordInv
<1> QED
  BY <1>1, Invariance, PTL

\* No handler asks _transition for a change that graph.py forbids.
THEOREM NoIllegalTransition == Spec => []LegalTransitions
<1>1. IInv => LegalTransitions
  BY DEF IInv, LegalTransitions, RecordInv
<1> QED
  BY <1>1, Invariance, PTL

\* Every decision has its event and its authorization, and no event stands for a
\* decision that was not taken (_authorize_actions_or_raise, _record_event).
THEOREM AuditIsFaithful == Spec => []AuditMatchesDecisions
<1>1. IInv => AuditMatchesDecisions
  BY DEF IInv, AuditMatchesDecisions, RecordInv
<1> QED
  BY <1>1, Invariance, PTL

\* The handlers save nothing of a completed project but audit events.
LEMMA NothingSavedWhenCompleted ==
  ASSUME NEW r, r.status = "completed", NEW q
  PROVE  /\ ~resume_from_approval(r, q).saved
         /\ ~reject_approval(r, q).saved
         /\ ~resume_from_revision(r, q).saved
         /\ ~start_replanning(r, q).saved
<1>1. ~ApprovalResumable(r, q) /\ ~Rejectable(r, q)
  BY DEF ApprovalResumable, Rejectable
<1>2. ~resume_from_approval(r, q).saved
  BY <1>1 DEF resume_from_approval, Unsaved
<1>3. ~reject_approval(r, q).saved
  BY <1>1 DEF reject_approval, Unsaved
<1>4. ~resume_from_revision(r, q).saved
  BY DEF resume_from_revision, Unsaved
<1>5. ~start_replanning(r, q).saved
  BY DEF start_replanning, Unsaved
<1> QED
  BY <1>2, <1>3, <1>4, <1>5

\* No call reopens a completed project or changes anything of it but its events
\* (COMPLETED: [] in graph.py).
THEOREM CompletionIsFinal == Spec => CompletedIsFinal
<1> DEFINE Kept == \A p \in Stored :
                     store[p].status = "completed" =>
                       \A f \in DOMAIN store[p] \ {"events"} : store'[p][f] = store[p][f]
<1>1. ASSUME IInv, Next
      PROVE  Kept
  <2> SUFFICES ASSUME NEW s \in Stored, store[s].status = "completed",
                      NEW f \in DOMAIN store[s] \ {"events"}
               PROVE  store'[s][f] = store[s][f]
    OBVIOUS
  <2>1. s \in Projects /\ Known(s) /\ s \in DOMAIN store
    BY <1>1 DEF Stored, IInv
  <2>2. ASSUME NEW p \in Projects, NEW out, Publish(p, out), p = s => ~out.saved
        PROVE  store'[s] = store[s]
    BY <2>1, <2>2 DEF Publish
  <2>3. PICK p \in Projects :
          \/ Run(p) \/ ResumeFromApproval(p) \/ RejectApproval(p) \/ ResumeFromRevision(p)
          \/ StartReplanning(p) \/ RecordAuthentication(p) \/ AddManualRequest(p)
    BY <1>1 DEF Next
  <2>4. CASE Run(p)
    <3>1. p # s
      BY <2>1, <2>4 DEF Run
    <3>2. PICK q \in RunRequests : Publish(p, run(q))
      BY <2>4 DEF Run, PublishGranted
    <3> QED
      BY <2>2, <3>1, <3>2
  <2>5. CASE ResumeFromApproval(p)
    <3>1. PICK q \in ApprovalRequests : Publish(p, resume_from_approval(store[p], q))
      BY <2>5 DEF ResumeFromApproval
    <3>2. p = s => ~resume_from_approval(store[p], q).saved
      BY NothingSavedWhenCompleted
    <3> QED
      BY <2>2, <3>1, <3>2
  <2>6. CASE RejectApproval(p)
    <3>1. PICK q \in RejectionRequests : Publish(p, reject_approval(store[p], q))
      BY <2>6 DEF RejectApproval
    <3>2. p = s => ~reject_approval(store[p], q).saved
      BY NothingSavedWhenCompleted
    <3> QED
      BY <2>2, <3>1, <3>2
  <2>7. CASE ResumeFromRevision(p)
    <3>1. PICK q \in RevisionRequests : Publish(p, resume_from_revision(store[p], q))
      BY <2>7 DEF ResumeFromRevision, PublishGranted
    <3>2. p = s => ~resume_from_revision(store[p], q).saved
      BY NothingSavedWhenCompleted
    <3> QED
      BY <2>2, <3>1, <3>2
  <2>8. CASE StartReplanning(p)
    <3>1. PICK q \in ReplanningRequests : Publish(p, start_replanning(store[p], q))
      BY <2>8 DEF StartReplanning, PublishGranted
    <3>2. p = s => ~start_replanning(store[p], q).saved
      BY NothingSavedWhenCompleted
    <3> QED
      BY <2>2, <3>1, <3>2
  <2>9. CASE RecordAuthentication(p)
    <3>1. PICK es : store' = [store EXCEPT ![p] = record_event(store[p], es)]
      BY <2>9 DEF RecordAuthentication, Publish, record_authentication_success,
                  record_authentication_failure, Saved
    <3>2. CASE p # s
      BY <2>1, <3>1, <3>2
    <3>3. CASE p = s
      <4>1. store'[s] = record_event(store[s], es)
        BY <2>1, <3>1, <3>3
      <4> QED
        BY <4>1 DEF record_event
    <3> QED
      BY <3>2, <3>3
  <2>10. CASE AddManualRequest(p)
    <3>1. p # s
      BY <2>10 DEF AddManualRequest
    <3> QED
      BY <2>1, <2>10, <3>1 DEF AddManualRequest
  <2> QED
    BY <2>3, <2>4, <2>5, <2>6, <2>7, <2>8, <2>9, <2>10
<1>2. IInv /\ [Next]_vars => [Kept]_vars
  BY <1>1
<1> QED
  BY <1>2, Invariance, PTL DEF Spec, CompletedIsFinal

\* What one call does to the trail, for every record: it grows, and what was granted anew
\* was granted to an actor with a role for it.
Faithful ==
  /\ \A s \in Stored : Grows(store[s], store'[s]) /\ Grants(store[s], store'[s])
  /\ \A s \in Projects \ Stored : store'[s] # NoRecord => GrantsHaveRole(store'[s])

\* A call that publishes an outcome which grows and grants.
LEMMA PublishIsFaithful ==
  ASSUME IInv, NEW p \in Projects, Known(p), NEW out, Publish(p, out),
         out.saved => Grows(store[p], out.rec) /\ Grants(store[p], out.rec)
  PROVE  Faithful
<1>1. DOMAIN store = Projects
  BY DEF IInv
<1>2. ASSUME NEW s \in Stored
      PROVE  Grows(store[s], store[s]) /\ Grants(store[s], store[s])
  BY DEF Grows, Grants, IInv, RecordInv, RecordTypeOK, Fields
<1>3. CASE ~out.saved
  BY <1>2, <1>3 DEF Publish, Faithful, Stored, Known
<1>4. CASE out.saved
  <2>1. store' = [store EXCEPT ![p] = out.rec]
    BY <1>4 DEF Publish
  <2>2. ASSUME NEW s \in Projects, s # p
        PROVE  store'[s] = store[s]
    BY <2>1, <2>2
  <2>3. store'[p] = out.rec
    BY <1>1, <2>1
  <2>4. \A s \in Stored : Grows(store[s], store'[s]) /\ Grants(store[s], store'[s])
    BY <1>2, <1>4, <2>2, <2>3 DEF Stored
  <2>5. \A s \in Projects \ Stored : store'[s] = NoRecord
    BY <2>2 DEF Stored, Known
  <2> QED
    BY <2>4, <2>5 DEF Faithful
<1> QED
  BY <1>3, <1>4

\* Every call is faithful.
LEMMA NextIsFaithful ==
  ASSUME IInv, Next
  PROVE  Faithful
<1>1. PICK p \in Projects :
        \/ Run(p) \/ ResumeFromApproval(p) \/ RejectApproval(p) \/ ResumeFromRevision(p)
        \/ StartReplanning(p) \/ RecordAuthentication(p) \/ AddManualRequest(p)
  BY DEF Next
<1>2. Known(p) => RecordInv(store[p]) /\ DOMAIN store[p] = Fields
  BY DEF IInv, Stored, RecordInv, RecordTypeOK, Fields
<1>3. \A name \in ProviderNames : name \in Names
  BY ServiceAssumption DEF Names
<1>4. CASE Run(p)
  <2>1. PICK q \in RunRequests : Publish(p, run(q))
    BY <1>4 DEF Run, PublishGranted
  <2>2. \A s \in Projects \ {p} : store'[s] = store[s]
    BY <2>1 DEF Publish
  <2>3. p \notin Stored /\ DOMAIN store = Projects
    BY <1>4 DEF Run, Stored, IInv
  <2>4. store'[p] = NoRecord \/ store'[p] = run(q).rec
    BY <2>1, <2>3 DEF Publish, Stored, Known
  <2>5. \A s \in Stored : Grows(store[s], store[s]) /\ Grants(store[s], store[s])
    BY DEF Grows, Grants, IInv, RecordInv, RecordTypeOK, Fields
  <2>6. \A s \in Stored : store'[s] = store[s]
    BY <2>2, <2>3 DEF Stored
  <2>7. ASSUME NEW s \in Projects \ Stored, store'[s] # NoRecord
        PROVE  GrantsHaveRole(store'[s])
    <3>1. s = p
      BY <2>2, <2>7 DEF Stored, Known
    <3> QED
      BY <2>4, <2>7, <3>1, RunGrants
  <2> QED
    BY <2>5, <2>6, <2>7 DEF Faithful
<1>5. CASE ResumeFromApproval(p)
  <2>1. PICK q \in ApprovalRequests : Publish(p, resume_from_approval(store[p], q))
    BY <1>5 DEF ResumeFromApproval
  <2>2. Known(p) /\ q.provider \in Names
    BY <1>3, <1>5 DEF ResumeFromApproval, ApprovalRequests
  <2> QED
    BY <1>2, <2>1, <2>2, ApprovalGrows, ApprovalGrants, PublishIsFaithful
<1>6. CASE RejectApproval(p)
  <2>1. PICK q \in RejectionRequests : Publish(p, reject_approval(store[p], q))
    BY <1>6 DEF RejectApproval
  <2>2. Known(p)
    BY <1>6 DEF RejectApproval
  <2> QED
    BY <1>2, <2>1, <2>2, RejectionGrows, RejectionGrants, PublishIsFaithful
<1>7. CASE ResumeFromRevision(p)
  <2>1. PICK q \in RevisionRequests : Publish(p, resume_from_revision(store[p], q))
    BY <1>7 DEF ResumeFromRevision, PublishGranted
  <2>2. Known(p) /\ q.provider \in Names /\ q.mode \in RevisionResumeModes
    BY <1>3, <1>7 DEF ResumeFromRevision, RevisionRequests
  <2> QED
    BY <1>2, <2>1, <2>2, RevisionGrows, RevisionGrants, PublishIsFaithful
<1>8. CASE StartReplanning(p)
  <2>1. PICK q \in ReplanningRequests : Publish(p, start_replanning(store[p], q))
    BY <1>8 DEF StartReplanning, PublishGranted
  <2>2. Known(p) /\ q.provider \in Names
    BY <1>3, <1>8 DEF StartReplanning, ReplanningRequests
  <2> QED
    BY <1>2, <2>1, <2>2, ReplanningGrows, ReplanningGrants, PublishIsFaithful
<1>9. CASE RecordAuthentication(p)
  <2>1. PICK out \in {record_authentication_success(store[p]),
                      record_authentication_failure(store[p])} : Publish(p, out)
    BY <1>9 DEF RecordAuthentication
  <2>2. Known(p)
    BY <1>9 DEF RecordAuthentication
  <2>3. Grows(store[p], out.rec) /\ Grants(store[p], out.rec)
    BY <1>2, <2>2, AuthenticationGrows, AuthenticationGrants
  <2> QED
    BY <2>1, <2>2, <2>3, PublishIsFaithful
<1>10. CASE AddManualRequest(p)
  <2>1. PICK a \in ManualActions :
          store' = [store EXCEPT ![p].approvals = @ \union {<<a, "pending">>}]
    BY <1>10 DEF AddManualRequest
  <2> DEFINE t == [store[p] EXCEPT !.approvals = @ \union {<<a, "pending">>}]
  <2>2. Known(p) /\ DOMAIN store[p] = Fields
    BY <1>2, <1>10 DEF AddManualRequest
  <2>3. /\ t.events = store[p].events /\ t.history = store[p].history
        /\ t.policy = store[p].policy /\ DOMAIN t = Fields
        /\ t.approvals = store[p].approvals \union {<<a, "pending">>}
    BY <2>2 DEF Fields
  <2>4. store' = [store EXCEPT ![p] = t]
    BY <2>1
  <2> HIDE DEF t
  <2>5. Grows(store[p], t) /\ Grants(store[p], t)
    BY <2>3, SameRequests DEF Grows, Grants
  <2>6. Publish(p, Saved(t, "ok")) /\ Saved(t, "ok").rec = t
    BY <2>4 DEF Publish, Saved
  <2> QED
    BY <2>2, <2>5, <2>6, PublishIsFaithful
<1> QED
  BY <1>1, <1>4, <1>5, <1>6, <1>7, <1>8, <1>9, <1>10

\* No call loses an audit event, a status change or a decision that was taken
\* (record_event and approval updates only add; the resets leave them alone).
THEOREM AuditTrailOnlyGrows == Spec => AuditOnlyGrows
<1> DEFINE Kept == \A p \in Stored :
                     /\ store[p].events \subseteq store'[p].events
                     /\ store[p].history \subseteq store'[p].history
                     /\ approved_actions(store[p]) \subseteq approved_actions(store'[p])
                     /\ rejected_actions(store[p]) \subseteq rejected_actions(store'[p])
<1>1. IInv /\ [Next]_vars => [Kept]_vars
  BY NextIsFaithful DEF Faithful, Grows
<1> QED
  BY <1>1, Invariance, PTL DEF Spec, AuditOnlyGrows

\* All authorizations on file were granted to actors with a role for them.
LEMMA GrantsAreKept == Spec => [](\A p \in Stored : GrantsHaveRole(store[p]))
<1> DEFINE Inv == \A p \in Stored : GrantsHaveRole(store[p])
<1>1. Init => Inv
  BY DEF Init, Stored, Known
<1>2. ASSUME IInv, Inv, [Next]_vars
      PROVE  Inv'
  <2>1. CASE UNCHANGED vars
    BY <1>2, <2>1 DEF vars, Stored, Known
  <2>2. CASE Next
    <3>1. Faithful
      BY <1>2, <2>2, NextIsFaithful
    <3>2. ASSUME NEW p \in Projects, store'[p] # NoRecord
          PROVE  GrantsHaveRole(store'[p])
      <4>1. CASE p \in Stored
        BY <1>2, <3>1, <4>1, GrantsKeep DEF Faithful
      <4>2. CASE p \notin Stored
        BY <3>1, <3>2, <4>2 DEF Faithful
      <4> QED
        BY <4>1, <4>2
    <3> QED
      BY <3>2 DEF Stored, Known, GrantsHaveRole
  <2> QED
    BY <1>2, <2>1, <2>2
<1> QED
  BY <1>1, <1>2, Invariance, PTL DEF Spec

\* Every approval and rejection on file was given by an actor to whom the documented
\* rules leave that decision, for all actors, policies and allow-lists: a decision
\* leaves its event only where the authorization left one before
\* (_authorize_actions_or_raise, the events of the five handlers).
THEOREM DecidersHaveAuthority == Spec => []DecidersHadAuthority
<1>1. IInv /\ (\A p \in Stored : GrantsHaveRole(store[p])) => DecidersHadAuthority
  <2>1. SUFFICES ASSUME IInv, NEW p \in Stored, GrantsHaveRole(store[p]),
                        NEW e \in store[p].events, e.type \in Decided
                 PROVE  HasRole(e.subject, e.actor, store[p].policy)
    BY DEF DecidersHadAuthority, DecidersHadRole
  <2>2. ActorEvent("authorization_granted", e.subject, e.actor) \in store[p].events
    BY <2>1 DEF IInv, RecordInv, DecisionsAudited
  <2> QED
    BY <2>1, <2>2 DEF GrantsHaveRole, ActorEvent
<1> QED
  BY <1>1, Invariance, GrantsAreKept, PTL

\* A record that satisfies both has an authorized approval for what it shows approved.
LEMMA ApprovedByAuthority ==
  ASSUME NEW r, RecordInv(r), GrantsHaveRole(r), EXT \in approved_actions(r)
  PROVE  SendApprovedByAuthority(r)
<1>1. PICK e \in r.events : e.type = "approval_approved" /\ e.subject = EXT
  BY DEF RecordInv, DecisionsAudited
<1>2. ActorEvent("authorization_granted", e.subject, e.actor) \in r.events
  BY <1>1 DEF RecordInv, DecisionsAudited, Decided
<1>3. HasRole(EXT, e.actor, r.policy)
  BY <1>1, <1>2 DEF GrantsHaveRole, ActorEvent
<1> QED
  BY <1>1, <1>3 DEF SendApprovedByAuthority

\* A waiting project is completed by nothing but an approval that leaves the send
\* approved.
LEMMA WaitingEndsApproved ==
  ASSUME IInv, Next, NEW s \in Stored, store[s].status = "waiting_approval",
         store'[s].status = "completed"
  PROVE  EXT \in approved_actions(store'[s])
<1>1. PICK p \in Projects :
        \/ Run(p) \/ ResumeFromApproval(p) \/ RejectApproval(p) \/ ResumeFromRevision(p)
        \/ StartReplanning(p) \/ RecordAuthentication(p) \/ AddManualRequest(p)
  BY DEF Next
<1>2. DOMAIN store = Projects /\ RecordInv(store[s]) /\ s \in Projects /\ Known(s)
  BY DEF IInv, Stored
<1>3. store'[s] # store[s]
  OBVIOUS
<1>4. ASSUME NEW out, Publish(p, out)
      PROVE  s = p /\ out.saved /\ store'[s] = out.rec
  BY <1>2, <1>3, <1>4 DEF Publish
<1> DEFINE r == store[s]
<1> HIDE DEF r
<1>5. r = store[s] /\ RecordInv(r) /\ r.status = "waiting_approval"
  BY <1>2 DEF r
<1>6. CASE Run(p)
  BY <1>2, <1>4, <1>6 DEF Run, PublishGranted
<1>7. CASE ResumeFromApproval(p)
  <2>1. PICK q \in ApprovalRequests : Publish(p, resume_from_approval(store[p], q))
    BY <1>7 DEF ResumeFromApproval
  <2> DEFINE out == resume_from_approval(r, q)
  <2>2. out.saved /\ store'[s] = out.rec
    BY <1>4, <1>5, <2>1
  <2>3. q.provider \in Names
    BY ServiceAssumption DEF ApprovalRequests, Names
  <2>4. \/ out.rec.status = r.status
        \/ EXT \in approved_actions(out.rec)
    BY <1>5, <2>2, <2>3, ApprovalEffect
  <2> QED
    BY <1>5, <2>2, <2>4
<1>8. CASE RejectApproval(p)
  <2>1. PICK q \in RejectionRequests : Publish(p, reject_approval(store[p], q))
    BY <1>8 DEF RejectApproval
  <2> DEFINE out == reject_approval(r, q)
  <2>2. out.saved /\ store'[s] = out.rec
    BY <1>4, <1>5, <2>1
  <2>3. out.rec.status = r.status \/ out.rec.status = "revision_requested"
    BY <1>5, <2>2, RejectionEffect
  <2> QED
    BY <1>5, <2>2, <2>3
<1>9. CASE ResumeFromRevision(p)
  <2>1. PICK q \in RevisionRequests : Publish(p, resume_from_revision(store[p], q))
    BY <1>9 DEF ResumeFromRevision, PublishGranted
  <2>2. resume_from_revision(r, q).saved
    BY <1>4, <1>5, <2>1
  <2> QED
    BY <1>5, <2>2 DEF resume_from_revision, Unsaved
<1>10. CASE StartReplanning(p)
  <2>1. PICK q \in ReplanningRequests : Publish(p, start_replanning(store[p], q))
    BY <1>10 DEF StartReplanning, PublishGranted
  <2>2. start_replanning(r, q).saved
    BY <1>4, <1>5, <2>1
  <2> QED
    BY <1>5, <2>2 DEF start_replanning, Unsaved
<1>11. CASE RecordAuthentication(p)
  <2>1. PICK out \in {record_authentication_success(store[p]),
                      record_authentication_failure(store[p])} : Publish(p, out)
    BY <1>11 DEF RecordAuthentication
  <2>2. s = p /\ store'[s] = out.rec
    BY <1>4, <2>1
  <2>3. out.rec.status = store[s].status
    BY <1>2, <2>1, <2>2, AuthenticationEffect
  <2> QED
    BY <2>2, <2>3
<1>12. CASE AddManualRequest(p)
  <2>1. PICK a \in ManualActions :
          store' = [store EXCEPT ![p].approvals = @ \union {<<a, "pending">>}]
    BY <1>12 DEF AddManualRequest
  <2>2. store'[s].status = store[s].status
    BY <1>2, <2>1 DEF RecordInv, RecordTypeOK
  <2> QED
    BY <2>2
<1> QED
  BY <1>1, <1>6, <1>7, <1>8, <1>9, <1>10, <1>11, <1>12

\* Whatever a waiting project waits for, and whichever calls were denied or partly
\* granted before, it is completed only over the approval of the send by an actor to
\* whom the documented rules leave it (missing_actions and the gate behind
\* resume_from_approval).
THEOREM WaitingNeedsAuthority == Spec => WaitingCompletesByAuthority
<1> DEFINE Granted == \A p \in Stored : GrantsHaveRole(store[p])
           Kept == \A p \in Stored :
                     store[p].status = "waiting_approval" /\ store'[p].status = "completed" =>
                       SendApprovedByAuthority(store'[p])
<1>1. ASSUME IInv, IInv', Granted', Next
      PROVE  Kept
  <2> SUFFICES ASSUME NEW p \in Stored, store[p].status = "waiting_approval",
                      store'[p].status = "completed"
               PROVE  SendApprovedByAuthority(store'[p])
    OBVIOUS
  <2>1. EXT \in approved_actions(store'[p])
    BY <1>1, WaitingEndsApproved
  <2>2. store'[p] # NoRecord
    BY DEF NoRecord
  <2>3. RecordInv(store'[p]) /\ GrantsHaveRole(store'[p])
    BY <1>1, <2>2 DEF IInv, Stored, Known
  <2> QED
    BY <2>1, <2>3, ApprovedByAuthority
<1>2. IInv /\ IInv' /\ Granted' /\ [Next]_vars => [Kept]_vars
  BY <1>1
<1> QED
  BY <1>2, Invariance, GrantsAreKept, PTL DEF Spec, WaitingCompletesByAuthority

\* A decision is only ever taken on actions the actor is entitled to decide about,
\* whether the caller named them or the rejection closes them along with the others,
\* and a call that is denied one of its actions changes nothing but the audit events
\* (_authorize_actions_or_raise before any request changes its status).
THEOREM EveryDecisionIsAuthorized == Spec => []DecisionsAuthorized
<1>1. ASSUME IInv
      PROVE  DecisionsAuthorized
  <2>1. ASSUME NEW p \in Stored
        PROVE  RecordInv(store[p]) /\ DOMAIN store[p] = Fields
    BY <1>1 DEF IInv, RecordInv, RecordTypeOK, Fields
  <2>2. \A q \in ApprovalRequests : q.provider \in Names
    BY ServiceAssumption DEF ApprovalRequests, Names
  <2>3. ASSUME NEW p \in Stored, NEW q \in ApprovalRequests
        PROVE  DecidesAsEntitled(store[p], q, q.actions \ approved_actions(store[p]),
                                 resume_from_approval(store[p], q))
    BY <2>1, <2>2, ApprovalAuthorized, ApprovalDenied DEF DecidesAsEntitled
  <2>4. ASSUME NEW p \in Stored, NEW q \in RejectionRequests
        PROVE  DecidesAsEntitled(store[p], q, pending_actions(store[p]),
                                 reject_approval(store[p], q))
    BY <2>1, RejectionAuthorized, RejectionDenied DEF DecidesAsEntitled
  <2> QED
    BY <2>3, <2>4 DEF DecisionsAuthorized
<1> QED
  BY <1>1, Invariance, PTL

\* A client that did not see the answer may repeat its call: it is answered as before
\* and nothing is saved (the _idempotent_* handlers).  What makes it so is in the
\* record: the decisions, or the event of the first call.
THEOREM RetriesChangeNothing == Spec => []RetryIsIdempotent
<1>1. ASSUME IInv
      PROVE  RetryIsIdempotent
  <2> SUFFICES ASSUME NEW p \in Stored
               PROVE  LET r == store[p]
                          Retried(first, again) ==
                            first.saved /\ first.reply = "ok"
                              /\ first.rec.status # "waiting_approval"
                              => ~again.saved /\ again.reply = "idempotent"
                      IN /\ \A q \in ApprovalRequests :
                              LET first == resume_from_approval(r, q)
                              IN pending_actions(first.rec) = {} =>
                                   Retried(first, resume_from_approval(first.rec, q))
                         /\ \A q \in RejectionRequests :
                              LET first == reject_approval(r, q)
                              IN Retried(first, reject_approval(first.rec, q))
                         /\ \A q \in RevisionRequests :
                              LET first == resume_from_revision(r, q)
                              IN Retried(first, resume_from_revision(first.rec, q))
                         /\ \A q \in ReplanningRequests :
                              LET first == start_replanning(r, q)
                              IN Retried(first, start_replanning(first.rec, q))
    BY DEF RetryIsIdempotent
  <2> DEFINE r == store[p]
  <2>1. RecordInv(r)
    BY <1>1 DEF IInv
  <2>2. \A name \in ProviderNames : name \in Names
    BY ServiceAssumption DEF Names
  <2>3. \A t : ~Unsaved(t, "idempotent").saved /\ Unsaved(t, "idempotent").reply = "idempotent"
    BY DEF Unsaved
  <2> HIDE DEF r
  <2>4. ASSUME NEW q \in ApprovalRequests,
               resume_from_approval(r, q).saved, resume_from_approval(r, q).reply = "ok",
               pending_actions(resume_from_approval(r, q).rec) = {}
        PROVE  LET t == resume_from_approval(r, q).rec
               IN resume_from_approval(t, q) = Unsaved(t, "idempotent")
    BY <2>1, <2>2, <2>4, ApprovalRetry DEF ApprovalRequests
  <2>5. ASSUME NEW q, reject_approval(r, q).saved, reject_approval(r, q).reply = "ok"
        PROVE  LET t == reject_approval(r, q).rec
               IN reject_approval(t, q) = Unsaved(t, "idempotent")
    BY <2>1, <2>5, RejectionRetry
  <2>6. ASSUME NEW q \in RevisionRequests, resume_from_revision(r, q).saved,
               resume_from_revision(r, q).rec.status # "waiting_approval"
        PROVE  LET t == resume_from_revision(r, q).rec
               IN resume_from_revision(t, q) = Unsaved(t, "idempotent")
    BY <2>1, <2>2, <2>6, RevisionRetry DEF RevisionRequests
  <2>7. ASSUME NEW q \in ReplanningRequests, start_replanning(r, q).saved,
               start_replanning(r, q).rec.status # "waiting_approval"
        PROVE  LET t == start_replanning(r, q).rec
               IN start_replanning(t, q) = Unsaved(t, "idempotent")
    BY <2>1, <2>2, <2>7, ReplanningRetry DEF ReplanningRequests
  <2> USE DEF r
  <2> QED
    BY <2>3, <2>4, <2>5, <2>6, <2>7
<1> QED
  BY <1>1, Invariance, PTL

\* --------------------------------------------------------- the calls that get on

\* An execution that can begin pauses at the gate or completes the project: the review
\* finds artifacts.  With the send approved it does not pause.
LEMMA ExecutionLeaves ==
  ASSUME NEW r, Executable(r), NEW q, q.provider \in Names, Executes(q), NEW approved
  PROVE  LET out == execute_pending_tasks(r, q.provider, approved, FALSE)
         IN /\ Leaves(out, {"waiting_approval", "completed"})
            /\ EXT \in approved => Leaves(out, {"completed"})
<1>1. execute_pending_tasks(r, q.provider, approved, FALSE).saved
  BY DEF Executes, execute_pending_tasks, Saved
<1>2. /\ Executed(r, execute_pending_tasks(r, q.provider, approved, FALSE).rec, approved, FALSE)
      /\ execute_pending_tasks(r, q.provider, approved, FALSE).reply = "ok"
  BY <1>1, ExecuteEffect DEF Names
<1> QED
  BY <1>1, <1>2 DEF Executed, Leaves

\* Who may decide all that is asked completes a waiting project, unless one of the
\* actions was rejected before.
LEMMA WaitingIsApproved ==
  ASSUME NEW r, RecordInv(r), r.status = "waiting_approval",
         \A q \in ApprovalRequests : q.provider \in Names
  PROVE  CanBeApproved(r)
<1> SUFFICES ASSUME pending_actions(r) \intersect rejected_actions(r) = {},
                    NEW q \in ApprovalRequests, q.actions = pending_actions(r),
                    MayDecide(r, q), Executes(q)
             PROVE  Leaves(resume_from_approval(r, q), {"completed"})
  BY DEF CanBeApproved
<1> DEFINE actions == q.actions \ approved_actions(r)
           a == ApproveRequests(authorize_actions(r, actions, q.actor, q.allow), actions, q.actor)
           m == record_event(ReleaseWaiting(a, "pending"),
                             {Event("resume_triggered", "approval_resume")})
           resumed  == Transition(m, "in_progress")
           approved == approved_actions(r) \union actions
<1>1. pending_actions(r) # {} /\ EXT \in pending_actions(r) \union approved_actions(r)
  BY DEF RecordInv, WaitingHasRequest
<1>2. ApprovalResumable(r, q) /\ ~idempotent_resume_from_approval(r, q)
  <2>1. ValidActions(r, q.actions)
    BY DEF ValidActions, known_actions
  <2> QED
    BY <1>1, <2>1 DEF ApprovalResumable, idempotent_resume_from_approval, Executes
<1>3. DeniedActions(r, actions, q.actor, q.allow) = {}
  BY DEF MayDecide, DeniedActions
<1>4. resume_from_approval(r, q) = execute_pending_tasks(resumed, q.provider, approved, FALSE)
  <2>1. pending_actions(r) \ q.actions = {}
    OBVIOUS
  <2> QED
    BY <1>2, <1>3, <2>1 DEF resume_from_approval
<1>5. Executable(resumed)
  BY <1>3, ApprovalExecutes
<1>6. EXT \in approved
  BY <1>1
<1> HIDE DEF resumed, approved
<1> QED
  BY <1>4, <1>5, <1>6, ExecutionLeaves

\* Or sends it to revision, naming what is asked or nothing.
LEMMA WaitingIsRejected ==
  ASSUME NEW r, RecordInv(r), r.status = "waiting_approval"
  PROVE  CanBeRejected(r)
<1> SUFFICES ASSUME NEW q \in RejectionRequests, q.reason_given,
                    q.actions \subseteq pending_actions(r), MayDecide(r, q)
             PROVE  Leaves(reject_approval(r, q), {"revision_requested"})
  BY DEF CanBeRejected
<1> DEFINE pending == pending_actions(r)
           a == RejectRequests(authorize_actions(r, pending, q.actor, q.allow), q.actor)
           m == ReleaseWaiting(a, "revision_requested")
<1>1. Rejectable(r, q) /\ ~idempotent_reject(r, q)
  <2>1. pending # {} /\ pending \subseteq ActionTypes
    BY DEF RecordInv, WaitingHasRequest, pending_actions, Having
  <2> QED
    BY <2>1 DEF Rejectable, idempotent_reject, Parses
<1>2. reject_approval(r, q) = Saved(Transition(m, "revision_requested"), "ok")
  BY <1>1 DEF reject_approval, MayDecide
<1>3. Transition(m, "revision_requested").status = "revision_requested"
  <2>1. RecordTypeOK(a)
    BY RejectFields DEF MayDecide
  <2> HIDE DEF a
  <2>2. DOMAIN m = DOMAIN a
    BY DEF ReleaseWaiting
  <2> HIDE DEF m
  <2> QED
    BY <2>1, <2>2 DEF Transition, RecordTypeOK
<1> QED
  BY <1>2, <1>3 DEF Leaves, Saved

\* A rework is accepted, and does not end in revision again.
LEMMA RevisionIsReworked ==
  ASSUME NEW r, RecordInv(r), r.status = "revision_requested",
         \A q \in RevisionRequests : q.provider \in Names
  PROVE  CanBeReworked(r)
<1> SUFFICES ASSUME NEW q \in RevisionRequests
             PROVE  IF q.mode = "replanning"
                    THEN Leaves(resume_from_revision(r, q), {"ready_for_planning"})
                    ELSE Executes(q) => Leaves(resume_from_revision(r, q),
                                               {"waiting_approval", "completed"})
  BY DEF CanBeReworked
<1> DEFINE m == ResetTasks(record_event(r, {Event("resume_triggered", q.mode)}),
                           RevisionDepartments(q.mode))
<1>1. q.mode \in RevisionResumeModes
  BY DEF RevisionRequests
<1>2. CASE q.mode = "replanning"
  <2>1. resume_from_revision(r, q) = Saved(Transition(m, "ready_for_planning"), "ok")
    BY <1>2 DEF resume_from_revision
  <2>2. Shape(m)
    BY <1>1, RevisionReset
  <2> HIDE DEF m
  <2>3. Transition(m, "ready_for_planning").status = "ready_for_planning"
    BY <2>2 DEF Transition, Shape
  <2> QED
    BY <1>2, <2>1, <2>3 DEF Leaves, Saved
<1>3. CASE q.mode # "replanning"
  <2> SUFFICES ASSUME Executes(q)
               PROVE  Leaves(resume_from_revision(r, q), {"waiting_approval", "completed"})
    BY <1>3
  <2>1. resume_from_revision(r, q)
          = execute_pending_tasks(Transition(m, "in_progress"), q.provider, q.actions, FALSE)
    BY <1>3 DEF resume_from_revision, Executes
  <2>2. Executable(Transition(m, "in_progress"))
    BY <1>1, RevisionExecutes
  <2> HIDE DEF m
  <2> QED
    BY <2>1, <2>2, ExecutionLeaves
<1> QED
  BY <1>2, <1>3

\* A project that is to be planned again is executed.
LEMMA PlanningIsExecuted ==
  ASSUME NEW r, RecordInv(r), r.status = "ready_for_planning",
         \A q \in ReplanningRequests : q.provider \in Names
  PROVE  CanBeReplanned(r)
<1> SUFFICES ASSUME NEW q \in ReplanningRequests, Executes(q)
             PROVE  Leaves(start_replanning(r, q), {"waiting_approval", "completed"})
  BY DEF CanBeReplanned
<1> DEFINE reset   == IF q.reset_downstream_tasks
                      THEN ResetTasks(r, {"design", "build", "trend", "review"}) ELSE r
           started == Transition(record_event(reset, {Event("replanning_started", "")}),
                                 "in_progress")
<1>1. start_replanning(r, q) = execute_pending_tasks(started, q.provider, q.actions, FALSE)
  BY DEF start_replanning, Executes
<1>2. Executable(started)
  BY ReplanningExecutes
<1> HIDE DEF started
<1> QED
  BY <1>1, <1>2, ExecutionLeaves

\* What the lanes leave of a record is enough for its calls.
LEMMA RecordGetsOn ==
  ASSUME NEW r, RecordInv(r)
  PROVE  GetsOn(r)
<1>1. /\ \A q \in ApprovalRequests : q.provider \in Names
      /\ \A q \in RevisionRequests : q.provider \in Names
      /\ \A q \in ReplanningRequests : q.provider \in Names
  BY ServiceAssumption DEF ApprovalRequests, RevisionRequests, ReplanningRequests, Names
<1>2. r.status \in {"completed", "waiting_approval", "revision_requested", "ready_for_planning"}
  BY DEF RecordInv, RecordTypeOK, StoredStatuses, ProjectStatuses, TransientStatuses
<1>3. r.status = "waiting_approval" => CanBeApproved(r) /\ CanBeRejected(r)
  BY <1>1, WaitingIsApproved, WaitingIsRejected
<1>4. r.status = "revision_requested" => CanBeReworked(r)
  BY <1>1, RevisionIsReworked
<1>5. r.status = "ready_for_planning" => CanBeReplanned(r)
  BY <1>1, PlanningIsExecuted
<1> QED
  BY <1>2, <1>3, <1>4, <1>5 DEF GetsOn

\* No sequence of calls brings a project to where its lane has no way on: the guards of
\* each handler fit the records that the other ones leave behind.
THEOREM NoProjectIsStuck == Spec => []NeverStuck
<1>1. IInv => NeverStuck
  BY RecordGetsOn DEF IInv, NeverStuck
<1> QED
  BY <1>1, Invariance, PTL

\* ------------------------------------------------------------------ refinement

\* The decisions on a record, as the abstract lifecycle sees them.
SettledOf(r) == {d \in r.approvals : d[2] # "pending"}

LEMMA SettledPairs ==
  ASSUME NEW r, r.approvals \subseteq ActionTypes \X {"pending", "approved", "rejected"}
  PROVE  SettledOf(r) = (approved_actions(r) \X {"approved"})
                          \union (rejected_actions(r) \X {"rejected"})
<1>1. ASSUME NEW d \in SettledOf(r)
      PROVE  d \in (approved_actions(r) \X {"approved"})
                     \union (rejected_actions(r) \X {"rejected"})
  <2>1. d \in ActionTypes \X {"pending", "approved", "rejected"} /\ d \in r.approvals
    BY DEF SettledOf
  <2>2. d = <<d[1], d[2]>> /\ d[1] \in ActionTypes /\ d[2] \in {"approved", "rejected"}
    BY <2>1 DEF SettledOf
  <2> QED
    BY <2>1, <2>2 DEF approved_actions, rejected_actions, Having
<1>2. approved_actions(r) \X {"approved"} \subseteq SettledOf(r)
  BY DEF approved_actions, Having, SettledOf
<1>3. rejected_actions(r) \X {"rejected"} \subseteq SettledOf(r)
  BY DEF rejected_actions, Having, SettledOf
<1> QED
  BY <1>1, <1>2, <1>3

\* The abstract view after one record was replaced.
LEMMA ReplacedView ==
  ASSUME IInv, NEW p \in Projects, NEW t, DOMAIN t = Fields,
         store' = [store EXCEPT ![p] = t],
         pregranted' \ {p} = pregranted \ {p}
  PROVE  /\ Stage' = [Stage EXCEPT ![p] = t.status]
         /\ Settled' = [Settled EXCEPT ![p] = SettledOf(t)]
         /\ Permitted' = [Permitted EXCEPT ![p] =
              (IF p \in pregranted' THEN {EXT} ELSE {}) \union approved_actions(t)]
         /\ Sent' \ {p} = Sent \ {p}
         /\ p \in Sent' <=> t.trend_source = "external"
<1>1. store'[p] = t /\ \A s \in Projects \ {p} : store'[s] = store[s]
  BY DEF IInv
<1>2. t # NoRecord
  <2>1. DOMAIN NoRecord = {"status"} /\ "policy" \in Fields
    BY DEF NoRecord, Fields
  <2> QED
    BY <2>1
<1>3. \A s \in Projects \ {p} : s \in pregranted' <=> s \in pregranted
  OBVIOUS
<1>4. Stage' = [Stage EXCEPT ![p] = t.status]
  <2>1. \A s \in Projects : store'[s].status = IF s = p THEN t.status ELSE store[s].status
    BY <1>1
  <2>2. Stage' = [s \in Projects |-> store'[s].status]
    BY DEF Stage
  <2>3. Stage' = [s \in Projects |-> IF s = p THEN t.status ELSE store[s].status]
    BY <2>1, <2>2
  <2> QED
    BY <2>3 DEF Stage
<1>5. Settled' = [Settled EXCEPT ![p] = SettledOf(t)]
  BY <1>1, <1>2 DEF Settled, SettledOf, Known
<1>6. Permitted' = [Permitted EXCEPT ![p] =
        (IF p \in pregranted' THEN {EXT} ELSE {}) \union approved_actions(t)]
  BY <1>1, <1>2, <1>3 DEF Permitted, Known
<1>7. Sent' \ {p} = Sent \ {p} /\ (p \in Sent' <=> t.trend_source = "external")
  BY <1>1, <1>2 DEF Sent, Known
<1> QED
  BY <1>4, <1>5, <1>6, <1>7

\* The view of one project that is stored.
LEMMA ViewOf ==
  ASSUME NEW p \in Projects, Known(p)
  PROVE  /\ Stage[p] = store[p].status
         /\ Settled[p] = SettledOf(store[p])
         /\ Permitted[p] = (IF p \in pregranted THEN {EXT} ELSE {})
                             \union approved_actions(store[p])
         /\ p \in Sent <=> store[p].trend_source = "external"
BY DEF Stage, Settled, Permitted, Sent, SettledOf

Stutters == UNCHANGED <<Stage, Settled, Permitted, Sent>>

\* A call that saves nothing, or nothing the abstract lifecycle sees.
LEMMA UnsavedStutters ==
  ASSUME UNCHANGED vars
  PROVE  Stutters
BY DEF vars, Stutters, Stage, Settled, Permitted, Sent, Known

LEMMA UnseenStutters ==
  ASSUME IInv, NEW p \in Projects, Known(p), NEW t,
         KeepsSource(store[p], t), t.status = store[p].status,
         t.approvals \subseteq ActionTypes \X {"pending", "approved", "rejected"},
         store' = [store EXCEPT ![p] = t],
         pregranted' = pregranted
  PROVE  Stutters
<1>1. DOMAIN t = Fields
  BY DEF KeepsSource, Continues
<1>2. store[p].approvals \subseteq ActionTypes \X {"pending", "approved", "rejected"}
  BY DEF IInv, Stored, RecordInv, RecordTypeOK
<1>3. SettledOf(t) = SettledOf(store[p])
  BY <1>2, SettledPairs DEF KeepsSource, Continues
<1>4. /\ Stage' = [Stage EXCEPT ![p] = t.status]
      /\ Settled' = [Settled EXCEPT ![p] = SettledOf(t)]
      /\ Permitted' = [Permitted EXCEPT ![p] =
           (IF p \in pregranted' THEN {EXT} ELSE {}) \union approved_actions(t)]
      /\ Sent' \ {p} = Sent \ {p}
      /\ p \in Sent' <=> t.trend_source = "external"
  BY <1>1, ReplacedView
<1>5. /\ t.status = Stage[p] /\ SettledOf(t) = Settled[p]
      /\ (IF p \in pregranted' THEN {EXT} ELSE {}) \union approved_actions(t) = Permitted[p]
      /\ t.trend_source = "external" <=> p \in Sent
  BY <1>3, ViewOf DEF KeepsSource, Continues
<1>6. DOMAIN Stage = Projects /\ DOMAIN Settled = Projects /\ DOMAIN Permitted = Projects
  BY DEF Stage, Settled, Permitted
<1>7. /\ Stage = [s \in DOMAIN Stage |-> Stage[s]]
      /\ Settled = [s \in DOMAIN Settled |-> Settled[s]]
      /\ Permitted = [s \in DOMAIN Permitted |-> Permitted[s]]
  BY DEF Stage, Settled, Permitted
<1>8. Stage' = Stage /\ Settled' = Settled /\ Permitted' = Permitted
  BY <1>4, <1>5, <1>6, <1>7
<1>9. Sent' = Sent
  BY <1>4, <1>5
<1> QED
  BY <1>8, <1>9 DEF Stutters

\* The paths of STATE_TRANSITIONS that the calls take.
LEMMA Paths ==
  /\ {"waiting_approval", "completed", "revision_requested", "ready_for_planning"}
       \subseteq Lifecycle!Stages
  /\ \A t \in {"waiting_approval", "completed", "revision_requested"} :
       Lifecycle!Leads("ready_for_planning", t)
  /\ \A t \in {"waiting_approval", "completed", "ready_for_planning"} :
       Lifecycle!Leads("revision_requested", t)
  /\ Lifecycle!ActionTypes = ActionTypes
<1> USE DEF Lifecycle!can_transition, Lifecycle!STATE_TRANSITIONS, Lifecycle!ProjectStatuses,
            Lifecycle!TransientStatuses
<1>1. {"waiting_approval", "completed", "revision_requested", "ready_for_planning"}
        \subseteq Lifecycle!Stages
  BY DEF Lifecycle!Stages
<1>2. /\ Lifecycle!can_transition("ready_for_planning", "in_progress")
      /\ Lifecycle!can_transition("revision_requested", "in_progress")
      /\ Lifecycle!can_transition("revision_requested", "ready_for_planning")
      /\ Lifecycle!can_transition("in_progress", "waiting_approval")
      /\ Lifecycle!can_transition("in_progress", "completed")
      /\ Lifecycle!can_transition("in_progress", "review_failed")
      /\ Lifecycle!can_transition("review_failed", "revision_requested")
  OBVIOUS
<1>3. {"in_progress", "review_failed"} \subseteq Lifecycle!TransientStatuses
  OBVIOUS
<1>4. Lifecycle!ActionTypes = ActionTypes
  BY DEF Lifecycle!ActionTypes, ActionTypes
<1> QED
  BY <1>1, <1>2, <1>3, <1>4 DEF Lifecycle!Leads

\* A run opens the project.
LEMMA RunOpens ==
  ASSUME IInv, NEW p \in Projects, Run(p)
  PROVE  Stutters \/ (Lifecycle!Open(p) /\ Lifecycle!SendOnlyPermitted(p))
<1>1. PICK q \in RunRequests : PublishGranted(p, run(q), q.actions)
  BY DEF Run
<1> DEFINE t == run(q).rec
<1>2. q.provider \in Names /\ q.simulate_review_failure \in BOOLEAN
  BY ServiceAssumption DEF RunRequests, Names
<1>3. CASE ~run(q).saved
  BY <1>1, <1>3, UnsavedStutters DEF PublishGranted, Publish, vars
<1>4. CASE run(q).saved
  <2>1. /\ DOMAIN t = Fields
        /\ approved_actions(t) = {} /\ rejected_actions(t) = {}
        /\ t.status \in {"waiting_approval", "completed", "revision_requested"}
        /\ t.trend_source = "external" => EXT \in q.actions
    BY <1>4, <1>2, RunEffect
  <2>2. RecordInv(t)
    BY <1>4, <1>2, RunKeeps
  <2>3. /\ store' = [store EXCEPT ![p] = t]
        /\ pregranted' = IF EXT \in q.actions THEN pregranted \union {p} ELSE pregranted
    BY <1>1, <1>4 DEF PublishGranted, Publish
  <2> HIDE DEF t
  <2> DEFINE granted == IF p \in pregranted' THEN {EXT} ELSE {}
  <2>4. /\ Stage' = [Stage EXCEPT ![p] = t.status]
        /\ Settled' = [Settled EXCEPT ![p] = SettledOf(t)]
        /\ Permitted' = [Permitted EXCEPT ![p] = granted \union approved_actions(t)]
        /\ Sent' \ {p} = Sent \ {p}
        /\ p \in Sent' <=> t.trend_source = "external"
    BY <2>1, <2>3, ReplacedView
  <2>5. Stage[p] = "absent" /\ Settled[p] = {} /\ p \in DOMAIN Permitted
    BY DEF Run, Known, NoRecord, Stage, Settled, Permitted
  <2>6. SettledOf(t) = {}
    BY <2>1, <2>2, SettledPairs DEF RecordInv, RecordTypeOK
  <2>7. Settled' = Settled
    BY <2>4, <2>5, <2>6 DEF Settled
  <2>8. granted \in SUBSET ActionTypes /\ Permitted' = [Permitted EXCEPT ![p] = granted]
    BY <2>1, <2>4 DEF EXT, ActionTypes
  <2>9. p \in Sent' => "external_api_send" \in Permitted'[p]
    BY <2>1, <2>3, <2>4, <2>5, <2>8 DEF EXT
  <2> HIDE DEF granted
  <2>10. Lifecycle!Open(p)
    BY <2>1, <2>4, <2>5, <2>7, <2>8, Paths DEF Lifecycle!Open
  <2>11. Lifecycle!SendOnlyPermitted(p)
    BY <2>4, <2>9 DEF Lifecycle!SendOnlyPermitted
  <2> QED
    BY <2>10, <2>11
<1> QED
  BY <1>3, <1>4

\* An approval is seen as Approve when it decides something, as Finish when all that
\* was asked for had been approved before, and not at all when it is denied.
LEMMA ApprovalApproves ==
  ASSUME IInv, NEW p \in Projects, ResumeFromApproval(p)
  PROVE  \/ Stutters
         \/ Lifecycle!Approve(p) /\ Lifecycle!SendOnlyPermitted(p)
         \/ Lifecycle!Finish(p) /\ Lifecycle!SendOnlyPermitted(p)
<1>1. PICK q \in ApprovalRequests : Publish(p, resume_from_approval(store[p], q))
  BY DEF ResumeFromApproval
<1> DEFINE r       == store[p]
           out     == resume_from_approval(r, q)
           t       == out.rec
           actions == q.actions \ approved_actions(r)
<1>2. Known(p) /\ RecordInv(r) /\ pregranted' = pregranted
  BY DEF ResumeFromApproval, IInv, Stored
<1>3. q.provider \in Names
  BY ServiceAssumption DEF ApprovalRequests, Names
<1>4. CASE ~out.saved
  BY <1>1, <1>2, <1>4, UnsavedStutters DEF Publish, vars
<1>5. CASE out.saved
  <2>1. /\ ApprovalResumable(r, q)
        /\ actions \subseteq pending_actions(r)
        /\ \/ KeepsSource(r, t) /\ t.status = r.status
           \/ /\ Decides(r, t, actions, {})
              /\ \/ /\ actions # {}
                    /\ t.status = r.status /\ t.trend_source = r.trend_source
                 \/ /\ t.status = "completed"
                    /\ EXT \in approved_actions(t)
    BY <1>2, <1>3, <1>5, ApprovalEffect
  <2>2. RecordTypeOK(t)
    BY <1>2, <1>3, <1>5, ApprovalKeeps DEF RecordInv
  <2>3. store' = [store EXCEPT ![p] = t]
    BY <1>1, <1>5 DEF Publish
  <2> HIDE DEF t, out, actions
  <2>4. CASE KeepsSource(r, t) /\ t.status = r.status
    BY <1>2, <2>2, <2>3, <2>4, UnseenStutters DEF RecordTypeOK
  <2>5. ASSUME Decides(r, t, actions, {}),
               t.status \in {"waiting_approval", "completed"},
               t.status = "waiting_approval" => actions # {} /\ t.trend_source = r.trend_source,
               t.status = "completed" => EXT \in approved_actions(t)
        PROVE  \/ Lifecycle!Approve(p) /\ Lifecycle!SendOnlyPermitted(p)
               \/ Lifecycle!Finish(p) /\ Lifecycle!SendOnlyPermitted(p)
    <3> DEFINE granted == IF p \in pregranted THEN {EXT} ELSE {}
    <3>1. r.status = "waiting_approval" /\ actions \subseteq ActionTypes
      BY <2>1 DEF ApprovalResumable, pending_actions, Having
    <3>2. /\ Stage' = [Stage EXCEPT ![p] = t.status]
          /\ Settled' = [Settled EXCEPT ![p] = SettledOf(t)]
          /\ Permitted' = [Permitted EXCEPT ![p] = granted \union approved_actions(t)]
          /\ Sent' \ {p} = Sent \ {p}
          /\ p \in Sent' <=> t.trend_source = "external"
      BY <1>2, <2>3, <2>5, ReplacedView DEF Decides
    <3>3. /\ Stage[p] = "waiting_approval" /\ Settled[p] = SettledOf(r)
          /\ Permitted[p] = granted \union approved_actions(r)
          /\ p \in Sent <=> r.trend_source = "external"
      BY <1>2, <3>1, ViewOf
    <3>4. SettledOf(t) = SettledOf(r) \union (actions \X {"approved"})
      <4>1. /\ SettledOf(t) = (approved_actions(t) \X {"approved"})
                                \union (rejected_actions(t) \X {"rejected"})
            /\ SettledOf(r) = (approved_actions(r) \X {"approved"})
                                \union (rejected_actions(r) \X {"rejected"})
        BY <1>2, <2>2, SettledPairs DEF RecordInv, RecordTypeOK
      <4>2. /\ approved_actions(t) = approved_actions(r) \union actions
            /\ rejected_actions(t) = rejected_actions(r)
        BY <2>5 DEF Decides
      <4> QED
        BY <4>1, <4>2
    <3>5. granted \union approved_actions(t) = Permitted[p] \union actions
      BY <2>5, <3>3 DEF Decides
    <3>6. DOMAIN Settled = Projects /\ DOMAIN Permitted = Projects
      BY DEF Settled, Permitted
    <3> HIDE DEF granted
    <3>7. Lifecycle!SendOnlyPermitted(p)
      <4>1. p \in Sent' \ Sent => EXT \in approved_actions(t)
        BY <2>5, <3>2, <3>3
      <4>2. Permitted'[p] = granted \union approved_actions(t)
        BY <3>2, <3>6
      <4> QED
        BY <3>2, <4>1, <4>2 DEF Lifecycle!SendOnlyPermitted, EXT
    <3>8. CASE actions # {}
      <4>1. actions \in (SUBSET Lifecycle!ActionTypes) \ {{}}
        BY <3>1, <3>8, Paths
      <4>2. /\ Settled' = [Settled EXCEPT ![p] = Settled[p] \union (actions \X {"approved"})]
            /\ Permitted' = [Permitted EXCEPT ![p] = Permitted[p] \union actions]
        BY <3>2, <3>3, <3>4, <3>5
      <4>3. Lifecycle!Approve(p)
        BY <2>5, <3>2, <3>3, <4>1, <4>2 DEF Lifecycle!Approve
      <4> QED
        BY <3>7, <4>3
    <3>9. CASE actions = {}
      <4>1. Settled' = Settled /\ Permitted' = Permitted
        <5>1. SettledOf(t) = Settled[p] /\ granted \union approved_actions(t) = Permitted[p]
          BY <3>3, <3>4, <3>5, <3>9
        <5>2. /\ Settled = [s \in Projects |-> Settled[s]]
              /\ Permitted = [s \in Projects |-> Permitted[s]]
          BY DEF Settled, Permitted
        <5> QED
          BY <3>2, <5>1, <5>2
      <4>2. <<EXT, "approved">> \in Settled[p] /\ EXT \in ActionTypes
        <5>1. EXT \in approved_actions(r)
          BY <2>5, <3>9 DEF Decides
        <5> QED
          BY <3>3, <5>1 DEF approved_actions, Having, SettledOf
      <4>3. t.status = "completed"
        BY <2>5, <3>9
      <4>4. Lifecycle!Finish(p)
        BY <3>2, <3>3, <4>1, <4>2, <4>3, Paths DEF Lifecycle!Finish
      <4> QED
        BY <3>7, <4>4
    <3> QED
      BY <3>8, <3>9
  <2> QED
    BY <2>1, <2>4, <2>5 DEF ApprovalResumable
<1> QED
  BY <1>4, <1>5

\* A rejection is seen as Reject, or not at all when it is denied.
LEMMA RejectionRejects ==
  ASSUME IInv, NEW p \in Projects, RejectApproval(p)
  PROVE  Stutters \/ (Lifecycle!Reject(p) /\ Lifecycle!SendOnlyPermitted(p))
<1>1. PICK q \in RejectionRequests : Publish(p, reject_approval(store[p], q))
  BY DEF RejectApproval
<1> DEFINE r   == store[p]
           out == reject_approval(r, q)
           t   == out.rec
<1>2. Known(p) /\ RecordInv(r) /\ pregranted' = pregranted
  BY DEF RejectApproval, IInv, Stored
<1>3. CASE ~out.saved
  BY <1>1, <1>2, <1>3, UnsavedStutters DEF Publish, vars
<1>4. CASE out.saved
  <2>1. /\ Rejectable(r, q)
        /\ \/ KeepsSource(r, t) /\ t.status = r.status
           \/ /\ Decides(r, t, {}, pending_actions(r))
              /\ t.status = "revision_requested" /\ t.trend_source = r.trend_source
    BY <1>2, <1>4, RejectionEffect
  <2>2. RecordTypeOK(t)
    BY <1>2, <1>4, RejectionKeeps DEF RecordInv
  <2>3. store' = [store EXCEPT ![p] = t]
    BY <1>1, <1>4 DEF Publish
  <2> HIDE DEF t, out
  <2>4. CASE KeepsSource(r, t) /\ t.status = r.status
    BY <1>2, <2>2, <2>3, <2>4, UnseenStutters DEF RecordTypeOK
  <2>5. CASE /\ Decides(r, t, {}, pending_actions(r))
             /\ t.status = "revision_requested" /\ t.trend_source = r.trend_source
    <3> DEFINE granted == IF p \in pregranted THEN {EXT} ELSE {}
               pending == pending_actions(r)
    <3>1. /\ r.status = "waiting_approval"
          /\ pending \in (SUBSET Lifecycle!ActionTypes) \ {{}}
      BY <2>1, Paths DEF Rejectable, pending_actions, Having
    <3>2. /\ Stage' = [Stage EXCEPT ![p] = "revision_requested"]
          /\ Settled' = [Settled EXCEPT ![p] = SettledOf(t)]
          /\ Permitted' = [Permitted EXCEPT ![p] = granted \union approved_actions(t)]
          /\ Sent' \ {p} = Sent \ {p}
          /\ p \in Sent' <=> t.trend_source = "external"
      <4>1. DOMAIN t = Fields /\ t.status = "revision_requested"
        BY <2>5 DEF Decides
      <4>2. /\ Stage' = [Stage EXCEPT ![p] = t.status]
            /\ Settled' = [Settled EXCEPT ![p] = SettledOf(t)]
            /\ Permitted' = [Permitted EXCEPT ![p] =
                 (IF p \in pregranted' THEN {EXT} ELSE {}) \union approved_actions(t)]
            /\ Sent' \ {p} = Sent \ {p}
            /\ p \in Sent' <=> t.trend_source = "external"
        BY <1>2, <2>3, <4>1, ReplacedView
      <4> QED
        BY <1>2, <4>1, <4>2
    <3>3. /\ Stage[p] = "waiting_approval" /\ Settled[p] = SettledOf(r)
          /\ Permitted[p] = granted \union approved_actions(r)
          /\ p \in Sent <=> r.trend_source = "external"
      BY <1>2, <3>1, ViewOf
    <3>4. SettledOf(t) = SettledOf(r) \union (pending \X {"rejected"})
      <4>1. /\ SettledOf(t) = (approved_actions(t) \X {"approved"})
                                \union (rejected_actions(t) \X {"rejected"})
            /\ SettledOf(r) = (approved_actions(r) \X {"approved"})
                                \union (rejected_actions(r) \X {"rejected"})
        BY <1>2, <2>2, SettledPairs DEF RecordInv, RecordTypeOK
      <4>2. /\ approved_actions(t) = approved_actions(r)
            /\ rejected_actions(t) = rejected_actions(r) \union pending
        BY <2>5 DEF Decides
      <4> QED
        BY <4>1, <4>2
    <3>5. Permitted' = Permitted
      <4>1. granted \union approved_actions(t) = Permitted[p]
        BY <2>5, <3>3 DEF Decides
      <4>2. Permitted = [s \in Projects |-> Permitted[s]]
        BY DEF Permitted
      <4> QED
        BY <3>2, <4>1, <4>2
    <3>6. Settled' = [Settled EXCEPT ![p] = Settled[p] \union (pending \X {"rejected"})]
      BY <3>2, <3>3, <3>4
    <3> HIDE DEF pending, granted
    <3>7. Lifecycle!Reject(p)
      BY <3>1, <3>2, <3>3, <3>5, <3>6 DEF Lifecycle!Reject
    <3>8. Lifecycle!SendOnlyPermitted(p)
      BY <2>5, <3>2, <3>3 DEF Lifecycle!SendOnlyPermitted
    <3> QED
      BY <3>7, <3>8
  <2> QED
    BY <2>1, <2>4, <2>5
<1> QED
  BY <1>3, <1>4

\* What a revision and a replanning have in common: the decisions stay, the project
\* moves on along a path of the graph, and a new external send is one that was named.
LEMMA Reworks ==
  ASSUME IInv, NEW p \in Projects, Known(p), NEW t, NEW named,
         store' = [store EXCEPT ![p] = t],
         pregranted' = IF EXT \in named THEN pregranted \union {p} ELSE pregranted,
         Continues(store[p], t), RecordTypeOK(t),
         t.trend_source = "external" => store[p].trend_source = "external" \/ EXT \in named,
         store[p].status \in {"revision_requested", "ready_for_planning"},
         t.status \in {"waiting_approval", "completed", "ready_for_planning"},
         t.status # store[p].status
  PROVE  Lifecycle!Rework(p) /\ Lifecycle!SendOnlyPermitted(p)
<1> DEFINE r       == store[p]
           granted == IF p \in pregranted' THEN {EXT} ELSE {}
           more    == IF EXT \in named THEN {EXT} ELSE {}
<1>1. /\ Stage' = [Stage EXCEPT ![p] = t.status]
      /\ Settled' = [Settled EXCEPT ![p] = SettledOf(t)]
      /\ Permitted' = [Permitted EXCEPT ![p] = granted \union approved_actions(t)]
      /\ Sent' \ {p} = Sent \ {p}
      /\ p \in Sent' <=> t.trend_source = "external"
  <2>1. DOMAIN t = Fields
    BY DEF Continues
  <2>2. pregranted' \ {p} = pregranted \ {p}
    OBVIOUS
  <2> QED
    BY <2>1, <2>2, ReplacedView
<1>2. /\ Stage[p] = r.status /\ Settled[p] = SettledOf(r)
      /\ Permitted[p] = (IF p \in pregranted THEN {EXT} ELSE {}) \union approved_actions(r)
      /\ p \in Sent <=> r.trend_source = "external"
  BY ViewOf
<1>3. SettledOf(t) = SettledOf(r)
  <2>1. RecordTypeOK(r)
    BY DEF IInv, Stored, RecordInv
  <2>2. /\ SettledOf(t) = (approved_actions(t) \X {"approved"})
                            \union (rejected_actions(t) \X {"rejected"})
        /\ SettledOf(r) = (approved_actions(r) \X {"approved"})
                            \union (rejected_actions(r) \X {"rejected"})
    BY <2>1, SettledPairs DEF RecordTypeOK
  <2> QED
    BY <2>2 DEF Continues
<1>4. Settled' = Settled
  <2>1. Settled = [s \in Projects |-> Settled[s]]
    BY DEF Settled
  <2> QED
    BY <1>1, <1>2, <1>3, <2>1
<1>5. Permitted' = [Permitted EXCEPT ![p] = Permitted[p] \union more]
  <2>1. granted \union approved_actions(t) = Permitted[p] \union more
    BY <1>2 DEF Continues
  <2> QED
    BY <1>1, <2>1
<1>6. more \in SUBSET Lifecycle!ActionTypes
  BY Paths DEF EXT, ActionTypes
<1>7. Lifecycle!Leads(Stage[p], t.status)
      /\ t.status \in Lifecycle!Stages \ {Stage[p], "revision_requested"}
  BY <1>2, Paths
<1>8. p \in Sent' \ Sent => EXT \in Permitted'[p]
  <2>1. p \in DOMAIN Permitted
    BY DEF Permitted
  <2> QED
    BY <1>1, <1>2, <1>5, <2>1
<1> HIDE DEF more, granted
<1>9. Lifecycle!Rework(p)
  BY <1>1, <1>2, <1>4, <1>5, <1>6, <1>7 DEF Lifecycle!Rework
<1>10. Lifecycle!SendOnlyPermitted(p)
  BY <1>1, <1>8 DEF Lifecycle!SendOnlyPermitted, EXT
<1> QED
  BY <1>9, <1>10

LEMMA RevisionReworks ==
  ASSUME IInv, NEW p \in Projects, ResumeFromRevision(p)
  PROVE  Stutters \/ (Lifecycle!Rework(p) /\ Lifecycle!SendOnlyPermitted(p))
<1>1. PICK q \in RevisionRequests :
        PublishGranted(p, resume_from_revision(store[p], q),
                       IF q.mode = "replanning" THEN {} ELSE q.actions)
  BY DEF ResumeFromRevision
<1> DEFINE out   == resume_from_revision(store[p], q)
           named == IF q.mode = "replanning" THEN {} ELSE q.actions
<1>2. Known(p) /\ RecordInv(store[p])
  BY DEF ResumeFromRevision, IInv, Stored
<1>3. q.provider \in Names /\ q.mode \in RevisionResumeModes
  BY ServiceAssumption DEF RevisionRequests, Names
<1>4. CASE ~out.saved
  BY <1>1, <1>4, UnsavedStutters DEF PublishGranted, Publish, vars
<1>5. CASE out.saved
  <2>1. /\ store[p].status = "revision_requested"
        /\ Continues(store[p], out.rec)
        /\ out.rec.status \in {"waiting_approval", "completed", "ready_for_planning"}
        /\ out.rec.trend_source = "external" =>
             store[p].trend_source = "external" \/ EXT \in named
    BY <1>2, <1>3, <1>5, RevisionEffect
  <2>2. RecordTypeOK(out.rec)
    BY <1>2, <1>3, <1>5, RevisionKeeps DEF RecordInv
  <2>3. /\ store' = [store EXCEPT ![p] = out.rec]
        /\ pregranted' = IF EXT \in named THEN pregranted \union {p} ELSE pregranted
    BY <1>1, <1>5 DEF PublishGranted, Publish
  <2> HIDE DEF out, named
  <2> QED
    BY <1>2, <2>1, <2>2, <2>3, Reworks
<1> QED
  BY <1>4, <1>5

LEMMA ReplanningReworks ==
  ASSUME IInv, NEW p \in Projects, StartReplanning(p)
  PROVE  Stutters \/ (Lifecycle!Rework(p) /\ Lifecycle!SendOnlyPermitted(p))
<1>1. PICK q \in ReplanningRequests :
        PublishGranted(p, start_replanning(store[p], q), q.actions)
  BY DEF StartReplanning
<1> DEFINE out == start_replanning(store[p], q)
<1>2. Known(p) /\ RecordInv(store[p])
  BY DEF StartReplanning, IInv, Stored
<1>3. q.provider \in Names
  BY ServiceAssumption DEF ReplanningRequests, Names
<1>4. CASE ~out.saved
  BY <1>1, <1>4, UnsavedStutters DEF PublishGranted, Publish, vars
<1>5. CASE out.saved
  <2>1. /\ store[p].status = "ready_for_planning"
        /\ Continues(store[p], out.rec)
        /\ out.rec.status \in {"waiting_approval", "completed"}
        /\ out.rec.trend_source = "external" =>
             store[p].trend_source = "external" \/ EXT \in q.actions
    BY <1>2, <1>3, <1>5, ReplanningEffect
  <2>2. RecordTypeOK(out.rec)
    BY <1>2, <1>3, <1>5, ReplanningKeeps DEF RecordInv
  <2>3. /\ store' = [store EXCEPT ![p] = out.rec]
        /\ pregranted' = IF EXT \in q.actions THEN pregranted \union {p} ELSE pregranted
    BY <1>1, <1>5 DEF PublishGranted, Publish
  <2> HIDE DEF out
  <2> QED
    BY <1>2, <2>1, <2>2, <2>3, Reworks
<1> QED
  BY <1>4, <1>5

\* Authentication events and requests from outside are not seen.
LEMMA AuthenticationStutters ==
  ASSUME IInv, NEW p \in Projects, RecordAuthentication(p)
  PROVE  Stutters
<1>1. PICK out \in {record_authentication_success(store[p]),
                    record_authentication_failure(store[p])} : Publish(p, out)
  BY DEF RecordAuthentication
<1>2. Known(p) /\ RecordInv(store[p]) /\ pregranted' = pregranted
  BY DEF RecordAuthentication, IInv, Stored
<1>3. RecordTypeOK(out.rec)
  BY <1>2, AuthenticationKeeps DEF RecordInv
<1>4. KeepsSource(store[p], out.rec) /\ out.rec.status = store[p].status
  BY <1>2, AuthenticationEffect
<1>5. CASE out.saved
  BY <1>1, <1>2, <1>3, <1>4, <1>5, UnseenStutters DEF Publish, RecordTypeOK
<1>6. CASE ~out.saved
  BY <1>1, <1>2, <1>6, UnsavedStutters DEF Publish, vars
<1> QED
  BY <1>5, <1>6

LEMMA ManualRequestStutters ==
  ASSUME IInv, NEW p \in Projects, AddManualRequest(p)
  PROVE  Stutters
<1>1. PICK a \in ManualActions \ known_actions(store[p]) :
        store' = [store EXCEPT ![p].approvals = @ \union {<<a, "pending">>}]
  BY DEF AddManualRequest
<1> DEFINE t == [store[p] EXCEPT !.approvals = @ \union {<<a, "pending">>}]
<1>2. Known(p) /\ RecordInv(store[p]) /\ pregranted' = pregranted
  BY DEF AddManualRequest, IInv, Stored
<1>3. DOMAIN store[p] = Fields
  BY <1>2 DEF RecordInv, RecordTypeOK, Fields
<1>4. /\ DOMAIN t = Fields /\ t.events = store[p].events /\ t.history = store[p].history
      /\ t.trend_source = store[p].trend_source /\ t.status = store[p].status
      /\ t.approvals = store[p].approvals \union {<<a, "pending">>}
  BY <1>3 DEF Fields
<1>5. store' = [store EXCEPT ![p] = t]
  BY <1>1
<1> HIDE DEF t
<1>6. KeepsSource(store[p], t)
  BY <1>4, SameRequests DEF KeepsSource, Continues
<1>7. t.approvals \subseteq ActionTypes \X {"pending", "approved", "rejected"}
  BY <1>2, <1>4, ServiceAssumption DEF RecordInv, RecordTypeOK
<1> QED
  BY <1>2, <1>4, <1>5, <1>6, <1>7, UnseenStutters

\* Every call of the service is a step of the abstract lifecycle or none: projects
\* move along the paths of graph.py, are decided about only while they wait, keep
\* every decision, and send only what is permitted.
THEOREM ServiceImplementsLifecycle == Spec => LifecycleRefined
<1>1. Init => Lifecycle!Init
  BY DEF Init, Lifecycle!Init, Stage, Settled, Permitted, Sent, Known, NoRecord
<1>2. ASSUME IInv, [Next]_vars
      PROVE  [Lifecycle!Next]_(Lifecycle!vars)
  <2>1. SUFFICES Stutters \/ Lifecycle!Next
    BY DEF Stutters, Lifecycle!vars
  <2>2. CASE UNCHANGED vars
    BY <2>2, UnsavedStutters
  <2>3. ASSUME NEW p \in Projects,
               \/ Run(p) \/ ResumeFromApproval(p) \/ RejectApproval(p)
               \/ ResumeFromRevision(p) \/ StartReplanning(p)
               \/ RecordAuthentication(p) \/ AddManualRequest(p)
        PROVE  Stutters \/ Lifecycle!Next
    <3>1. \/ Stutters
          \/ /\ \/ Lifecycle!Open(p) \/ Lifecycle!Approve(p) \/ Lifecycle!Reject(p)
                \/ Lifecycle!Finish(p) \/ Lifecycle!Rework(p)
             /\ Lifecycle!SendOnlyPermitted(p)
      BY <1>2, <2>3, RunOpens, ApprovalApproves, RejectionRejects, RevisionReworks,
         ReplanningReworks, AuthenticationStutters, ManualRequestStutters
    <3> QED
      BY <3>1 DEF Lifecycle!Next
  <2> QED
    BY <1>2, <2>2, <2>3 DEF Next
<1> QED
  BY <1>1, <1>2, Invariance, PTL DEF Spec, LifecycleRefined, Lifecycle!Spec
===============================================================================
