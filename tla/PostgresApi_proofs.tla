--------------------------- MODULE PostgresApi_proofs ---------------------------
(***************************************************************************)
(* What overlapping reads can and cannot do to the records in Postgres,    *)
(* for every number of threads and projects.                               *)
(*                                                                         *)
(* A copy that other calls overlapped satisfies none of the invariants of  *)
(* RecordInvariants, and the handlers run on it all the same.  So the      *)
(* first part is about the handlers on any well-typed record: what they    *)
(* save is well-typed, keeps the trail, has an event for every decision    *)
(* that is new and sends only what is approved.                            *)
(***************************************************************************)
EXTENDS PostgresApi, OrchestratorService_proofs

\* ------------------------------------------------- handlers on any typed record

\* t goes on from r with the same decisions and the same trend artifact.
Follows(r, t) == Shape(t) /\ KeepsSource(r, t)

LEMMA FollowsTransitive ==
  ASSUME NEW r, NEW s, NEW t, Follows(r, s), Follows(s, t)
  PROVE  Follows(r, t)
BY KeepsSourceTransitive DEF Follows

\* The steps the handlers are made of; a change of status need not be legal.
LEMMA TypedTransition ==
  ASSUME NEW r, Shape(r), NEW next \in ProjectStatuses
  PROVE  Follows(r, Transition(r, next)) /\ Transition(r, next).status = next
<1> DEFINE t == Transition(r, next)
<1>1. KeepsSource(r, t) /\ t.status = next
  BY StepsKeepSource DEF Shape, Fields
<1>2. CASE r.status = next
  BY <1>1, <1>2 DEF Transition, Follows
<1>3. CASE r.status # next
  <2>1. t = [r EXCEPT !.status = next, !.history = @ \union {<<r.status, next>>}]
    BY <1>3 DEF Transition
  <2>2. /\ DOMAIN t = DOMAIN r /\ t.status = next
        /\ t.history = r.history \union {<<r.status, next>>}
        /\ t.policy = r.policy /\ t.tasks = r.tasks /\ t.approvals = r.approvals
        /\ t.gate = r.gate /\ t.delivered = r.delivered /\ t.artifacts = r.artifacts
        /\ t.trend_source = r.trend_source /\ t.reviews = r.reviews /\ t.events = r.events
    BY <2>1 DEF Shape
  <2> HIDE DEF t
  <2>3. Shape(t)
    BY <2>2 DEF Shape
  <2> QED
    BY <1>1, <2>3 DEF Follows, t
<1> QED
  BY <1>2, <1>3

LEMMA TypedReset ==
  ASSUME NEW r, Shape(r), NEW departments
  PROVE  Follows(r, ResetTasks(r, departments))
<1> DEFINE t == ResetTasks(r, departments)
<1>1. KeepsSource(r, t)
  BY StepsKeepSource DEF Shape, Fields
<1>2. /\ DOMAIN t = DOMAIN r
      /\ t.tasks = [d \in Departments |-> IF d \in departments THEN "pending" ELSE r.tasks[d]]
      /\ t.history = r.history /\ t.status = r.status /\ t.policy = r.policy
      /\ t.approvals = r.approvals
      /\ t.gate = r.gate /\ t.delivered = r.delivered /\ t.artifacts = r.artifacts
      /\ t.trend_source = r.trend_source /\ t.reviews = r.reviews /\ t.events = r.events
  BY DEF Shape, ResetTasks
<1> HIDE DEF t
<1>3. Shape(t)
  BY <1>2 DEF Shape, TaskStatuses
<1> QED
  BY <1>1, <1>3 DEF Follows, t

LEMMA TypedRelease ==
  ASSUME NEW r, Shape(r), NEW next \in TaskStatuses
  PROVE  Follows(r, ReleaseWaiting(r, next))
<1> DEFINE t == ReleaseWaiting(r, next)
<1>1. KeepsSource(r, t)
  BY StepsKeepSource DEF Shape, Fields
<1>2. /\ DOMAIN t = DOMAIN r
      /\ t.tasks = [d \in Departments |->
                      IF r.tasks[d] = "waiting_approval" THEN next ELSE r.tasks[d]]
      /\ t.history = r.history /\ t.status = r.status /\ t.policy = r.policy
      /\ t.approvals = r.approvals
      /\ t.gate = r.gate /\ t.delivered = r.delivered /\ t.artifacts = r.artifacts
      /\ t.trend_source = r.trend_source /\ t.reviews = r.reviews /\ t.events = r.events
  BY DEF Shape, ReleaseWaiting
<1> HIDE DEF t
<1>3. Shape(t)
  BY <1>2 DEF Shape
<1> QED
  BY <1>1, <1>3 DEF Follows, t

LEMMA TypedEvents ==
  ASSUME NEW r, Shape(r), NEW es, \A e \in es : e.type \in EventTypes
  PROVE  Follows(r, record_event(r, es)) /\ record_event(r, es).status = r.status
<1> DEFINE t == record_event(r, es)
<1>1. KeepsSource(r, t)
  BY StepsKeepSource DEF Shape, Fields
<1>2. /\ DOMAIN t = DOMAIN r /\ t.events = r.events \union es
      /\ t.history = r.history /\ t.status = r.status /\ t.policy = r.policy
      /\ t.approvals = r.approvals /\ t.tasks = r.tasks
      /\ t.gate = r.gate /\ t.delivered = r.delivered /\ t.artifacts = r.artifacts
      /\ t.trend_source = r.trend_source /\ t.reviews = r.reviews
  BY DEF Shape, record_event
<1> HIDE DEF t
<1>3. Shape(t)
  BY <1>2 DEF Shape
<1> QED
  BY <1>1, <1>2, <1>3 DEF Follows, t

\* The pause at the gate of the external send.
LEMMA TypedPause ==
  ASSUME NEW r, Shape(r)
  PROVE  Follows(r, PauseForApproval(r)) /\ PauseForApproval(r).status = "waiting_approval"
<1> DEFINE asked  == IF EXT \in pending_actions(r) THEN {} ELSE {Event("approval_requested", EXT)}
           tasks  == [d \in Departments |->
                        CASE d \in BeforeTrend -> "done"
                          [] d = "trend"       -> "waiting_approval"
                          [] d = "review"      -> r.tasks[d]]
           paused == [r EXCEPT
                        !.tasks = tasks,
                        !.artifacts = @ \union (Unfinished(r) \intersect BeforeTrend),
                        !.approvals = @ \union {<<EXT, "pending">>},
                        !.gate = "open",
                        !.events = @ \union asked]
<1>1. PauseForApproval(r) = Transition(paused, "waiting_approval")
  BY DEF PauseForApproval
<1>2. /\ DOMAIN paused = DOMAIN r
      /\ paused.tasks = tasks
      /\ paused.artifacts = r.artifacts \union (Unfinished(r) \intersect BeforeTrend)
      /\ paused.approvals = r.approvals \union {<<EXT, "pending">>}
      /\ paused.gate = "open"
      /\ paused.events = r.events \union asked
      /\ paused.status = r.status /\ paused.delivered = r.delivered
      /\ paused.trend_source = r.trend_source /\ paused.reviews = r.reviews
      /\ paused.history = r.history
  BY DEF Shape
<1>3. tasks \in [Departments -> TaskStatuses]
  BY DEF Shape, Departments, TaskStatuses, BeforeTrend
<1>4. \A e \in asked : e.type \in EventTypes
  BY DEF Event, EventTypes
<1> HIDE DEF paused, tasks, asked
<1>5. Shape(paused)
  <2>1. paused.artifacts \subseteq Departments \ {"review"}
    BY <1>2 DEF Shape, BeforeTrend, Departments
  <2>2. paused.approvals \subseteq ActionTypes \X {"pending", "approved", "rejected"}
    BY <1>2 DEF Shape, EXT, ActionTypes
  <2> QED
    BY <1>2, <1>3, <1>4, <2>1, <2>2 DEF Shape
<1>6. Shape(Transition(paused, "waiting_approval"))
  BY <1>5, TypedTransition DEF ProjectStatuses, Follows
<1> QED
  BY <1>1, <1>6, PauseKeepsSource DEF Follows, Shape, Fields

\* Every unfinished task is executed.
LEMMA TypedTasks ==
  ASSUME NEW r, Shape(r), NEW provider \in {"mock", "external"}, NEW fail \in BOOLEAN
  PROVE  LET done == RunAllTasks(r, provider, fail)
         IN /\ Shape(done) /\ Continues(r, done)
            /\ done.trend_source = IF "trend" \in Unfinished(r) THEN provider ELSE r.trend_source
<1> DEFINE done      == RunAllTasks(r, provider, fail)
           artifacts == r.artifacts \union (Unfinished(r) \ {"review"})
           v         == ReviewVerdict(artifacts, fail)
<1>1. artifacts \subseteq Departments \ {"review"}
  BY DEF Shape, Unfinished
<1>2. v \in {"approved", "changes_requested"}
  BY DEF ReviewVerdict
<1> HIDE DEF v
<1>3. Append(r.reviews, v) \in Seq({"approved", "changes_requested"})
  BY <1>2 DEF Shape
<1>4. /\ DOMAIN done = DOMAIN r
      /\ done.tasks = [d \in Departments |-> "done"]
      /\ done.artifacts = artifacts
      /\ done.trend_source = IF "trend" \in Unfinished(r) THEN provider ELSE r.trend_source
      /\ done.reviews = IF "review" \in Unfinished(r) THEN Append(r.reviews, v) ELSE r.reviews
      /\ done.status = r.status /\ done.history = r.history /\ done.gate = r.gate
      /\ done.approvals = r.approvals /\ done.events = r.events
      /\ done.delivered = r.delivered
  BY DEF RunAllTasks, Shape, v
<1> HIDE DEF done, artifacts
<1>5. Shape(done)
  BY <1>1, <1>3, <1>4 DEF Shape, TaskStatuses
<1>6. Continues(r, done)
  BY <1>4, SameRequests DEF Shape, Continues, Fields
<1> QED
  BY <1>4, <1>5, <1>6 DEF done

\* An execution on any typed record ends at a status at which a call returns, with the
\* trail and the decisions it found, and calls an external provider only if the send
\* is approved.
LEMMA TypedExecution ==
  ASSUME NEW r, Shape(r), NEW name \in Names, NEW approved, NEW fail \in BOOLEAN,
         execute_pending_tasks(r, name, approved, fail).saved
  PROVE  LET t == execute_pending_tasks(r, name, approved, fail).rec
         IN /\ RecordTypeOK(t) /\ Continues(r, t)
            /\ t.trend_source = "external" => r.trend_source = "external" \/ EXT \in approved
<1> DEFINE provider == get_trend_provider(name)
           out      == execute_pending_tasks(r, name, approved, fail)
<1>1. provider \in {"mock", "external"}
  BY DEF get_trend_provider, execute_pending_tasks, Unsaved, Names
<1>2. out.rec = IF SendGated(r, provider, approved) THEN PauseForApproval(r)
                ELSE FinishExecution(r, provider, fail)
  BY <1>1 DEF execute_pending_tasks, Saved
<1> HIDE DEF out, provider
<1>3. CASE SendGated(r, provider, approved)
  <2>1. Follows(r, out.rec) /\ out.rec.status = "waiting_approval"
    BY <1>2, <1>3, TypedPause
  <2>2. RecordTypeOK(out.rec)
    BY <2>1 DEF Follows, Shape, RecordTypeOK, StoredStatuses, ProjectStatuses, TransientStatuses
  <2> QED
    BY <2>1, <2>2 DEF Follows, KeepsSource, out
<1>4. CASE ~SendGated(r, provider, approved)
  <2> DEFINE done      == RunAllTasks(r, provider, fail)
             delivered == [done EXCEPT !.delivered = TRUE]
             failed    == Transition(done, "review_failed")
             revised   == Transition(failed, "revision_requested")
             noted     == {Event("revision_requested", "review")}
  <2>1. /\ Shape(done) /\ Continues(r, done)
        /\ done.trend_source = IF "trend" \in Unfinished(r) THEN provider ELSE r.trend_source
    BY <1>1, TypedTasks
  <2>2. done.trend_source = "external" => r.trend_source = "external" \/ EXT \in approved
    BY <1>1, <1>4, <2>1 DEF SendGated, requires_human_approval, EXT, ActionTypes
  <2>3. out.rec = record_event(revised, noted) \/ out.rec = Transition(delivered, "completed")
    BY <1>2, <1>4 DEF FinishExecution
  <2> HIDE DEF done
  <2>4. /\ Follows(done, record_event(revised, noted))
        /\ record_event(revised, noted).status = "revision_requested"
    <3>1. Follows(done, failed)
      BY <2>1, TypedTransition DEF ProjectStatuses
    <3> HIDE DEF failed
    <3>2. Follows(failed, revised) /\ revised.status = "revision_requested"
      BY <3>1, TypedTransition DEF ProjectStatuses, Follows
    <3> HIDE DEF revised
    <3>3. /\ Follows(revised, record_event(revised, noted))
          /\ record_event(revised, noted).status = revised.status
      BY <3>2, TypedEvents DEF Follows, Event, EventTypes
    <3> QED
      BY <3>1, <3>2, <3>3, FollowsTransitive
  <2>5. /\ Follows(done, Transition(delivered, "completed"))
        /\ Transition(delivered, "completed").status = "completed"
    <3>1. Follows(done, delivered)
      BY <2>1, SameRequests DEF Follows, KeepsSource, Continues, Fields, Shape
    <3> HIDE DEF delivered
    <3>2. /\ Follows(delivered, Transition(delivered, "completed"))
          /\ Transition(delivered, "completed").status = "completed"
      BY <3>1, TypedTransition DEF ProjectStatuses, Follows
    <3> QED
      BY <3>1, <3>2, FollowsTransitive
  <2>6. Follows(done, out.rec) /\ out.rec.status \in {"revision_requested", "completed"}
    BY <2>3, <2>4, <2>5
  <2>7. RecordTypeOK(out.rec)
    BY <2>6 DEF Follows, Shape, RecordTypeOK, StoredStatuses, ProjectStatuses, TransientStatuses
  <2>8. Continues(r, out.rec) /\ out.rec.trend_source = done.trend_source
    BY <2>1, <2>6, ContinuesTransitive DEF Follows, KeepsSource
  <2> QED
    BY <2>2, <2>7, <2>8 DEF out
<1> QED
  BY <1>3, <1>4

\* Every decision on a record has an audit event.
Covered(r) ==
  \A a \in approved_actions(r) \union rejected_actions(r) :
    \E e \in r.events : e.type \in Decided /\ e.subject = a

\* The decisions that t has and r has not are covered.
CoversMore(r, t) ==
  /\ r.events \subseteq t.events
  /\ \A a \in approved_actions(t) \union rejected_actions(t) :
       \/ a \in approved_actions(r) \union rejected_actions(r)
       \/ \E e \in t.events : e.type \in Decided /\ e.subject = a

\* t is r after the requests of `actions` were decided, with an event for each.
TypedDecided(r, t, actions, decision, type, actor, granted) ==
  /\ type \in Decided
  /\ actions \subseteq pending_actions(r)
  /\ \A e \in granted : e.type \in EventTypes
  /\ DOMAIN t = DOMAIN r
  /\ t.status = r.status /\ t.tasks = r.tasks /\ t.delivered = r.delivered
  /\ t.artifacts = r.artifacts /\ t.trend_source = r.trend_source
  /\ t.reviews = r.reviews /\ t.history = r.history
  /\ t.gate \in {"absent", "open", "approved"}
  /\ t.approvals = Decide(r.approvals, actions, decision)
  /\ t.events = (r.events \union granted)
                   \union {ActorEvent(type, a, actor) : a \in actions}

LEMMA TypedDecision ==
  ASSUME NEW r, Shape(r), NEW t, NEW actions, NEW decision \in {"approved", "rejected"},
         NEW type, NEW actor, NEW granted,
         TypedDecided(r, t, actions, decision, type, actor, granted)
  PROVE  /\ Shape(t) /\ CoversMore(r, t)
         /\ decision = "approved" => Decides(r, t, actions, {})
         /\ decision = "rejected" => Decides(r, t, {}, actions)
<1>1. r.approvals \subseteq ActionTypes \X {"pending", "approved", "rejected"}
  BY DEF Shape
<1>2. actions \intersect pending_actions(r) = actions
  BY DEF TypedDecided
<1>3. /\ t.approvals \subseteq ActionTypes \X {"pending", "approved", "rejected"}
      /\ decision = "approved" =>
           /\ approved_actions(t) = approved_actions(r) \union actions
           /\ rejected_actions(t) = rejected_actions(r)
      /\ decision = "rejected" =>
           /\ rejected_actions(t) = rejected_actions(r) \union actions
           /\ approved_actions(t) = approved_actions(r)
  <2>1. t.approvals = Decide(r.approvals, actions, decision)
    BY DEF TypedDecided
  <2>2. /\ t.approvals \subseteq ActionTypes \X {"pending", "approved", "rejected"}
        /\ decision = "approved" =>
             /\ approved_actions(t) = approved_actions(r) \union (actions \intersect pending_actions(r))
             /\ rejected_actions(t) = rejected_actions(r)
        /\ decision = "rejected" =>
             /\ rejected_actions(t) = rejected_actions(r) \union (actions \intersect pending_actions(r))
             /\ approved_actions(t) = approved_actions(r)
    <3>1. CASE decision = "approved"
      BY <1>1, <2>1, <3>1, DecideFields
    <3>2. CASE decision = "rejected"
      BY <1>1, <2>1, <3>2, DecideFields
    <3> QED
      BY <3>1, <3>2
  <2> QED
    BY <1>2, <2>2
<1>4. \A e \in t.events : e.type \in EventTypes
  BY DEF TypedDecided, Shape, ActorEvent, Decided, EventTypes
<1>5. Shape(t)
  BY <1>3, <1>4 DEF TypedDecided, Shape
<1>6. r.events \subseteq t.events
  BY DEF TypedDecided
<1>7. \A a \in actions : \E e \in t.events : e.type \in Decided /\ e.subject = a
  <2> TAKE a \in actions
  <2>1. ActorEvent(type, a, actor) \in t.events /\ type \in Decided
    BY DEF TypedDecided
  <2>2. ActorEvent(type, a, actor).type = type /\ ActorEvent(type, a, actor).subject = a
    BY DEF ActorEvent
  <2> QED
    BY <2>1, <2>2
<1>8. CoversMore(r, t)
  BY <1>3, <1>6, <1>7 DEF CoversMore
<1>9. /\ decision = "approved" => Decides(r, t, actions, {})
      /\ decision = "rejected" => Decides(r, t, {}, actions)
  BY <1>3, <1>6 DEF TypedDecided, Decides, Shape, Fields
<1> QED
  BY <1>5, <1>8, <1>9

LEMMA TypedApprovals ==
  ASSUME NEW r, Shape(r), NEW actions, NEW actor, NEW allow,
         actions \subseteq pending_actions(r)
  PROVE  LET t == ApproveRequests(authorize_actions(r, actions, actor, allow), actions, actor)
         IN /\ Shape(t) /\ CoversMore(r, t) /\ Decides(r, t, actions, {})
            /\ t.status = r.status /\ t.trend_source = r.trend_source
<1> DEFINE granted == AuthorizationEvents(r, actions, actor, allow)
           m       == authorize_actions(r, actions, actor, allow)
           t       == ApproveRequests(m, actions, actor)
           gate    == IF actions # {} /\ r.gate # "absent" THEN "approved" ELSE r.gate
<1>1. /\ DOMAIN m = DOMAIN r /\ m.events = r.events \union granted
      /\ m.status = r.status /\ m.tasks = r.tasks /\ m.approvals = r.approvals
      /\ m.gate = r.gate /\ m.delivered = r.delivered /\ m.artifacts = r.artifacts
      /\ m.trend_source = r.trend_source /\ m.reviews = r.reviews /\ m.history = r.history
  BY DEF authorize_actions, record_event, Shape
<1>2. pending_actions(m) = pending_actions(r)
  BY <1>1 DEF pending_actions, Having
<1>3. actions \intersect pending_actions(m) = actions
  BY <1>2
<1>4. \A e \in granted : e.type \in EventTypes
  BY DEF AuthorizationEvents, ActorEvent, EventTypes
<1> HIDE DEF m, granted
<1>5. /\ DOMAIN t = DOMAIN r
      /\ t.approvals = Decide(r.approvals, actions, "approved")
      /\ t.gate = gate
      /\ t.events = (r.events \union granted)
                      \union {ActorEvent("approval_approved", a, actor) : a \in actions}
      /\ t.status = r.status /\ t.tasks = r.tasks /\ t.delivered = r.delivered
      /\ t.artifacts = r.artifacts /\ t.trend_source = r.trend_source
      /\ t.reviews = r.reviews /\ t.history = r.history
  BY <1>1, <1>3 DEF ApproveRequests, Shape
<1>6. gate \in {"absent", "open", "approved"}
  BY DEF Shape
<1> HIDE DEF t, gate
<1>7. "approval_approved" \in Decided /\ "approved" \in {"approved", "rejected"}
  BY DEF Decided
<1>8. TypedDecided(r, t, actions, "approved", "approval_approved", actor, granted)
  BY <1>4, <1>5, <1>6, <1>7 DEF TypedDecided
<1>9. /\ Shape(t) /\ CoversMore(r, t)
      /\ Decides(r, t, actions, {})
  BY <1>7, <1>8, TypedDecision
<1> QED
  BY <1>5, <1>9 DEF t, m

LEMMA TypedRejections ==
  ASSUME NEW r, Shape(r), NEW actor, NEW allow
  PROVE  LET t == RejectRequests(authorize_actions(r, pending_actions(r), actor, allow), actor)
         IN /\ Shape(t) /\ CoversMore(r, t) /\ Decides(r, t, {}, pending_actions(r))
            /\ t.status = r.status /\ t.trend_source = r.trend_source
<1> DEFINE actions == pending_actions(r)
           granted == AuthorizationEvents(r, actions, actor, allow)
           m       == authorize_actions(r, actions, actor, allow)
           t       == RejectRequests(m, actor)
           gate    == IF r.gate # "absent" THEN "open" ELSE r.gate
<1>1. /\ DOMAIN m = DOMAIN r /\ m.events = r.events \union granted
      /\ m.status = r.status /\ m.tasks = r.tasks /\ m.approvals = r.approvals
      /\ m.gate = r.gate /\ m.delivered = r.delivered /\ m.artifacts = r.artifacts
      /\ m.trend_source = r.trend_source /\ m.reviews = r.reviews /\ m.history = r.history
  BY DEF authorize_actions, record_event, Shape
<1>2. pending_actions(m) = actions
  BY <1>1 DEF pending_actions, Having
<1>3. \A e \in granted : e.type \in EventTypes
  BY DEF AuthorizationEvents, ActorEvent, EventTypes
<1> HIDE DEF m, granted
<1>4. /\ DOMAIN t = DOMAIN r
      /\ t.approvals = Decide(r.approvals, actions, "rejected")
      /\ t.gate = gate
      /\ t.events = (r.events \union granted)
                      \union {ActorEvent("approval_rejected", a, actor) : a \in actions}
      /\ t.status = r.status /\ t.tasks = r.tasks /\ t.delivered = r.delivered
      /\ t.artifacts = r.artifacts /\ t.trend_source = r.trend_source
      /\ t.reviews = r.reviews /\ t.history = r.history
  BY <1>1, <1>2 DEF RejectRequests, Shape
<1>5. gate \in {"absent", "open", "approved"}
  BY DEF Shape
<1>6. actions \subseteq pending_actions(r)
  OBVIOUS
<1> HIDE DEF t, gate, actions
<1>7. "approval_rejected" \in Decided /\ "rejected" \in {"approved", "rejected"}
  BY DEF Decided
<1>8. TypedDecided(r, t, actions, "rejected", "approval_rejected", actor, granted)
  BY <1>3, <1>4, <1>5, <1>6, <1>7 DEF TypedDecided
<1>9. /\ Shape(t) /\ CoversMore(r, t)
      /\ Decides(r, t, {}, actions)
  BY <1>7, <1>8, TypedDecision
<1> QED
  BY <1>4, <1>9 DEF t, m, actions

\* What a call makes of any typed record, having named the send as approved or not.
Handled(r, t, granted) ==
  /\ RecordTypeOK(t) /\ CoversMore(r, t)
  /\ t.trend_source = "external" =>
       r.trend_source = "external" \/ EXT \in approved_actions(t) \/ granted

LEMMA FollowsCovers ==
  ASSUME NEW r, NEW s, NEW t, CoversMore(r, s), Continues(s, t)
  PROVE  CoversMore(r, t)
BY DEF CoversMore, Continues

LEMMA CoversItself ==
  ASSUME NEW r
  PROVE  CoversMore(r, r)
BY DEF CoversMore

LEMMA ApprovalHandled ==
  ASSUME NEW r, RecordTypeOK(r), NEW q, q.provider \in Names, resume_from_approval(r, q).saved
  PROVE  Handled(r, resume_from_approval(r, q).rec, FALSE)
<1> DEFINE actions    == q.actions \ approved_actions(r)
           missing    == pending_actions(r) \ q.actions
           authorized == authorize_actions(r, actions, q.actor, q.allow)
           a          == ApproveRequests(authorized, actions, q.actor)
           released   == ReleaseWaiting(a, "pending")
           m          == record_event(released, {Event("resume_triggered", "approval_resume")})
           resumed    == Transition(m, "in_progress")
           partial    == {Event("resume_triggered", "approval_resume_partial")}
           approved   == approved_actions(r) \union actions
           out        == resume_from_approval(r, q)
<1>1. ApprovalResumable(r, q) /\ ~idempotent_resume_from_approval(r, q)
  BY DEF resume_from_approval, Unsaved
<1>2. r.status = "waiting_approval" /\ actions \subseteq pending_actions(r)
  BY <1>1 DEF ApprovalResumable, ValidActions, known_actions
<1>3. Shape(r)
  BY StoredHasShape
<1>4. \/ out.rec = authorized
      \/ out.rec = record_event(a, partial)
      \/ out = execute_pending_tasks(resumed, q.provider, approved, FALSE)
  BY <1>1 DEF resume_from_approval, Saved, Unsaved
<1>5. Shape(a) /\ CoversMore(r, a) /\ Decides(r, a, actions, {})
      /\ a.status = r.status /\ a.trend_source = r.trend_source
  BY <1>2, <1>3, TypedApprovals
<1>6. CASE out.rec = authorized
  <2>1. \A e \in AuthorizationEvents(r, actions, q.actor, q.allow) : e.type \in EventTypes
    BY DEF AuthorizationEvents, ActorEvent, EventTypes
  <2>2. Follows(r, authorized) /\ authorized.status = r.status
    BY <1>3, <2>1, TypedEvents DEF authorize_actions
  <2> HIDE DEF authorized, out
  <2>3. RecordTypeOK(authorized)
    BY <2>2 DEF Follows, Shape, RecordTypeOK
  <2>4. CoversMore(r, authorized)
    BY <2>2, CoversItself, FollowsCovers DEF Follows, KeepsSource
  <2> QED
    BY <1>6, <2>2, <2>3, <2>4 DEF Handled, Follows, KeepsSource, out
<1>7. CASE out.rec = record_event(a, partial)
  <2>1. \A e \in partial : e.type \in EventTypes
    BY DEF Event, EventTypes
  <2> HIDE DEF a, partial, out
  <2> DEFINE t == record_event(a, partial)
  <2>2. Follows(a, t) /\ t.status = a.status
    BY <1>5, <2>1, TypedEvents
  <2> HIDE DEF t
  <2>3. RecordTypeOK(t)
    BY <1>2, <1>5, <2>2 DEF Follows, Shape, RecordTypeOK, StoredStatuses, ProjectStatuses,
                           TransientStatuses
  <2>4. CoversMore(r, t)
    BY <1>5, <2>2, FollowsCovers DEF Follows, KeepsSource
  <2>5. out.rec = t
    BY <1>7 DEF t
  <2> QED
    BY <1>5, <2>2, <2>3, <2>4, <2>5 DEF Handled, Follows, KeepsSource, out
<1>8. CASE out = execute_pending_tasks(resumed, q.provider, approved, FALSE)
  <2>1. \A e \in {Event("resume_triggered", "approval_resume")} : e.type \in EventTypes
    BY DEF Event, EventTypes
  <2>2. approved_actions(a) = approved
    BY <1>5 DEF Decides
  <2>3. out.saved
    OBVIOUS
  <2> HIDE DEF a, out, approved
  <2>4. Follows(a, released)
    BY <1>5, TypedRelease DEF TaskStatuses
  <2> HIDE DEF released
  <2>5. Follows(released, m)
    BY <2>1, <2>4, TypedEvents DEF Follows
  <2> HIDE DEF m
  <2>6. Follows(m, resumed)
    BY <2>5, TypedTransition DEF Follows, ProjectStatuses
  <2>7. Follows(a, resumed)
    BY <2>4, <2>5, <2>6, FollowsTransitive
  <2> HIDE DEF resumed
  <2>8. /\ RecordTypeOK(out.rec) /\ Continues(resumed, out.rec)
        /\ out.rec.trend_source = "external" =>
             resumed.trend_source = "external" \/ EXT \in approved
    BY <1>8, <2>3, <2>7, TypedExecution DEF Follows
  <2>9. Continues(a, out.rec)
    BY <2>7, <2>8, ContinuesTransitive DEF Follows, KeepsSource
  <2>10. CoversMore(r, out.rec)
    BY <1>5, <2>9, FollowsCovers
  <2>11. approved_actions(out.rec) = approved
    BY <2>2, <2>9 DEF Continues
  <2> QED
    BY <1>5, <2>7, <2>8, <2>10, <2>11 DEF Handled, Follows, KeepsSource, out
<1> QED
  BY <1>4, <1>6, <1>7, <1>8

LEMMA RejectionHandled ==
  ASSUME NEW r, RecordTypeOK(r), NEW q, reject_approval(r, q).saved
  PROVE  Handled(r, reject_approval(r, q).rec, FALSE)
<1> DEFINE authorized == authorize_actions(r, pending_actions(r), q.actor, q.allow)
           a          == RejectRequests(authorized, q.actor)
           m          == ReleaseWaiting(a, "revision_requested")
           t          == Transition(m, "revision_requested")
           out        == reject_approval(r, q)
<1>1. q.reason_given /\ ~idempotent_reject(r, q) /\ Rejectable(r, q)
  BY DEF reject_approval, Unsaved
<1>2. out.rec = authorized \/ out.rec = t
  BY <1>1 DEF reject_approval, Saved
<1>3. Shape(r)
  BY StoredHasShape
<1> HIDE DEF out
<1>4. CASE out.rec = authorized
  <2>1. \A e \in AuthorizationEvents(r, pending_actions(r), q.actor, q.allow) : e.type \in EventTypes
    BY DEF AuthorizationEvents, ActorEvent, EventTypes
  <2>2. Follows(r, authorized) /\ authorized.status = r.status
    BY <1>3, <2>1, TypedEvents DEF authorize_actions
  <2> HIDE DEF authorized
  <2>3. RecordTypeOK(authorized)
    BY <2>2 DEF Follows, Shape, RecordTypeOK
  <2>4. CoversMore(r, authorized)
    BY <2>2, CoversItself, FollowsCovers DEF Follows, KeepsSource
  <2> QED
    BY <1>4, <2>2, <2>3, <2>4 DEF Handled, Follows, KeepsSource, out
<1>5. CASE out.rec = t
  <2>1. /\ Shape(a) /\ CoversMore(r, a)
        /\ a.trend_source = r.trend_source
    BY <1>3, TypedRejections
  <2> HIDE DEF a
  <2>2. Follows(a, m)
    BY <2>1, TypedRelease DEF TaskStatuses
  <2> HIDE DEF m
  <2>3. Follows(m, t) /\ t.status = "revision_requested"
    BY <2>2, TypedTransition DEF Follows, ProjectStatuses
  <2> HIDE DEF t
  <2>4. Follows(a, t)
    BY <2>2, <2>3, FollowsTransitive
  <2>5. RecordTypeOK(t)
    BY <2>3 DEF Follows, Shape, RecordTypeOK, StoredStatuses, ProjectStatuses, TransientStatuses
  <2>6. CoversMore(r, t)
    BY <2>1, <2>4, FollowsCovers DEF Follows, KeepsSource
  <2> QED
    BY <1>5, <2>1, <2>4, <2>5, <2>6 DEF Handled, Follows, KeepsSource, out
<1> QED
  BY <1>2, <1>4, <1>5

\* An execution after steps that keep the decisions.
LEMMA ExecutionHandled ==
  ASSUME NEW r, NEW s, Follows(r, s), NEW name \in Names, NEW approved,
         NEW out, out = execute_pending_tasks(s, name, approved, FALSE), out.saved
  PROVE  Handled(r, out.rec, EXT \in approved)
<1>1. /\ RecordTypeOK(out.rec) /\ Continues(s, out.rec)
      /\ out.rec.trend_source = "external" => s.trend_source = "external" \/ EXT \in approved
  BY TypedExecution DEF Follows
<1>2. CoversMore(r, out.rec)
  BY <1>1, CoversItself, FollowsCovers DEF Follows, KeepsSource
<1> QED
  BY <1>1, <1>2 DEF Handled, Follows, KeepsSource

LEMMA RevisionHandled ==
  ASSUME NEW r, RecordTypeOK(r), NEW q, q.provider \in Names, resume_from_revision(r, q).saved
  PROVE  Handled(r, resume_from_revision(r, q).rec, q.mode # "replanning" /\ EXT \in q.actions)
<1> DEFINE noted   == record_event(r, {Event("resume_triggered", q.mode)})
           m       == ResetTasks(noted, RevisionDepartments(q.mode))
           started == Transition(m, "in_progress")
           planned == Transition(m, "ready_for_planning")
           out     == resume_from_revision(r, q)
<1>1. r.status = "revision_requested"
  BY DEF resume_from_revision, Unsaved
<1>2. /\ q.mode = "replanning" => out = Saved(planned, "ok")
      /\ q.mode # "replanning" =>
           out = execute_pending_tasks(started, q.provider, q.actions, FALSE)
  BY <1>1 DEF resume_from_revision, Unsaved
<1>3. out.saved
  OBVIOUS
<1>4. Follows(r, noted)
  BY StoredHasShape, TypedEvents DEF Event, EventTypes
<1> HIDE DEF noted, out
<1>5. Follows(noted, m)
  BY <1>4, TypedReset DEF Follows
<1> HIDE DEF m
<1>6. Follows(m, started) /\ Follows(m, planned) /\ planned.status = "ready_for_planning"
  BY <1>5, TypedTransition DEF Follows, ProjectStatuses
<1> HIDE DEF started, planned
<1>7. Follows(r, started) /\ Follows(r, planned)
  BY <1>4, <1>5, <1>6, FollowsTransitive
<1>8. CASE q.mode = "replanning"
  <2>1. out.rec = planned
    BY <1>2, <1>8 DEF Saved
  <2>2. RecordTypeOK(planned)
    BY <1>6 DEF Follows, Shape, RecordTypeOK, StoredStatuses, ProjectStatuses, TransientStatuses
  <2>3. CoversMore(r, planned)
    BY <1>7, CoversItself, FollowsCovers DEF Follows, KeepsSource
  <2> QED
    BY <1>7, <2>1, <2>2, <2>3 DEF Handled, Follows, KeepsSource, out
<1>9. CASE q.mode # "replanning"
  <2>1. Handled(r, out.rec, EXT \in q.actions)
    BY <1>2, <1>3, <1>7, <1>9, ExecutionHandled
  <2> QED
    BY <1>9, <2>1 DEF Handled, out
<1> QED
  BY <1>8, <1>9

LEMMA ReplanningHandled ==
  ASSUME NEW r, RecordTypeOK(r), NEW q, q.provider \in Names, start_replanning(r, q).saved
  PROVE  Handled(r, start_replanning(r, q).rec, EXT \in q.actions)
<1> DEFINE reset   == IF q.reset_downstream_tasks
                      THEN ResetTasks(r, {"design", "build", "trend", "review"}) ELSE r
           es      == {Event("replanning_started", "")}
           m       == record_event(reset, es)
           started == Transition(m, "in_progress")
           out     == start_replanning(r, q)
<1>1. out = execute_pending_tasks(started, q.provider, q.actions, FALSE) /\ out.saved
  BY DEF start_replanning, Unsaved
<1>2. Shape(r)
  BY StoredHasShape
<1>3. Follows(r, reset)
  <2>1. Follows(r, r)
    BY <1>2 DEF Follows, KeepsSource, Continues, Shape, Fields
  <2> QED
    BY <1>2, <2>1, TypedReset
<1>4. \A e \in es : e.type \in EventTypes
  <2>1. Event("replanning_started", "").type = "replanning_started"
    BY DEF Event
  <2> QED
    BY <2>1 DEF EventTypes
<1> HIDE DEF reset, out, es
<1>5. Follows(reset, m)
  BY <1>3, <1>4, TypedEvents DEF Follows
<1> HIDE DEF m
<1>6. Follows(m, started)
  BY <1>5, TypedTransition DEF Follows, ProjectStatuses
<1> HIDE DEF started
<1>7. Follows(r, started)
  BY <1>3, <1>5, <1>6, FollowsTransitive
<1> QED
  BY <1>1, <1>7, ExecutionHandled DEF out

LEMMA AuthenticationHandled ==
  ASSUME NEW r, RecordTypeOK(r),
         NEW out \in {record_authentication_success(r), record_authentication_failure(r)}
  PROVE  Handled(r, out.rec, FALSE)
<1>1. PICK es : out.rec = record_event(r, es) /\ \A e \in es : e.type \in EventTypes
  <2> DEFINE succeeded == {Event("authentication_succeeded", ""), Event("actor_resolved", "")}
             failed    == {Event("authentication_failed", "")}
  <2>1. /\ \A e \in succeeded : e.type \in EventTypes
        /\ \A e \in failed : e.type \in EventTypes
    <3>1. /\ Event("authentication_succeeded", "").type = "authentication_succeeded"
          /\ Event("actor_resolved", "").type = "actor_resolved"
          /\ Event("authentication_failed", "").type = "authentication_failed"
      BY DEF Event
    <3> QED
      BY <3>1 DEF EventTypes
  <2>2. /\ record_authentication_success(r).rec = record_event(r, succeeded)
        /\ record_authentication_failure(r).rec = record_event(r, failed)
    BY DEF record_authentication_success, record_authentication_failure, Saved
  <2> HIDE DEF succeeded, failed
  <2> QED
    BY <2>1, <2>2
<1>2. Follows(r, out.rec) /\ out.rec.status = r.status
  BY <1>1, StoredHasShape, TypedEvents
<1>3. RecordTypeOK(out.rec)
  BY <1>2 DEF Follows, Shape, RecordTypeOK
<1>4. CoversMore(r, out.rec)
  BY <1>2, CoversItself, FollowsCovers DEF Follows, KeepsSource
<1> QED
  BY <1>2, <1>3, <1>4 DEF Handled, Follows, KeepsSource

LEMMA OutcomesHandled ==
  ASSUME NEW r, RecordTypeOK(r), NEW o \in Outcomes(r), o.out.saved
  PROVE  Handled(r, o.out.rec, o.granted)
<1>1. \A name \in ProviderNames : name \in Names
  BY ServiceAssumption DEF Names
<1>2. CASE \E q \in ApprovalRequests :
             o = [out |-> resume_from_approval(r, q), granted |-> FALSE]
  <2>1. PICK q \in ApprovalRequests :
                o = [out |-> resume_from_approval(r, q), granted |-> FALSE]
    BY <1>2
  <2>2. q.provider \in Names
    BY <1>1 DEF ApprovalRequests
  <2>3. o.out = resume_from_approval(r, q) /\ o.granted = FALSE
    BY <2>1
  <2> QED
    BY <2>2, <2>3, ApprovalHandled
<1>3. CASE \E q \in RejectionRequests : o = [out |-> reject_approval(r, q), granted |-> FALSE]
  <2>1. PICK q \in RejectionRequests : o = [out |-> reject_approval(r, q), granted |-> FALSE]
    BY <1>3
  <2>2. o.out = reject_approval(r, q) /\ o.granted = FALSE
    BY <2>1
  <2> QED
    BY <2>2, RejectionHandled
<1>4. CASE \E q \in RevisionRequests :
             o = [out |-> resume_from_revision(r, q),
                  granted |-> q.mode # "replanning" /\ EXT \in q.actions]
  BY <1>1, <1>4, RevisionHandled DEF RevisionRequests
<1>5. CASE \E q \in ReplanningRequests :
             o = [out |-> start_replanning(r, q), granted |-> EXT \in q.actions]
  BY <1>1, <1>5, ReplanningHandled DEF ReplanningRequests
<1> QED
  BY <1>2, <1>3, <1>4, <1>5 DEF Outcomes

\* From a record that satisfies RecordInv the calls save one that does.
LEMMA OutcomesKeep ==
  ASSUME NEW r, RecordInv(r), NEW o \in Outcomes(r), o.out.saved
  PROVE  RecordInv(o.out.rec)
<1>1. \A name \in ProviderNames : name \in Names
  BY ServiceAssumption DEF Names
<1>2. CASE \E q \in ApprovalRequests :
             o = [out |-> resume_from_approval(r, q), granted |-> FALSE]
  BY <1>1, <1>2, ApprovalKeeps DEF ApprovalRequests
<1>3. CASE \E q \in RejectionRequests : o = [out |-> reject_approval(r, q), granted |-> FALSE]
  BY <1>3, RejectionKeeps
<1>4. CASE \E q \in RevisionRequests :
             o = [out |-> resume_from_revision(r, q),
                  granted |-> q.mode # "replanning" /\ EXT \in q.actions]
  BY <1>1, <1>4, RevisionKeeps DEF RevisionRequests
<1>5. CASE \E q \in ReplanningRequests :
             o = [out |-> start_replanning(r, q), granted |-> EXT \in q.actions]
  BY <1>1, <1>5, ReplanningKeeps DEF ReplanningRequests
<1> QED
  BY <1>2, <1>3, <1>4, <1>5 DEF Outcomes

\* A call of the thread w or of another caller that works on the record r.
CallOn(r, out, granted) ==
  \/ out \in {record_authentication_success(r), record_authentication_failure(r)} /\ ~granted
  \/ [out |-> out, granted |-> granted] \in Outcomes(r)

LEMMA CallHandled ==
  ASSUME NEW r, RecordTypeOK(r), NEW out, NEW granted, CallOn(r, out, granted), out.saved
  PROVE  Handled(r, out.rec, granted) /\ (RecordInv(r) => RecordInv(out.rec))
<1>1. CASE out \in {record_authentication_success(r), record_authentication_failure(r)} /\ ~granted
  <2>1. Handled(r, out.rec, FALSE)
    BY <1>1, AuthenticationHandled
  <2>2. RecordInv(r) => RecordInv(out.rec)
    BY <1>1, AuthenticationKeeps
  <2> QED
    BY <1>1, <2>1, <2>2 DEF Handled
<1>2. CASE [out |-> out, granted |-> granted] \in Outcomes(r)
  <2> DEFINE o == [out |-> out, granted |-> granted]
  <2>1. o.out = out /\ o.granted = granted /\ o \in Outcomes(r)
    BY <1>2
  <2> HIDE DEF o
  <2> QED
    BY <2>1, OutcomesHandled, OutcomesKeep
<1> QED
  BY <1>1, <1>2 DEF CallOn

\* --------------------------------------------------------------------- copies

\* RecordInv is about the fields only.
LEMMA SameFields ==
  ASSUME NEW r, NEW t, RecordInv(r), DOMAIN t = DOMAIN r, \A f \in Fields : t[f] = r[f]
  PROVE  RecordInv(t)
<1>1. /\ RecordTypeOK(r) /\ TasksMatchStatus(r) /\ CompletedIsDelivered(r)
      /\ WaitingHasRequest(r) /\ TransitionsLegal(r) /\ DecisionsAudited(r)
  BY DEF RecordInv
<1>2. /\ t.status = r.status /\ t.tasks = r.tasks /\ t.approvals = r.approvals
      /\ t.gate = r.gate /\ t.delivered = r.delivered /\ t.artifacts = r.artifacts
      /\ t.trend_source = r.trend_source /\ t.reviews = r.reviews
      /\ t.history = r.history /\ t.events = r.events
  BY DEF Fields
<1>3. /\ approved_actions(t) = approved_actions(r)
      /\ rejected_actions(t) = rejected_actions(r)
      /\ pending_actions(t) = pending_actions(r)
  BY <1>2 DEF approved_actions, rejected_actions, pending_actions, Having
<1>4. RecordTypeOK(t)
  BY <1>1, <1>2 DEF RecordTypeOK
<1>5. TasksMatchStatus(t)
  BY <1>1, <1>2, <1>3 DEF TasksMatchStatus, TasksAre
<1>6. CompletedIsDelivered(t)
  BY <1>1, <1>2 DEF CompletedIsDelivered
<1>7. WaitingHasRequest(t)
  BY <1>1, <1>2, <1>3 DEF WaitingHasRequest
<1>8. TransitionsLegal(t)
  BY <1>1, <1>2 DEF TransitionsLegal
<1>9. DecisionsAudited(t)
  BY <1>1, <1>2, <1>3 DEF DecisionsAudited
<1> QED
  BY <1>4, <1>5, <1>6, <1>7, <1>8, <1>9 DEF RecordInv

\* A record of which every field comes from a well-typed one is well-typed.
LEMMA FieldsType ==
  ASSUME NEW t, DOMAIN t = Fields,
         \A f \in Fields : \E r : RecordTypeOK(r) /\ t[f] = r[f]
  PROVE  RecordTypeOK(t)
<1>1. t.status \in StoredStatuses
  BY DEF Fields, RecordTypeOK
<1>2. t.tasks \in [Departments -> TaskStatuses]
  BY DEF Fields, RecordTypeOK
<1>3. t.approvals \subseteq ActionTypes \X {"pending", "approved", "rejected"}
  <2>1. PICK r : RecordTypeOK(r) /\ t["approvals"] = r["approvals"]
    BY DEF Fields
  <2> QED
    BY <2>1 DEF RecordTypeOK
<1>4. t.gate \in {"absent", "open", "approved"} /\ t.delivered \in BOOLEAN
  BY DEF Fields, RecordTypeOK
<1>5. t.artifacts \subseteq Departments \ {"review"}
  <2>1. PICK r : RecordTypeOK(r) /\ t["artifacts"] = r["artifacts"]
    BY DEF Fields
  <2> QED
    BY <2>1 DEF RecordTypeOK
<1>6. t.trend_source \in {"none", "mock", "external"}
  BY DEF Fields, RecordTypeOK
<1>7. t.reviews \in Seq({"approved", "changes_requested"})
  BY DEF Fields, RecordTypeOK
<1>8. t.history \subseteq ProjectStatuses \X ProjectStatuses
  <2>1. PICK r : RecordTypeOK(r) /\ t["history"] = r["history"]
    BY DEF Fields
  <2> QED
    BY <2>1 DEF RecordTypeOK
<1>9. \A e \in t.events : e.type \in EventTypes
  <2>1. PICK r : RecordTypeOK(r) /\ t["events"] = r["events"]
    BY DEF Fields
  <2> QED
    BY <2>1 DEF RecordTypeOK
<1> QED
  BY <1>1, <1>2, <1>3, <1>4, <1>5, <1>6, <1>7, <1>8, <1>9 DEF RecordTypeOK, Fields

\* The fields of a record that k SELECTs have read.
ReadBy(k) == {f \in Fields : \E i \in 1..k : f \in Selects[i]}

LEMMA SelectsRead ==
  /\ Len(Selects) = 7
  /\ \A k \in 0..6 : ReadBy(k + 1) = ReadBy(k) \union Selects[k + 1]
  /\ ReadBy(0) = {} /\ ReadBy(7) = Fields
  /\ "approvals" \in ReadBy(6) /\ "approvals" \in Selects[6] /\ "approvals" \notin Selects[7]
  /\ "events" \in Selects[7]
<1>1. /\ Len(Selects) = 7
      /\ Selects[1] = {"status", "policy"} /\ Selects[2] = {"tasks"}
      /\ Selects[3] = {"artifacts", "trend_source"} /\ Selects[4] = {"reviews"}
      /\ Selects[5] = {"gate", "delivered"} /\ Selects[6] = {"approvals"}
      /\ Selects[7] = {"history", "events"}
  BY DEF Selects
<1>2. \A i \in 1..7 : Selects[i] \subseteq Fields
  <2> TAKE i \in 1..7
  <2>1. i = 1 \/ i = 2 \/ i = 3 \/ i = 4 \/ i = 5 \/ i = 6 \/ i = 7
    OBVIOUS
  <2> QED
    BY <1>1, <2>1 DEF Fields
<1>3. \A k \in 0..6 : ReadBy(k + 1) = ReadBy(k) \union Selects[k + 1]
  BY <1>2 DEF ReadBy
<1>4. ReadBy(0) = {}
  BY DEF ReadBy
<1>5. ReadBy(7) = Fields
  <2>1. \A f \in Fields : \E i \in 1..7 : f \in Selects[i]
    BY <1>1 DEF Fields
  <2> QED
    BY <2>1 DEF ReadBy
<1>6. "approvals" \in ReadBy(6)
  BY <1>1 DEF ReadBy, Fields
<1> QED
  BY <1>1, <1>3, <1>4, <1>5, <1>6

\* ------------------------------------------------------- the inductive invariant

\* The record r of p is well-typed; unless it was mixed it satisfies RecordInv, unless
\* its trail was put back it has an event for every decision, and what it has of an
\* external provider was approved.
RecordOK(p, r, mix, rew, approved) ==
  /\ RecordTypeOK(r) /\ Len(r.reviews) <= 1
  /\ p \notin mix => RecordInv(r)
  /\ p \notin rew => Covered(r)
  /\ r.trend_source = "external" => p \in approved

\* Every field of a copy comes from some record of the project.
Gathered(p, copy, approved) ==
  \A f \in DOMAIN copy :
    \E r : /\ RecordTypeOK(r) /\ copy[f] = r[f]
           /\ r.trend_source = "external" => p \in approved

\* The state s of a thread that is reading the record of s.project, which is r now: the
\* rows of one save until another call overlaps it, and never a decision whose event is
\* not in the trail or, before the last SELECT, in the tables.
CopyOK(s, r, mix, rew, approved) ==
  /\ DOMAIN s.copy = ReadBy(s.selects)
  /\ Gathered(s.project, s.copy, approved)
  /\ ~s.overlapped /\ s.selects < 7 => \A f \in DOMAIN s.copy : s.copy[f] = r[f]
  /\ ~s.overlapped /\ s.selects = 7 /\ s.project \notin mix => RecordInv(s.copy)
  /\ s.selects = 6 /\ s.project \notin rew =>
       \A a \in approved_actions(s.copy) \union rejected_actions(s.copy) :
         \E e \in r.events : e.type \in Decided /\ e.subject = a
  /\ s.selects = 7 /\ s.project \notin rew => Covered(s.copy)
  /\ s.selects = 7 /\ ~s.outdated => s.copy.events = r.events

WorkerFields == {"at", "project", "selects", "copy", "overlapped", "outdated"}

ReadingOK(s) ==
  /\ DOMAIN s = WorkerFields
  /\ s.at = "reading"
  /\ s.selects \in 0..7
  /\ s.overlapped \in BOOLEAN /\ s.outdated \in BOOLEAN

WorkerOK(s, records, mix, rew, approved) ==
  \/ s = Idle
  \/ /\ ReadingOK(s)
     /\ s.project \in Projects /\ records[s.project] # NoRecord
     /\ CopyOK(s, records[s.project], mix, rew, approved)

Approved == everApproved \union pregranted

\* The type invariant says nothing of how a copy came about, and without it neither a
\* mixture nor a lost event can be told from a record that was saved.
PgIInv ==
  /\ DOMAIN store = Projects /\ DOMAIN worker = Workers
  /\ pregranted \subseteq Projects /\ everApproved \subseteq Projects
  /\ mixed \subseteq Projects /\ rewound \subseteq Projects
  /\ \A p \in Stored : RecordOK(p, store[p], mixed, rewound, Approved)
  /\ \A w \in Workers : WorkerOK(worker[w], store, mixed, rewound, Approved)

LEMMA TypedIsARecord ==
  ASSUME NEW r, RecordTypeOK(r)
  PROVE  r # NoRecord
BY DEF RecordTypeOK, NoRecord, StoredStatuses, ProjectStatuses

LEMMA AuditedIsCovered ==
  ASSUME NEW r, RecordInv(r)
  PROVE  Covered(r)
BY DEF RecordInv, DecisionsAudited, Covered, Decided

\* The invariants of a record and of a copy survive when more projects are marked.
LEMMA MoreMarks ==
  ASSUME NEW mix, NEW mix1, mix \subseteq mix1, NEW rew, NEW rew1, rew \subseteq rew1,
         NEW approved, NEW approved1, approved \subseteq approved1
  PROVE  /\ \A p, r : RecordOK(p, r, mix, rew, approved) => RecordOK(p, r, mix1, rew1, approved1)
         /\ \A s, r : CopyOK(s, r, mix, rew, approved) => CopyOK(s, r, mix1, rew1, approved1)
<1>1. \A p, copy : Gathered(p, copy, approved) => Gathered(p, copy, approved1)
  BY DEF Gathered
<1> QED
  BY <1>1 DEF RecordOK, CopyOK

\* Another call commits the record t in place of r.
LEMMA OverlapKeeps ==
  ASSUME NEW s, ReadingOK(s), NEW r, NEW t,
         NEW mix, NEW rew, NEW approved, CopyOK(s, r, mix, rew, approved),
         s.project \notin rew => r.events \subseteq t.events,
         NEW u, DOMAIN u = DOMAIN s, u.at = s.at, u.project = s.project,
         u.selects = s.selects, u.copy = s.copy,
         u.overlapped = (s.overlapped \/ s.selects \in 1..6),
         u.outdated = (s.outdated \/ s.selects = 7)
  PROVE  ReadingOK(u) /\ CopyOK(u, t, mix, rew, approved)
<1>1. ReadingOK(u)
  BY DEF ReadingOK
<1>2. ~u.overlapped /\ u.selects < 7 => DOMAIN u.copy = {}
  <2> SUFFICES ASSUME ~u.overlapped, u.selects < 7
               PROVE  DOMAIN u.copy = {}
    OBVIOUS
  <2>1. s.selects \notin 1..6
    BY Zenon
  <2>2. u.selects = 0
    BY <2>1 DEF ReadingOK
  <2> QED
    BY <2>2, SelectsRead DEF CopyOK
<1>3. u.selects = 7 => u.outdated
  BY <1>1 DEF ReadingOK
<1>4. ~u.overlapped => ~s.overlapped
  BY DEF ReadingOK
<1>5. DOMAIN u.copy = ReadBy(u.selects) /\ Gathered(u.project, u.copy, approved)
  BY DEF CopyOK
<1>6. ~u.overlapped /\ u.selects = 7 /\ u.project \notin mix => RecordInv(u.copy)
  BY <1>4 DEF CopyOK
<1>7. u.selects = 6 /\ u.project \notin rew =>
        \A a \in approved_actions(u.copy) \union rejected_actions(u.copy) :
          \E e \in t.events : e.type \in Decided /\ e.subject = a
  BY DEF CopyOK
<1>8. u.selects = 7 /\ u.project \notin rew => Covered(u.copy)
  BY DEF CopyOK
<1> QED
  BY <1>1, <1>2, <1>3, <1>5, <1>6, <1>7, <1>8 DEF CopyOK

\* The next SELECT reads from r.
LEMMA SelectKeeps ==
  ASSUME NEW s, ReadingOK(s), s.selects < 7, NEW r,
         NEW mix, NEW rew, NEW approved,
         RecordOK(s.project, r, mix, rew, approved), CopyOK(s, r, mix, rew, approved),
         NEW u, DOMAIN u = DOMAIN s, u.at = s.at, u.project = s.project,
         u.selects = s.selects + 1, u.copy = WithRows(s.copy, s.selects + 1, r),
         u.overlapped = s.overlapped, u.outdated = s.outdated
  PROVE  ReadingOK(u) /\ CopyOK(u, r, mix, rew, approved)
<1> DEFINE k == s.selects + 1
<1>1. k \in 1..7 /\ s.selects \in 0..6 /\ s.selects = k - 1 /\ u.selects = k
  BY DEF ReadingOK
<1>2. ReadingOK(u)
  BY <1>1 DEF ReadingOK
<1>3. u.copy = [f \in (DOMAIN s.copy) \union Selects[k] |->
                  IF f \in Selects[k] THEN r[f] ELSE s.copy[f]]
  BY DEF WithRows
<1>4. DOMAIN s.copy = ReadBy(s.selects) /\ ReadBy(k) = ReadBy(s.selects) \union Selects[k]
  BY <1>1, SelectsRead DEF CopyOK
<1> HIDE DEF k
<1>5. /\ DOMAIN u.copy = ReadBy(k)
      /\ \A f \in Selects[k] : u.copy[f] = r[f]
      /\ \A f \in (DOMAIN s.copy) \ Selects[k] : u.copy[f] = s.copy[f]
  BY <1>3, <1>4
<1>6. Gathered(u.project, u.copy, approved)
  BY <1>4, <1>5 DEF Gathered, CopyOK, RecordOK
<1>7. ~u.overlapped => \A f \in DOMAIN u.copy : u.copy[f] = r[f]
  BY <1>4, <1>5 DEF CopyOK
<1>8. ~u.overlapped /\ u.selects = 7 /\ u.project \notin mix => RecordInv(u.copy)
  <2> SUFFICES ASSUME ~u.overlapped, k = 7, s.project \notin mix
               PROVE  RecordInv(u.copy)
    BY <1>1
  <2>1. DOMAIN u.copy = Fields /\ \A f \in Fields : u.copy[f] = r[f]
    BY <1>5, <1>7, SelectsRead
  <2>2. RecordInv(r) /\ DOMAIN r = Fields
    BY DEF RecordOK, RecordTypeOK, Fields
  <2> QED
    BY <2>1, <2>2, SameFields
<1>9. /\ Covered(r) \/ s.project \in rew
      /\ \A c : c.approvals = r.approvals => approved_actions(c) = approved_actions(r)
                                             /\ rejected_actions(c) = rejected_actions(r)
      /\ u.copy.approvals = s.copy.approvals =>
           /\ approved_actions(u.copy) = approved_actions(s.copy)
           /\ rejected_actions(u.copy) = rejected_actions(s.copy)
  BY DEF RecordOK, approved_actions, rejected_actions, Having
<1>10. u.selects = 6 /\ u.project \notin rew =>
         \A a \in approved_actions(u.copy) \union rejected_actions(u.copy) :
           \E e \in r.events : e.type \in Decided /\ e.subject = a
  <2> SUFFICES ASSUME k = 6, s.project \notin rew
               PROVE  \A a \in approved_actions(u.copy) \union rejected_actions(u.copy) :
                        \E e \in r.events : e.type \in Decided /\ e.subject = a
    BY <1>1
  <2>1. u.copy.approvals = r.approvals
    BY <1>5, SelectsRead
  <2> QED
    BY <1>9, <2>1 DEF Covered
<1>11. u.selects = 7 => u.copy.events = r.events
  BY <1>1, <1>5, SelectsRead
<1>12. u.selects = 7 /\ u.project \notin rew => Covered(u.copy)
  <2> SUFFICES ASSUME k = 7, s.project \notin rew
               PROVE  Covered(u.copy)
    BY <1>1
  <2>1. s.selects = 6
    BY <1>1
  <2>2. u.copy.approvals = s.copy.approvals
    BY <1>4, <1>5, <2>1, SelectsRead
  <2>3. \A a \in approved_actions(s.copy) \union rejected_actions(s.copy) :
          \E e \in r.events : e.type \in Decided /\ e.subject = a
    BY <2>1 DEF CopyOK
  <2> QED
    BY <1>1, <1>9, <1>11, <2>2, <2>3 DEF Covered
<1> QED
  BY <1>1, <1>2, <1>5, <1>6, <1>7, <1>8, <1>10, <1>11, <1>12 DEF CopyOK

\* A copy that is read to the end is well-typed.
LEMMA CopyTyped ==
  ASSUME NEW s, NEW r, NEW mix, NEW rew, NEW approved,
         CopyOK(s, r, mix, rew, approved), s.selects = 7
  PROVE  /\ RecordTypeOK(s.copy)
         /\ s.copy.trend_source = "external" => s.project \in approved
<1>1. DOMAIN s.copy = Fields
  BY SelectsRead DEF CopyOK
<1>2. \A f \in Fields : \E t : /\ RecordTypeOK(t) /\ s.copy[f] = t[f]
                               /\ t.trend_source = "external" => s.project \in approved
  BY <1>1 DEF CopyOK, Gathered
<1>3. RecordTypeOK(s.copy)
  BY <1>1, <1>2, FieldsType
<1>4. s.copy.trend_source = "external" => s.project \in approved
  BY <1>2 DEF Fields
<1> QED
  BY <1>3, <1>4

\* -------------------------------------------------------------------- the steps

MarksGrow ==
  /\ pregranted \subseteq pregranted' /\ pregranted' \subseteq Projects
  /\ everApproved \subseteq everApproved' /\ everApproved' \subseteq Projects
  /\ mixed \subseteq mixed' /\ mixed' \subseteq Projects
  /\ rewound \subseteq rewound' /\ rewound' \subseteq Projects

LEMMA MarksKeep ==
  ASSUME MarksGrow
  PROVE  /\ \A p, r : RecordOK(p, r, mixed, rewound, Approved) =>
                        RecordOK(p, r, mixed', rewound', Approved')
         /\ \A s, r : CopyOK(s, r, mixed, rewound, Approved) =>
                        CopyOK(s, r, mixed', rewound', Approved')
<1>1. /\ mixed \subseteq mixed' /\ rewound \subseteq rewound'
      /\ Approved \subseteq Approved'
  BY DEF MarksGrow, Approved
<1> QED
  BY <1>1, MoreMarks

\* Nothing is committed; one thread goes on to a state that is all right.
LEMMA SameStoreKeeps ==
  ASSUME PgIInv, MarksGrow, store' = store, DOMAIN worker' = Workers,
         \A v \in Workers : \/ worker'[v] = worker[v]
                            \/ WorkerOK(worker'[v], store, mixed, rewound, Approved)
  PROVE  PgIInv'
<1>1. \A p \in Stored' : p \in Stored /\ store'[p] = store[p]
  BY DEF Stored, Known
<1>2. \A p \in Stored' : RecordOK(p, store'[p], mixed', rewound', Approved')
  BY <1>1, MarksKeep DEF PgIInv
<1>3. \A v \in Workers : WorkerOK(worker'[v], store, mixed, rewound, Approved)
  BY DEF PgIInv
<1>4. \A v \in Workers : WorkerOK(worker'[v], store', mixed', rewound', Approved')
  BY <1>3, MarksKeep DEF WorkerOK
<1> QED
  BY <1>2, <1>4 DEF PgIInv, MarksGrow

\* What a commit of p makes of the state s of a thread.
LEMMA OverlapFields ==
  ASSUME NEW state, NEW p, NEW v \in Workers
  PROVE  /\ DOMAIN Overlap(state, p) = Workers
         /\ LET s == state[v]
                u == Overlap(state, p)[v]
            IN /\ ~(s.at = "reading" /\ s.project = p) => u = s
               /\ s.at = "reading" /\ s.project = p /\ ReadingOK(s) =>
                    /\ DOMAIN u = DOMAIN s /\ u.at = s.at /\ u.project = s.project
                    /\ u.selects = s.selects /\ u.copy = s.copy
                    /\ u.overlapped = (s.overlapped \/ s.selects \in 1..6)
                    /\ u.outdated = (s.outdated \/ s.selects = 7)
<1> DEFINE s == state[v]
           u == Overlap(state, p)[v]
<1>1. DOMAIN Overlap(state, p) = Workers
  BY DEF Overlap
<1>2. u = IF s.at = "reading" /\ s.project = p
          THEN [s EXCEPT !.overlapped = @ \/ s.selects \in 1..(Len(Selects) - 1),
                         !.outdated = @ \/ s.selects = Len(Selects)]
          ELSE s
  BY DEF Overlap
<1>3. Len(Selects) = 7 /\ 1..(Len(Selects) - 1) = 1..6
  BY SelectsRead
<1> HIDE DEF u, s
<1>4. ASSUME s.at = "reading", s.project = p, ReadingOK(s)
      PROVE  /\ DOMAIN u = DOMAIN s /\ u.at = s.at /\ u.project = s.project
             /\ u.selects = s.selects /\ u.copy = s.copy
             /\ u.overlapped = (s.overlapped \/ s.selects \in 1..6)
             /\ u.outdated = (s.outdated \/ s.selects = 7)
  BY <1>2, <1>3, <1>4 DEF ReadingOK, WorkerFields
<1> QED
  BY <1>1, <1>2, <1>4 DEF u, s

\* A record of p is committed; the threads are as in `state` and get rows of it.
LEMMA SaveKeeps ==
  ASSUME PgIInv, MarksGrow, NEW p \in Projects, NEW rec, NEW state,
         store' = [store EXCEPT ![p] = rec],
         RecordOK(p, rec, mixed', rewound', Approved'),
         Known(p) /\ p \notin rewound' => store[p].events \subseteq rec.events,
         \A v \in Workers : state[v] = worker[v] \/ state[v] = Idle,
         worker' = Overlap(state, p)
  PROVE  PgIInv'
<1>1. DOMAIN store' = Projects /\ store'[p] = rec
      /\ \A q \in Projects \ {p} : store'[q] = store[q]
  BY DEF PgIInv
<1>2. rec # NoRecord
  BY TypedIsARecord DEF RecordOK
<1>3. \A q \in Stored' : RecordOK(q, store'[q], mixed', rewound', Approved')
  <2> TAKE q \in Stored'
  <2>1. CASE q = p
    BY <1>1, <2>1
  <2>2. CASE q # p
    <3>1. q \in Stored /\ store'[q] = store[q]
      BY <1>1, <2>2 DEF Stored, Known
    <3> QED
      BY <3>1, MarksKeep DEF PgIInv
  <2> QED
    BY <2>1, <2>2
<1>4. \A v \in Workers : WorkerOK(worker'[v], store', mixed', rewound', Approved')
  <2> TAKE v \in Workers
  <2> DEFINE s == state[v]
             u == worker'[v]
  <2>1. WorkerOK(s, store, mixed, rewound, Approved)
    BY DEF PgIInv, WorkerOK
  <2>2. u = Overlap(state, p)[v]
    OBVIOUS
  <2> HIDE DEF s, u
  <2>3. CASE s = Idle
    <3>1. s.at # "reading"
      BY <2>3 DEF Idle
    <3>2. u = s
      BY <2>2, <3>1, OverlapFields DEF s
    <3> QED
      BY <2>3, <3>2 DEF WorkerOK, u
  <2>4. CASE s # Idle
    <3>1. /\ ReadingOK(s) /\ s.project \in Projects /\ store[s.project] # NoRecord
          /\ CopyOK(s, store[s.project], mixed', rewound', Approved')
      BY <2>1, <2>4, MarksKeep DEF WorkerOK
    <3>2. s.at = "reading"
      BY <3>1 DEF ReadingOK
    <3>3. CASE s.project # p
      <4>1. u = s /\ store'[s.project] = store[s.project]
        BY <1>1, <2>2, <3>1, <3>3, OverlapFields DEF s
      <4> QED
        BY <3>1, <4>1 DEF WorkerOK, u
    <3>4. CASE s.project = p
      <4>1. /\ DOMAIN u = DOMAIN s /\ u.at = s.at /\ u.project = s.project
            /\ u.selects = s.selects /\ u.copy = s.copy
            /\ u.overlapped = (s.overlapped \/ s.selects \in 1..6)
            /\ u.outdated = (s.outdated \/ s.selects = 7)
        BY <2>2, <3>1, <3>2, <3>4, OverlapFields DEF s
      <4>2. p \notin rewound' => store[p].events \subseteq rec.events
        BY <3>1, <3>4 DEF Known
      <4>3. ReadingOK(u) /\ CopyOK(u, rec, mixed', rewound', Approved')
        BY <3>1, <3>4, <4>1, <4>2, OverlapKeeps
      <4> QED
        BY <1>1, <1>2, <3>4, <4>1, <4>3 DEF WorkerOK, u
    <3> QED
      BY <3>3, <3>4
  <2> QED
    BY <2>3, <2>4 DEF u
<1>5. DOMAIN worker' = Workers
  BY DEF Overlap
<1> QED
  BY <1>1, <1>3, <1>4, <1>5 DEF PgIInv, MarksGrow

\* A call of p that makes rec of the record r, to which it has the right as far as the
\* marks tell, and saves it.
LEMMA SavedIsOK ==
  ASSUME NEW p, NEW r, NEW rec, NEW granted, NEW mix, NEW rew, NEW approved, NEW approved1,
         Handled(r, rec, granted), Len(rec.reviews) <= 1,
         p \notin mix => RecordInv(rec),
         p \notin rew => Covered(r),
         r.trend_source = "external" => p \in approved,
         approved \subseteq approved1,
         EXT \in approved_actions(rec) \/ granted => p \in approved1
  PROVE  RecordOK(p, rec, mix, rew, approved1)
<1>1. RecordTypeOK(rec)
  BY DEF Handled
<1>2. p \notin rew => Covered(rec)
  BY DEF Handled, CoversMore, Covered
<1>3. rec.trend_source = "external" => p \in approved1
  BY DEF Handled
<1> QED
  BY <1>1, <1>2, <1>3 DEF RecordOK

\* What the transaction of a call comes to.
LEMMA CommitEffect ==
  ASSUME PgIInv, NEW p \in Projects, NEW out, NEW granted, Commit(p, out, granted)
  PROVE  /\ pregranted \subseteq pregranted' /\ pregranted' \subseteq Projects
         /\ everApproved \subseteq everApproved' /\ everApproved' \subseteq Projects
         /\ \/ UNCHANGED <<store, pregranted, everApproved>>
            \/ /\ out.saved /\ Len(out.rec.reviews) <= 1
               /\ store' = [store EXCEPT ![p] = out.rec]
               /\ EXT \in approved_actions(out.rec) \/ granted => p \in Approved'
<1>1. CASE out.saved /\ Storable(out.rec)
  <2>1. /\ store' = [store EXCEPT ![p] = out.rec]
        /\ pregranted' = IF granted THEN pregranted \union {p} ELSE pregranted
        /\ everApproved' = IF EXT \in approved_actions(out.rec)
                           THEN everApproved \union {p} ELSE everApproved
    BY <1>1 DEF Commit, Committed
  <2> QED
    BY <1>1, <2>1 DEF PgIInv, Storable, Approved
<1>2. CASE ~(out.saved /\ Storable(out.rec))
  BY <1>2 DEF Commit, PgIInv
<1> QED
  BY <1>1, <1>2

\* The thread w ends its pass with a call on the copy it has read.
LEMMA AnswerKeeps ==
  ASSUME PgIInv, NEW w \in Workers, HasRead(w), NEW out, NEW granted,
         CallOn(worker[w].copy, out, granted), Answer(w, out, granted, Idle)
  PROVE  PgIInv'
<1> DEFINE s == worker[w]
           p == s.project
           ended == [worker EXCEPT ![w] = Idle]
<1>1. s # Idle /\ s.selects = 7
  BY SelectsRead DEF HasRead, At, Idle
<1>2. /\ ReadingOK(s) /\ p \in Projects /\ store[p] # NoRecord
      /\ CopyOK(s, store[p], mixed, rewound, Approved)
  BY <1>1 DEF PgIInv, WorkerOK
<1>3. /\ RecordTypeOK(s.copy)
      /\ s.copy.trend_source = "external" => p \in Approved
  BY <1>1, <1>2, CopyTyped
<1>4. Commit(p, out, granted)
  BY DEF Answer
<1>5. /\ DOMAIN ended = Workers
      /\ \A v \in Workers : ended[v] = worker[v] \/ ended[v] = Idle
  BY DEF PgIInv
<1>6. CASE store' = store
  <2>1. worker' = ended /\ mixed' = mixed /\ rewound' = rewound
    BY <1>6 DEF Answer
  <2>2. MarksGrow
    BY <1>2, <1>4, <2>1, CommitEffect DEF MarksGrow, PgIInv
  <2> HIDE DEF ended
  <2>3. \A v \in Workers : \/ worker'[v] = worker[v]
                           \/ WorkerOK(worker'[v], store, mixed, rewound, Approved)
    BY <1>5, <2>1 DEF WorkerOK
  <2> QED
    BY <1>5, <1>6, <2>1, <2>2, <2>3, SameStoreKeeps
<1>7. CASE store' # store
  <2>1. /\ worker' = Overlap(ended, p)
        /\ mixed' = IF s.overlapped THEN mixed \union {p} ELSE mixed
        /\ rewound' = IF s.outdated THEN rewound \union {p} ELSE rewound
    BY <1>7 DEF Answer
  <2>2. /\ out.saved /\ Len(out.rec.reviews) <= 1
        /\ store' = [store EXCEPT ![p] = out.rec]
        /\ EXT \in approved_actions(out.rec) \/ granted => p \in Approved'
        /\ pregranted \subseteq pregranted' /\ pregranted' \subseteq Projects
        /\ everApproved \subseteq everApproved' /\ everApproved' \subseteq Projects
    BY <1>2, <1>4, <1>7, CommitEffect
  <2>3. MarksGrow /\ Approved \subseteq Approved'
    BY <1>2, <2>1, <2>2 DEF MarksGrow, PgIInv, Approved
  <2> HIDE DEF s, p, ended
  <2>4. Handled(s.copy, out.rec, granted) /\ (RecordInv(s.copy) => RecordInv(out.rec))
    BY <1>3, <2>2, CallHandled DEF s
  <2>5. p \notin mixed' => RecordInv(out.rec)
    BY <1>1, <1>2, <2>1, <2>4 DEF CopyOK, p
  <2>6. p \notin rewound' => /\ Covered(s.copy)
                             /\ s.copy.events = store[p].events
    BY <1>1, <1>2, <2>1 DEF CopyOK, p
  <2>7. RecordOK(p, out.rec, mixed', rewound', Approved')
    BY <1>3, <2>2, <2>3, <2>4, <2>5, <2>6, SavedIsOK
  <2>8. p \notin rewound' => store[p].events \subseteq out.rec.events
    BY <2>4, <2>6 DEF Handled, CoversMore
  <2> QED
    BY <1>2, <1>5, <2>1, <2>2, <2>3, <2>7, <2>8, SaveKeeps
<1> QED
  BY <1>6, <1>7

LEMMA SaveAuthenticationKeeps ==
  ASSUME PgIInv, NEW w \in Workers, SaveAuthentication(w)
  PROVE  PgIInv'
<1>1. PICK out \in {record_authentication_success(worker[w].copy),
                    record_authentication_failure(worker[w].copy)} :
              Answer(w, out, FALSE, Idle)
  BY DEF SaveAuthentication
<1>2. CallOn(worker[w].copy, out, FALSE)
  BY DEF CallOn
<1> QED
  BY <1>1, <1>2, AnswerKeeps DEF SaveAuthentication

LEMMA HandleKeeps ==
  ASSUME PgIInv, NEW w \in Workers, Handle(w)
  PROVE  PgIInv'
<1>1. PICK o \in Outcomes(worker[w].copy) : Answer(w, o.out, o.granted, Idle)
  BY DEF Handle
<1>2. o = [out |-> o.out, granted |-> o.granted]
  BY DEF Outcomes
<1>3. CallOn(worker[w].copy, o.out, o.granted)
  BY <1>2 DEF CallOn
<1> QED
  BY <1>1, <1>3, AnswerKeeps DEF Handle

\* A call of another thread or process saves a record of p in one step.
LEMMA ElsewhereSaves ==
  ASSUME PgIInv, NEW p \in Projects, NEW out, NEW granted, Commit(p, out, granted),
         worker' = IF store' # store THEN Overlap(worker, p) ELSE worker,
         UNCHANGED <<mixed, rewound>>,
         out.saved /\ Len(out.rec.reviews) <= 1
           /\ (EXT \in approved_actions(out.rec) \/ granted => p \in Approved') =>
              RecordOK(p, out.rec, mixed, rewound, Approved'),
         out.saved /\ Known(p) => store[p].events \subseteq out.rec.events
  PROVE  PgIInv'
<1>1. /\ pregranted \subseteq pregranted' /\ pregranted' \subseteq Projects
      /\ everApproved \subseteq everApproved' /\ everApproved' \subseteq Projects
      /\ \/ UNCHANGED <<store, pregranted, everApproved>>
         \/ /\ out.saved /\ Len(out.rec.reviews) <= 1
            /\ store' = [store EXCEPT ![p] = out.rec]
            /\ EXT \in approved_actions(out.rec) \/ granted => p \in Approved'
  BY CommitEffect
<1>2. MarksGrow
  BY <1>1 DEF MarksGrow, PgIInv
<1>3. CASE store' = store
  <2>1. worker' = worker
    BY <1>3
  <2> QED
    BY <1>2, <1>3, <2>1, SameStoreKeeps DEF PgIInv
<1>4. CASE store' # store
  <2>1. /\ store' = [store EXCEPT ![p] = out.rec]
        /\ RecordOK(p, out.rec, mixed', rewound', Approved')
        /\ Known(p) => store[p].events \subseteq out.rec.events
    BY <1>1, <1>4
  <2>2. worker' = Overlap(worker, p)
    BY <1>4
  <2> QED
    BY <1>2, <2>1, <2>2, SaveKeeps
<1> QED
  BY <1>3, <1>4

LEMMA ElsewhereKeeps ==
  ASSUME PgIInv, NEW p \in Projects, CallElsewhere(p)
  PROVE  PgIInv'
<1>1. CASE Known(p) /\ \E o \in Outcomes(store[p]) : Commit(p, o.out, o.granted)
  <2>1. PICK o \in Outcomes(store[p]) : Commit(p, o.out, o.granted)
    BY <1>1
  <2>2. RecordOK(p, store[p], mixed, rewound, Approved)
    BY <1>1 DEF PgIInv, Stored
  <2>3. RecordTypeOK(store[p])
    BY <2>2 DEF RecordOK
  <2>4. ASSUME o.out.saved
        PROVE  /\ Handled(store[p], o.out.rec, o.granted)
               /\ p \notin mixed => RecordInv(o.out.rec)
    BY <2>2, <2>3, <2>4, OutcomesHandled, OutcomesKeep DEF RecordOK
  <2>5. Approved \subseteq Approved'
    BY <2>1, CommitEffect DEF Approved
  <2>6. ASSUME o.out.saved, Len(o.out.rec.reviews) <= 1,
               EXT \in approved_actions(o.out.rec) \/ o.granted => p \in Approved'
        PROVE  RecordOK(p, o.out.rec, mixed, rewound, Approved')
    <3>1. /\ p \notin rewound => Covered(store[p])
          /\ store[p].trend_source = "external" => p \in Approved
      BY <2>2 DEF RecordOK
    <3> QED
      BY <2>4, <2>5, <2>6, <3>1, SavedIsOK
  <2>7. o.out.saved => store[p].events \subseteq o.out.rec.events
    BY <2>4 DEF Handled, CoversMore
  <2>8. /\ worker' = IF store' # store THEN Overlap(worker, p) ELSE worker
        /\ UNCHANGED <<mixed, rewound>>
    BY DEF CallElsewhere
  <2> QED
    BY <2>1, <2>6, <2>7, <2>8, ElsewhereSaves
<1>2. CASE ~Known(p) /\ \E q \in RunRequests : Commit(p, run(q), EXT \in q.actions)
  <2>1. PICK q \in RunRequests : Commit(p, run(q), EXT \in q.actions)
    BY <1>2
  <2>2. q.provider \in Names /\ q.simulate_review_failure \in BOOLEAN
    BY ServiceAssumption DEF RunRequests, Names
  <2> DEFINE out     == run(q)
             granted == EXT \in q.actions
  <2>3. ASSUME out.saved
        PROVE  /\ RecordInv(out.rec)
               /\ out.rec.trend_source = "external" => granted
    BY <2>2, <2>3, RunKeeps, RunEffect
  <2>4. Commit(p, out, granted)
    BY <2>1
  <2> HIDE DEF out, granted
  <2>5. ASSUME out.saved, Len(out.rec.reviews) <= 1,
               EXT \in approved_actions(out.rec) \/ granted => p \in Approved'
        PROVE  RecordOK(p, out.rec, mixed, rewound, Approved')
    BY <2>3, <2>5, AuditedIsCovered DEF RecordOK, RecordInv
  <2>6. /\ worker' = IF store' # store THEN Overlap(worker, p) ELSE worker
        /\ UNCHANGED <<mixed, rewound>>
    BY DEF CallElsewhere
  <2> QED
    BY <1>2, <2>4, <2>5, <2>6, ElsewhereSaves
<1> QED
  BY <1>1, <1>2 DEF CallElsewhere

LEMMA StartIsOK ==
  ASSUME PgInit
  PROVE  PgIInv
<1>1. store = [p \in Projects |-> NoRecord] /\ pregranted = {}
  BY DEF PgInit, Init
<1>2. Stored = {}
  BY <1>1 DEF Stored, Known
<1> QED
  BY <1>1, <1>2 DEF PgInit, PgIInv, WorkerOK

LEMMA ArriveKeeps ==
  ASSUME PgIInv, NEW w \in Workers, Arrive(w)
  PROVE  PgIInv'
<1>1. PICK p \in Stored : worker' = [worker EXCEPT ![w] = Reading(p)]
  BY DEF Arrive
<1>2. MarksGrow /\ store' = store
  BY DEF Arrive, MarksGrow, PgIInv
<1> DEFINE s == Reading(p)
<1>3. /\ DOMAIN s = WorkerFields /\ s.at = "reading" /\ s.project = p /\ s.selects = 0
      /\ s.copy = NoRows /\ s.overlapped \in BOOLEAN /\ s.outdated \in BOOLEAN
  BY DEF Reading, WorkerFields
<1>4. DOMAIN NoRows = {}
  BY DEF NoRows
<1>5. worker'[w] = s /\ DOMAIN worker' = Workers
      /\ \A v \in Workers \ {w} : worker'[v] = worker[v]
  BY <1>1 DEF PgIInv
<1> HIDE DEF s
<1>6. ReadingOK(s)
  BY <1>3 DEF ReadingOK
<1>7. CopyOK(s, store[p], mixed, rewound, Approved)
  BY <1>3, <1>4, SelectsRead DEF CopyOK, Gathered
<1>8. WorkerOK(s, store, mixed, rewound, Approved)
  BY <1>3, <1>6, <1>7 DEF WorkerOK, Stored, Known
<1> QED
  BY <1>2, <1>5, <1>8, SameStoreKeeps

LEMMA ReadsOnKeeps ==
  ASSUME PgIInv, NEW w \in Workers, Select(w)
  PROVE  PgIInv'
<1> DEFINE s == worker[w]
           u == worker'[w]
           r == store[s.project]
<1>1. s # Idle /\ s.selects < 7
  BY SelectsRead DEF Select, At, Idle
<1>2. /\ ReadingOK(s) /\ s.project \in Projects /\ r # NoRecord
      /\ CopyOK(s, r, mixed, rewound, Approved)
  BY <1>1 DEF PgIInv, WorkerOK
<1>3. RecordOK(s.project, r, mixed, rewound, Approved)
  BY <1>2 DEF PgIInv, Stored, Known
<1>4. worker' = [worker EXCEPT ![w] = [s EXCEPT !.selects = s.selects + 1,
                                                !.copy = WithRows(@, s.selects + 1, r)]]
  BY DEF Select
<1>5. MarksGrow /\ store' = store
  BY DEF Select, MarksGrow, PgIInv
<1> HIDE DEF s, r
<1>6. /\ u = [s EXCEPT !.selects = s.selects + 1, !.copy = WithRows(@, s.selects + 1, r)]
      /\ DOMAIN worker' = Workers /\ \A v \in Workers \ {w} : worker'[v] = worker[v]
  BY <1>4 DEF PgIInv
<1> HIDE DEF u
<1>7. /\ DOMAIN u = DOMAIN s /\ u.at = s.at /\ u.project = s.project
      /\ u.selects = s.selects + 1 /\ u.copy = WithRows(s.copy, s.selects + 1, r)
      /\ u.overlapped = s.overlapped /\ u.outdated = s.outdated
  BY <1>2, <1>6 DEF ReadingOK, WorkerFields
<1>8. ReadingOK(u) /\ CopyOK(u, r, mixed, rewound, Approved)
  BY <1>1, <1>2, <1>3, <1>7, SelectKeeps
<1>9. WorkerOK(u, store, mixed, rewound, Approved)
  BY <1>2, <1>7, <1>8 DEF WorkerOK, r
<1> QED
  BY <1>5, <1>6, <1>9, SameStoreKeeps DEF u

LEMMA BreakKeeps ==
  ASSUME PgIInv, NEW w \in Workers, Break(w)
  PROVE  PgIInv'
<1>1. MarksGrow /\ store' = store /\ worker' = [worker EXCEPT ![w] = Idle]
  BY DEF Break, MarksGrow, PgIInv
<1>2. /\ DOMAIN worker' = Workers
      /\ \A v \in Workers : worker'[v] = worker[v] \/ worker'[v] = Idle
  BY <1>1 DEF PgIInv
<1> QED
  BY <1>1, <1>2, SameStoreKeeps DEF WorkerOK

LEMMA PgNextKeeps ==
  ASSUME PgIInv, [PgNext]_pgVars
  PROVE  PgIInv'
<1>1. CASE \E w \in Workers : Arrive(w) \/ Serve(w) \/ Break(w)
  BY <1>1, ArriveKeeps, ReadsOnKeeps, SaveAuthenticationKeeps, HandleKeeps, BreakKeeps DEF Serve
<1>2. CASE \E p \in Projects : CallElsewhere(p)
  BY <1>2, ElsewhereKeeps
<1>3. CASE UNCHANGED pgVars
  <2>1. MarksGrow /\ store' = store /\ worker' = worker
    BY <1>3 DEF pgVars, MarksGrow, PgIInv
  <2> QED
    BY <2>1, SameStoreKeeps DEF PgIInv
<1> QED
  BY <1>1, <1>2, <1>3 DEF PgNext

LEMMA PgInvariance == PgSpec => []PgIInv
<1>1. PgInit => PgIInv
  BY StartIsOK
<1>2. PgIInv /\ [PgNext]_pgVars => PgIInv'
  BY PgNextKeeps
<1> QED
  BY <1>1, <1>2, PTL DEF PgSpec

\* A thread that has read its record to the end.
LEMMA ReadCopies ==
  ASSUME PgIInv, NEW w \in Workers, HasRead(w)
  PROVE  /\ worker[w].project \in Stored /\ worker[w].selects = 7
         /\ RecordTypeOK(worker[w].copy)
         /\ CopyOK(worker[w], store[worker[w].project], mixed, rewound, Approved)
<1>1. worker[w] # Idle /\ worker[w].selects = 7
  BY SelectsRead DEF HasRead, At, Idle
<1>2. /\ worker[w].project \in Stored
      /\ CopyOK(worker[w], store[worker[w].project], mixed, rewound, Approved)
  BY <1>1 DEF PgIInv, WorkerOK, Stored, Known
<1> QED
  BY <1>1, <1>2, CopyTyped

\* Whatever the calls overlap and whatever breaks, the tables hold well-typed records
\* that a save can store, and a read that ends gives the handler a well-typed one (get,
\* save).
THEOREM PostgresTypes == PgSpec => []PgTypeOK
<1>1. PgIInv => PgTypeOK
  <2> SUFFICES ASSUME PgIInv
               PROVE  PgTypeOK
    OBVIOUS
  <2>1. TypeOK
    BY DEF PgIInv, RecordOK, TypeOK
  <2>2. \A p \in Stored : Len(store[p].reviews) <= 1
    BY DEF PgIInv, RecordOK
  <2>3. ASSUME NEW w \in Workers, ~At(w, "idle")
        PROVE  /\ At(w, "reading")
               /\ worker[w].project \in Stored
               /\ worker[w].selects \in 0..Len(Selects)
               /\ worker[w].overlapped \in BOOLEAN
               /\ worker[w].outdated \in BOOLEAN
    <3>1. worker[w] # Idle
      BY <2>3 DEF At, Idle
    <3> QED
      BY <3>1, SelectsRead DEF PgIInv, WorkerOK, ReadingOK, At, Stored, Known
  <2>4. \A w \in Workers : HasRead(w) => RecordTypeOK(worker[w].copy)
    BY ReadCopies
  <2> QED
    BY <2>1, <2>2, <2>3, <2>4 DEF PgTypeOK, PgIInv
<1> QED
  BY <1>1, PgInvariance, PTL

\* A record that violates an invariant of the service comes from a read that a commit
\* overlapped, and from nothing else (PostgresProjectRepository.get and save).
THEOREM MixturesComeFromOverlaps == PgSpec => []OnlyOverlappedReadsMix
<1>1. PgIInv => OnlyOverlappedReadsMix
  <2> SUFFICES ASSUME PgIInv
               PROVE  OnlyOverlappedReadsMix
    OBVIOUS
  <2>1. \A p \in Stored \ mixed : RecordInv(store[p])
    BY DEF PgIInv, RecordOK
  <2>2. ASSUME NEW w \in Workers, HasRead(w), ~worker[w].overlapped,
               worker[w].project \notin mixed
        PROVE  RecordInv(worker[w].copy)
    BY <2>2, ReadCopies DEF CopyOK
  <2> QED
    BY <2>1, <2>2 DEF OnlyOverlappedReadsMix
<1> QED
  BY <1>1, PgInvariance, PTL

\* However the calls overlap, an external provider is called only for a project whose
\* send somebody approved, on record or in advance (_execute_pending_tasks).
THEOREM PostgresSendsAreApproved == PgSpec => []SendsWereApproved
<1>1. PgIInv => SendsWereApproved
  BY DEF PgIInv, RecordOK, SendsWereApproved, Approved
<1> QED
  BY <1>1, PgInvariance, PTL

\* A read ends with an audit event for every decision it has found, unless a save has
\* put an older trail of the project back (the order of the SELECTs in get).
THEOREM DecisionsHaveTheirTrail == PgSpec => []TrailCoversDecisions
<1>1. PgIInv => TrailCoversDecisions
  <2> SUFFICES ASSUME PgIInv, NEW w \in Workers, HasRead(w), worker[w].project \notin rewound
               PROVE  Covered(worker[w].copy)
    BY DEF TrailCoversDecisions, Covered
  <2> QED
    BY ReadCopies DEF CopyOK
<1> QED
  BY <1>1, PgInvariance, PTL
===============================================================================
