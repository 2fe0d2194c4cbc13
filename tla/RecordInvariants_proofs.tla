----------------------- MODULE RecordInvariants_proofs -----------------------
(***************************************************************************)
(* Every handler of PMOrchestrator keeps RecordInv: whatever it saves from *)
(* a record that satisfies it satisfies it again.                          *)
(***************************************************************************)
EXTENDS RecordInvariants, DocumentedPolicy_proofs, SequenceTheorems, TLAPS

\* A record whose fields have their types, at whichever status.
Shape(r) ==
  /\ DOMAIN r = {"status", "policy", "tasks", "approvals", "gate", "delivered",
                 "artifacts", "trend_source", "reviews", "history", "events"}
  /\ r.status \in ProjectStatuses
  /\ r.tasks \in [Departments -> TaskStatuses]
  /\ r.approvals \subseteq ActionTypes \X {"pending", "approved", "rejected"}
  /\ r.gate \in {"absent", "open", "approved"}
  /\ r.delivered \in BOOLEAN
  /\ r.artifacts \subseteq Departments \ {"review"}
  /\ r.trend_source \in {"none", "mock", "external"}
  /\ r.reviews \in Seq({"approved", "changes_requested"})
  /\ r.history \subseteq ProjectStatuses \X ProjectStatuses
  /\ \A e \in r.events : e.type \in EventTypes

\* A record on which execute_pending_tasks is called.
Executable(r) ==
  /\ Shape(r)
  /\ r.status = "in_progress"
  /\ \A d \in Departments : r.tasks[d] \in {"pending", "revision_requested", "done"}
  /\ r.tasks["review"] = "pending"
  /\ r.tasks["research"] = "done" \/ r.reviews = <<>>
  /\ ~r.delivered
  /\ \A d \in Departments \ {"review"} : r.tasks[d] = "done" => d \in r.artifacts
  /\ r.tasks["trend"] = "done" => r.trend_source # "none"
  /\ r.reviews \in {<<>>, <<"changes_requested">>}
  /\ pending_actions(r) \subseteq approved_actions(r)
  /\ TransitionsLegal(r)
  /\ DecisionsAudited(r)

\* A stored status is a status.
LEMMA StoredHasShape ==
  ASSUME NEW r, RecordTypeOK(r)
  PROVE  Shape(r)
BY DEF RecordTypeOK, Shape, StoredStatuses

\* A change of status touches the status and the history only.
LEMMA TransitionFields ==
  ASSUME NEW r, Shape(r), NEW next \in ProjectStatuses, can_transition(r.status, next),
         \A step \in r.history : can_transition(step[1], step[2])
  PROVE  LET t == Transition(r, next) IN
         /\ Shape(t)
         /\ t.status = next
         /\ t.policy = r.policy /\ t.tasks = r.tasks /\ t.approvals = r.approvals
         /\ t.gate = r.gate /\ t.delivered = r.delivered /\ t.artifacts = r.artifacts
         /\ t.trend_source = r.trend_source /\ t.reviews = r.reviews /\ t.events = r.events
         /\ TransitionsLegal(t)
<1> DEFINE t == Transition(r, next)
<1>1. r.status # next
  BY DEF can_transition, STATE_TRANSITIONS, ProjectStatuses, Shape
<1>2. t = [r EXCEPT !.status = next, !.history = @ \union {<<r.status, next>>}]
  BY <1>1 DEF Transition
<1>3. /\ DOMAIN t = DOMAIN r
      /\ t.status = next
      /\ t.history = r.history \union {<<r.status, next>>}
      /\ t.policy = r.policy /\ t.tasks = r.tasks /\ t.approvals = r.approvals
      /\ t.gate = r.gate /\ t.delivered = r.delivered /\ t.artifacts = r.artifacts
      /\ t.trend_source = r.trend_source /\ t.reviews = r.reviews /\ t.events = r.events
  BY <1>2 DEF Shape
<1>4. Shape(t)
  BY <1>3 DEF Shape
<1>5. TransitionsLegal(t)
  <2>1. \A step \in t.history : can_transition(step[1], step[2])
    BY <1>3
  <2>2. <<r.status, next>> \in t.history /\ <<r.status, next>>[2] = t.status
    BY <1>3
  <2> QED
    BY <2>1, <2>2 DEF TransitionsLegal
<1> QED
  BY <1>3, <1>4, <1>5

\* DecisionsAudited only looks at the decided requests and the events, and more
\* events that are no decisions do not disturb it.
LEMMA AuditedByMore ==
  ASSUME NEW r, NEW t, DecisionsAudited(r),
         approved_actions(t) = approved_actions(r),
         rejected_actions(t) = rejected_actions(r),
         r.events \subseteq t.events,
         \A e \in t.events \ r.events : e.type \notin Decided
  PROVE  DecisionsAudited(t)
<1>1. \A a \in approved_actions(t) :
        \E e \in t.events : e.type = "approval_approved" /\ e.subject = a
  BY DEF DecisionsAudited
<1>2. \A a \in rejected_actions(t) :
        \E e \in t.events : e.type = "approval_rejected" /\ e.subject = a
  BY DEF DecisionsAudited
<1>3. \A e \in t.events :
        /\ e.type \in Decided =>
             ActorEvent("authorization_granted", e.subject, e.actor) \in t.events
        /\ e.type = "approval_approved" => e.subject \in approved_actions(t)
        /\ e.type = "approval_rejected" => e.subject \in rejected_actions(t)
  <2> SUFFICES ASSUME NEW e \in t.events, e.type \in Decided
               PROVE  /\ ActorEvent("authorization_granted", e.subject, e.actor) \in t.events
                      /\ e.type = "approval_approved" => e.subject \in approved_actions(t)
                      /\ e.type = "approval_rejected" => e.subject \in rejected_actions(t)
    BY DEF Decided
  <2>1. e \in r.events
    OBVIOUS
  <2> QED
    BY <2>1 DEF DecisionsAudited
<1> QED
  BY <1>1, <1>2, <1>3 DEF DecisionsAudited

\* TransitionsLegal only looks at the status and the history.
LEMMA LegalBySame ==
  ASSUME NEW r, NEW t, TransitionsLegal(r), t.status = r.status, t.history = r.history
  PROVE  TransitionsLegal(t)
BY DEF TransitionsLegal

\* The pause at the gate of the external send.
LEMMA PauseKeeps ==
  ASSUME NEW r, Executable(r)
  PROVE  RecordInv(PauseForApproval(r))
<1> DEFINE asked  == IF EXT \in pending_actions(r) THEN {} ELSE {Event("approval_requested", EXT)}
           tasks  == [d \in Departments |->
                        CASE d \in BeforeTrend -> "done"
                          [] d = "trend"       -> "waiting_approval"
                          [] d = "review"      -> r.tasks[d]]
           paused == [r EXCEPT
                        !.tasks = tasks,
                        !.artifacts = @ \union (Unfinished(r) \intersect BeforeTrend),
                        !.approvals = @ \union {<<EXT, "pending">>},
                        !.gate = "open",
                        !.events = @ \union asked]
           p      == PauseForApproval(r)
<1>1. p = Transition(paused, "waiting_approval")
  BY DEF PauseForApproval
<1>2. /\ DOMAIN paused = DOMAIN r
      /\ paused.tasks = tasks
      /\ paused.artifacts = r.artifacts \union (Unfinished(r) \intersect BeforeTrend)
      /\ paused.approvals = r.approvals \union {<<EXT, "pending">>}
      /\ paused.gate = "open"
      /\ paused.events = r.events \union asked
      /\ paused.status = r.status /\ paused.delivered = r.delivered
      /\ paused.trend_source = r.trend_source /\ paused.reviews = r.reviews
      /\ paused.history = r.history
  BY DEF Executable, Shape
<1>3. /\ tasks \in [Departments -> TaskStatuses]
      /\ \A d \in BeforeTrend : tasks[d] = "done"
      /\ tasks["trend"] = "waiting_approval"
      /\ tasks["review"] = "pending"
  BY DEF Executable, Shape, Departments, TaskStatuses, BeforeTrend
<1> HIDE DEF p, paused, tasks
<1>4. EXT \in ActionTypes
  BY DEF EXT, ActionTypes
<1>5. /\ approved_actions(paused) = approved_actions(r)
      /\ rejected_actions(paused) = rejected_actions(r)
      /\ EXT \in pending_actions(paused)
  BY <1>2, <1>4 DEF approved_actions, rejected_actions, pending_actions, Having
<1>6. \A e \in asked : e.type = "approval_requested"
  BY DEF Event
<1>7. Shape(paused)
  <2>1. paused.artifacts \subseteq Departments \ {"review"}
    BY <1>2 DEF Executable, Shape, BeforeTrend, Departments
  <2>2. paused.approvals \subseteq ActionTypes \X {"pending", "approved", "rejected"}
    BY <1>2, <1>4 DEF Executable, Shape
  <2>3. \A e \in paused.events : e.type \in EventTypes
    BY <1>2, <1>6 DEF Executable, Shape, EventTypes
  <2> QED
    BY <1>2, <1>3, <2>1, <2>2, <2>3 DEF Executable, Shape
<1>8. can_transition(paused.status, "waiting_approval")
  BY <1>2 DEF Executable, can_transition, STATE_TRANSITIONS, ProjectStatuses
<1>9. /\ Shape(p) /\ p.status = "waiting_approval" /\ TransitionsLegal(p)
      /\ p.tasks = tasks /\ p.approvals = paused.approvals /\ p.gate = "open"
      /\ p.delivered = r.delivered /\ p.artifacts = paused.artifacts
      /\ p.trend_source = r.trend_source /\ p.reviews = r.reviews /\ p.events = paused.events
  <2>1. "waiting_approval" \in ProjectStatuses
    BY DEF ProjectStatuses
  <2>2. \A step \in paused.history : can_transition(step[1], step[2])
    BY <1>2 DEF Executable, TransitionsLegal
  <2> QED
    BY <1>1, <1>2, <1>7, <1>8, <2>1, <2>2, TransitionFields
<1>10. RecordTypeOK(p)
  BY <1>9 DEF Shape, RecordTypeOK, StoredStatuses, ProjectStatuses, TransientStatuses
<1>11. TasksMatchStatus(p)
  BY <1>3, <1>9 DEF TasksMatchStatus, TasksAre
<1>12. CompletedIsDelivered(p)
  <2>1. \A d \in Departments \ {"review"} : p.tasks[d] = "done" => d \in p.artifacts
    <3> SUFFICES ASSUME NEW d \in Departments \ {"review"}, p.tasks[d] = "done"
                 PROVE  d \in p.artifacts
      OBVIOUS
    <3>1. d \in BeforeTrend
      BY <1>3, <1>9 DEF Departments, BeforeTrend
    <3>2. d \in r.artifacts \/ d \in Unfinished(r)
      BY DEF Executable, Unfinished
    <3> QED
      BY <1>2, <1>9, <3>1, <3>2
  <2>2. p.tasks["trend"] # "done" /\ ~p.delivered /\ p.reviews \in {<<>>, <<"changes_requested">>}
    BY <1>3, <1>9 DEF Executable
  <2> QED
    BY <1>9, <2>1, <2>2 DEF CompletedIsDelivered
<1>13. WaitingHasRequest(p)
  BY <1>5, <1>9 DEF WaitingHasRequest, pending_actions, approved_actions, Having
<1>14. DecisionsAudited(p)
  <2>1. approved_actions(p) = approved_actions(r) /\ rejected_actions(p) = rejected_actions(r)
    BY <1>5, <1>9 DEF approved_actions, rejected_actions, Having
  <2>2. r.events \subseteq p.events /\ \A e \in p.events \ r.events : e.type \notin Decided
    BY <1>2, <1>6, <1>9 DEF Decided
  <2> QED
    BY <2>1, <2>2, AuditedByMore DEF Executable
<1> USE DEF p
<1> QED
  BY <1>9, <1>10, <1>11, <1>12, <1>13, <1>14 DEF RecordInv

\* The reviews after one more verdict.
LEMMA ReviewsAppend ==
  ASSUME NEW reviews \in {<<>>, <<"changes_requested">>},
         NEW v \in {"approved", "changes_requested"}
  PROVE  LET more == Append(reviews, v) IN
         /\ more[Len(more)] = v
         /\ more \in Seq({"approved", "changes_requested"})
         /\ v = "approved" => more \in {<<"approved">>, <<"changes_requested", "approved">>}
         /\ reviews = <<>> => more = <<v>>
<1> DEFINE Verdicts == {"approved", "changes_requested"}
           more     == Append(reviews, v)
<1>1. reviews \in Seq(Verdicts) /\ v \in Verdicts
  <2>1. <<>> \in Seq(Verdicts) /\ <<"changes_requested">> \in Seq(Verdicts)
    OBVIOUS
  <2>2. reviews = <<>> \/ reviews = <<"changes_requested">>
    OBVIOUS
  <2>3. v \in Verdicts
    OBVIOUS
  <2> HIDE DEF Verdicts
  <2> QED
    BY <2>1, <2>2, <2>3
<1> HIDE DEF Verdicts
<1>2. /\ more \in Seq(Verdicts)
      /\ Len(more) = Len(reviews) + 1
      /\ \A i \in 1..Len(reviews) : more[i] = reviews[i]
      /\ more[Len(reviews) + 1] = v
  BY <1>1, AppendProperties
<1> HIDE DEF more
<1>3. reviews = <<>> => more = <<v>>
  <2> SUFFICES ASSUME reviews = <<>> PROVE more = <<v>>
    OBVIOUS
  <2>1. <<v>> \in Seq(Verdicts) /\ Len(<<v>>) = 1 /\ <<v>>[1] = v
    BY <1>1
  <2>2. Len(more) = 1 /\ more[1] = v
    BY <1>2
  <2> QED
    BY <1>2, <2>1, <2>2, SeqEqual
<1>4. reviews = <<"changes_requested">> => more = <<"changes_requested", v>>
  <2> SUFFICES ASSUME reviews = <<"changes_requested">>
               PROVE  more = <<"changes_requested", v>>
    OBVIOUS
  <2> DEFINE two == <<"changes_requested", v>>
  <2>1. two \in Seq(Verdicts) /\ Len(two) = 2 /\ two[1] = "changes_requested" /\ two[2] = v
    BY <1>1 DEF Verdicts
  <2>2. Len(more) = 2 /\ more[1] = "changes_requested" /\ more[2] = v
    BY <1>2
  <2> HIDE DEF two
  <2> QED
    BY <1>2, <2>1, <2>2, SeqEqual
<1>6. more[Len(more)] = v
  BY <1>2, LenProperties, <1>1
<1>5. v = "approved" => more \in {<<"approved">>, <<"changes_requested", "approved">>}
  BY <1>3, <1>4
<1> USE DEF more, Verdicts
<1> QED
  BY <1>2, <1>3, <1>5, <1>6

\* The execution of every unfinished task, up to the verdict.
LEMMA RunAllTasksFields ==
  ASSUME NEW r, Executable(r), NEW provider \in {"mock", "external"}, NEW fail \in BOOLEAN
  PROVE  LET done == RunAllTasks(r, provider, fail)
             v    == IF fail THEN "changes_requested" ELSE "approved"
         IN /\ Shape(done)
            /\ \A d \in Departments : done.tasks[d] = "done"
            /\ done.reviews = Append(r.reviews, v)
            /\ done.reviews[Len(done.reviews)] = v
            /\ \A d \in Departments \ {"review"} : d \in done.artifacts
            /\ done.trend_source # "none"
            /\ done.status = r.status /\ done.history = r.history
            /\ done.approvals = r.approvals /\ done.events = r.events
            /\ done.delivered = r.delivered
<1> DEFINE done      == RunAllTasks(r, provider, fail)
           v         == IF fail THEN "changes_requested" ELSE "approved"
           artifacts == r.artifacts \union (Unfinished(r) \ {"review"})
<1>1. "review" \in Unfinished(r)
  BY DEF Executable, Unfinished, Departments
<1>2. /\ \A d \in Departments \ {"review"} : d \in artifacts
      /\ artifacts \subseteq Departments \ {"review"}
  BY DEF Executable, Shape, Unfinished
<1>3. ReviewVerdict(artifacts, fail) = v
  BY <1>2 DEF ReviewVerdict, Departments
<1>4. /\ DOMAIN done = DOMAIN r
      /\ done.tasks = [d \in Departments |-> "done"]
      /\ done.artifacts = artifacts
      /\ done.trend_source = IF "trend" \in Unfinished(r) THEN provider ELSE r.trend_source
      /\ done.reviews = Append(r.reviews, v)
      /\ done.status = r.status /\ done.history = r.history /\ done.gate = r.gate
      /\ done.approvals = r.approvals /\ done.events = r.events
      /\ done.delivered = r.delivered
  BY <1>1, <1>3 DEF RunAllTasks, Executable, Shape
<1> HIDE DEF done
<1>5. done.trend_source \in {"mock", "external"}
  BY <1>4 DEF Executable, Shape, Unfinished, Departments
<1>6. /\ done.reviews[Len(done.reviews)] = v
      /\ done.reviews \in Seq({"approved", "changes_requested"})
  <2>1. r.reviews \in {<<>>, <<"changes_requested">>}
    BY DEF Executable
  <2>2. v \in {"approved", "changes_requested"}
    OBVIOUS
  <2> HIDE DEF v
  <2> DEFINE more == Append(r.reviews, v)
  <2>3. more[Len(more)] = v /\ more \in Seq({"approved", "changes_requested"})
    BY <2>1, <2>2, ReviewsAppend
  <2> QED
    BY <1>4, <2>3
<1>7. Shape(done)
  BY <1>2, <1>4, <1>5, <1>6 DEF Executable, Shape, TaskStatuses
<1> USE DEF done
<1> QED
  BY <1>2, <1>4, <1>5, <1>6, <1>7

\* The execution to the end, into completion or into a failed review.  Only run
\* simulates a failing review, on a record without reviews and requests.
LEMMA FinishKeeps ==
  ASSUME NEW r, Executable(r), NEW provider \in {"mock", "external"}, NEW fail \in BOOLEAN,
         fail => r.reviews = <<>> /\ pending_actions(r) = {}
  PROVE  RecordInv(FinishExecution(r, provider, fail))
<1> DEFINE done == RunAllTasks(r, provider, fail)
           v    == IF fail THEN "changes_requested" ELSE "approved"
           out  == FinishExecution(r, provider, fail)
<1>1. /\ Shape(done)
      /\ \A d \in Departments : done.tasks[d] = "done"
      /\ done.reviews = Append(r.reviews, v)
      /\ done.reviews[Len(done.reviews)] = v
      /\ \A d \in Departments \ {"review"} : d \in done.artifacts
      /\ done.trend_source # "none"
      /\ done.status = r.status /\ done.history = r.history
      /\ done.approvals = r.approvals /\ done.events = r.events
      /\ done.delivered = r.delivered
  BY RunAllTasksFields
<1>2. "review" \in Unfinished(r)
  BY DEF Executable, Unfinished, Departments
<1>3. out = IF fail
            THEN record_event(Transition(Transition(done, "review_failed"), "revision_requested"),
                              {Event("revision_requested", "review")})
            ELSE Transition([done EXCEPT !.delivered = TRUE], "completed")
  BY <1>1, <1>2 DEF FinishExecution
<1> HIDE DEF done, out
<1>4. /\ r.status = "in_progress" /\ ~r.delivered
      /\ pending_actions(r) \subseteq approved_actions(r)
      /\ TransitionsLegal(r) /\ DecisionsAudited(r)
      /\ r.reviews \in {<<>>, <<"changes_requested">>}
  BY DEF Executable
<1>5. /\ {"review_failed", "revision_requested", "completed"} \subseteq ProjectStatuses
      /\ can_transition("in_progress", "review_failed")
      /\ can_transition("review_failed", "revision_requested")
      /\ can_transition("in_progress", "completed")
  BY DEF can_transition, STATE_TRANSITIONS, ProjectStatuses
<1>6. CASE fail
  <2> DEFINE failed  == Transition(done, "review_failed")
             revised == Transition(failed, "revision_requested")
             noted   == {Event("revision_requested", "review")}
  <2>1. /\ Shape(failed) /\ failed.status = "review_failed" /\ TransitionsLegal(failed)
        /\ failed.tasks = done.tasks /\ failed.approvals = done.approvals
        /\ failed.delivered = done.delivered /\ failed.artifacts = done.artifacts
        /\ failed.trend_source = done.trend_source /\ failed.reviews = done.reviews
        /\ failed.events = done.events
    <3>1. \A step \in done.history : can_transition(step[1], step[2])
      BY <1>1, <1>4 DEF TransitionsLegal
    <3> QED
      BY <1>1, <1>4, <1>5, <3>1, TransitionFields
  <2> HIDE DEF failed
  <2>2. /\ Shape(revised) /\ revised.status = "revision_requested" /\ TransitionsLegal(revised)
        /\ revised.tasks = done.tasks /\ revised.approvals = done.approvals
        /\ revised.delivered = done.delivered /\ revised.artifacts = done.artifacts
        /\ revised.trend_source = done.trend_source /\ revised.reviews = done.reviews
        /\ revised.events = done.events
    <3>1. \A step \in failed.history : can_transition(step[1], step[2])
      BY <2>1 DEF TransitionsLegal
    <3> QED
      BY <2>1, <1>5, <3>1, TransitionFields
  <2>3. out = record_event(revised, noted)
    BY <1>3, <1>6 DEF failed
  <2> HIDE DEF revised
  <2>4. /\ DOMAIN out = DOMAIN revised
        /\ out.events = revised.events \union noted
        /\ out.status = "revision_requested" /\ out.history = revised.history
        /\ out.tasks = done.tasks /\ out.approvals = r.approvals
        /\ out.gate = revised.gate /\ out.delivered = FALSE /\ out.artifacts = done.artifacts
        /\ out.trend_source = done.trend_source /\ out.reviews = done.reviews
    BY <1>1, <1>4, <2>2, <2>3 DEF record_event, Shape
  <2>5. \A e \in noted : e.type = "revision_requested"
    BY DEF Event
  <2> HIDE DEF noted
  <2>6. out.reviews = <<"changes_requested">>
    <3>1. v = "changes_requested" /\ r.reviews = <<>>
      BY <1>6
    <3>2. Append(r.reviews, v) = <<v>>
      BY <3>1, ReviewsAppend
    <3> QED
      BY <1>1, <2>4, <3>1, <3>2
  <2>7. RecordTypeOK(out)
    BY <2>2, <2>4, <2>5, <1>4, <1>1
    DEF Shape, RecordTypeOK, StoredStatuses, ProjectStatuses, TransientStatuses, EventTypes
  <2>8. TasksMatchStatus(out)
    BY <1>1, <2>4, <2>6 DEF TasksMatchStatus, TasksAre, Departments, BeforeTrend
  <2>9. CompletedIsDelivered(out)
    BY <1>1, <2>4, <2>6 DEF CompletedIsDelivered
  <2>10. WaitingHasRequest(out)
    BY <1>6, <2>4 DEF WaitingHasRequest, pending_actions, Having
  <2>11. TransitionsLegal(out)
    BY <2>2, <2>4, LegalBySame
  <2>12. DecisionsAudited(out)
    <3>1. approved_actions(out) = approved_actions(r) /\ rejected_actions(out) = rejected_actions(r)
      BY <2>4 DEF approved_actions, rejected_actions, Having
    <3>2. r.events \subseteq out.events /\ \A e \in out.events \ r.events : e.type \notin Decided
      BY <1>1, <2>2, <2>4, <2>5 DEF Decided
    <3> QED
      BY <1>4, <3>1, <3>2, AuditedByMore
  <2> QED
    BY <2>7, <2>8, <2>9, <2>10, <2>11, <2>12 DEF RecordInv, out
<1>7. CASE ~fail
  <2> DEFINE delivered == [done EXCEPT !.delivered = TRUE]
  <2>1. /\ Shape(delivered) /\ delivered.delivered = TRUE /\ delivered.status = done.status
        /\ delivered.tasks = done.tasks /\ delivered.approvals = done.approvals
        /\ delivered.artifacts = done.artifacts /\ delivered.history = done.history
        /\ delivered.trend_source = done.trend_source /\ delivered.reviews = done.reviews
        /\ delivered.events = done.events
    BY <1>1 DEF Shape
  <2>2. out = Transition(delivered, "completed")
    BY <1>3, <1>7
  <2> HIDE DEF delivered
  <2>3. /\ Shape(out) /\ out.status = "completed" /\ TransitionsLegal(out)
        /\ out.tasks = done.tasks /\ out.approvals = r.approvals /\ out.delivered = TRUE
        /\ out.artifacts = done.artifacts /\ out.trend_source = done.trend_source
        /\ out.reviews = done.reviews /\ out.events = r.events
    <3>1. \A step \in delivered.history : can_transition(step[1], step[2])
      BY <1>1, <1>4, <2>1 DEF TransitionsLegal
    <3> QED
      BY <1>1, <1>4, <1>5, <2>1, <2>2, <3>1, TransitionFields
  <2>4. out.reviews \in {<<"approved">>, <<"changes_requested", "approved">>}
    <3>1. v = "approved"
      BY <1>7
    <3>2. Append(r.reviews, v) \in {<<"approved">>, <<"changes_requested", "approved">>}
      BY <1>4, <3>1, ReviewsAppend
    <3> QED
      BY <1>1, <2>3, <3>2
  <2>5. RecordTypeOK(out)
    BY <2>3 DEF Shape, RecordTypeOK, StoredStatuses, ProjectStatuses, TransientStatuses
  <2>6. TasksMatchStatus(out)
    BY <1>1, <2>3 DEF TasksMatchStatus, TasksAre, Departments, BeforeTrend
  <2>7. CompletedIsDelivered(out)
    BY <1>1, <2>3, <2>4 DEF CompletedIsDelivered
  <2>8. WaitingHasRequest(out)
    BY <1>4, <2>3 DEF WaitingHasRequest, pending_actions, approved_actions, Having
  <2>9. DecisionsAudited(out)
    <3>1. approved_actions(out) = approved_actions(r) /\ rejected_actions(out) = rejected_actions(r)
      BY <2>3 DEF approved_actions, rejected_actions, Having
    <3> QED
      BY <1>4, <2>3, <3>1, AuditedByMore
  <2> QED
    BY <2>3, <2>5, <2>6, <2>7, <2>8, <2>9 DEF RecordInv, out
<1> QED
  BY <1>6, <1>7

\* Whatever execute_pending_tasks saves.
LEMMA ExecuteKeeps ==
  ASSUME NEW r, Executable(r), NEW name \in {"mock", "external", "unsupported"},
         NEW approved, NEW fail \in BOOLEAN,
         fail => r.reviews = <<>> /\ pending_actions(r) = {},
         execute_pending_tasks(r, name, approved, fail).saved
  PROVE  RecordInv(execute_pending_tasks(r, name, approved, fail).rec)
<1> DEFINE provider == get_trend_provider(name)
<1>1. provider \in {"mock", "external", "raises"}
  BY DEF get_trend_provider
<1>2. provider # "raises"
  BY DEF execute_pending_tasks, Unsaved
<1>3. CASE SendGated(r, provider, approved)
  <2>1. execute_pending_tasks(r, name, approved, fail).rec = PauseForApproval(r)
    BY <1>2, <1>3 DEF execute_pending_tasks, Saved
  <2> QED
    BY <2>1, PauseKeeps
<1>4. CASE ~SendGated(r, provider, approved)
  <2>1. execute_pending_tasks(r, name, approved, fail).rec = FinishExecution(r, provider, fail)
    BY <1>2, <1>4 DEF execute_pending_tasks, Saved
  <2> QED
    BY <1>1, <1>2, <2>1, FinishKeeps
<1> QED
  BY <1>3, <1>4

\* More audit events that are no decisions.
LEMMA EventsKeep ==
  ASSUME NEW r, RecordInv(r), NEW es,
         \A e \in es : e.type \in EventTypes \ Decided
  PROVE  RecordInv(record_event(r, es))
<1> DEFINE t == record_event(r, es)
<1>1. /\ RecordTypeOK(r) /\ TasksMatchStatus(r) /\ CompletedIsDelivered(r)
      /\ WaitingHasRequest(r) /\ TransitionsLegal(r) /\ DecisionsAudited(r)
  BY DEF RecordInv
<1>2. /\ DOMAIN t = DOMAIN r /\ t.events = r.events \union es
      /\ t.status = r.status /\ t.tasks = r.tasks /\ t.approvals = r.approvals
      /\ t.gate = r.gate /\ t.delivered = r.delivered /\ t.artifacts = r.artifacts
      /\ t.trend_source = r.trend_source /\ t.reviews = r.reviews /\ t.history = r.history
  BY <1>1 DEF record_event, RecordTypeOK
<1> HIDE DEF t
<1>3. /\ pending_actions(t) = pending_actions(r)
      /\ approved_actions(t) = approved_actions(r)
      /\ rejected_actions(t) = rejected_actions(r)
  BY <1>2 DEF pending_actions, approved_actions, rejected_actions, Having
<1>4. RecordTypeOK(t)
  BY <1>1, <1>2 DEF RecordTypeOK
<1>5. TasksMatchStatus(t)
  BY <1>1, <1>2, <1>3 DEF TasksMatchStatus, TasksAre
<1>6. CompletedIsDelivered(t)
  BY <1>1, <1>2 DEF CompletedIsDelivered
<1>7. WaitingHasRequest(t)
  BY <1>1, <1>2, <1>3 DEF WaitingHasRequest
<1>8. TransitionsLegal(t)
  BY <1>1, <1>2, LegalBySame
<1>9. DecisionsAudited(t)
  <2>1. r.events \subseteq t.events /\ \A e \in t.events \ r.events : e.type \notin Decided
    BY <1>2
  <2> QED
    BY <1>1, <1>3, <2>1, AuditedByMore
<1> USE DEF t
<1> QED
  BY <1>4, <1>5, <1>6, <1>7, <1>8, <1>9 DEF RecordInv

\* Events about the authorization of a decision are no decisions.
LEMMA AuthorizationKeeps ==
  ASSUME NEW r, RecordInv(r), NEW actions, NEW actor, NEW allow
  PROVE  RecordInv(authorize_actions(r, actions, actor, allow))
<1>1. \A e \in AuthorizationEvents(r, actions, actor, allow) : e.type \in EventTypes \ Decided
  BY DEF AuthorizationEvents, ActorEvent, EventTypes, Decided
<1> QED
  BY <1>1, EventsKeep DEF authorize_actions

\* The requests after a decision on those of `actions`.
LEMMA DecideFields ==
  ASSUME NEW r, NEW t, NEW actions, NEW decision \in {"approved", "rejected"},
         r.approvals \subseteq ActionTypes \X {"pending", "approved", "rejected"},
         t.approvals = Decide(r.approvals, actions, decision)
  PROVE  /\ t.approvals \subseteq ActionTypes \X {"pending", "approved", "rejected"}
         /\ pending_actions(t) = pending_actions(r) \ actions
         /\ decision = "approved" =>
              /\ approved_actions(t) = approved_actions(r) \union (actions \intersect pending_actions(r))
              /\ rejected_actions(t) = rejected_actions(r)
         /\ decision = "rejected" =>
              /\ rejected_actions(t) = rejected_actions(r) \union (actions \intersect pending_actions(r))
              /\ approved_actions(t) = approved_actions(r)
<1> DEFINE decided == {a \in actions : <<a, "pending">> \in r.approvals}
<1>1. t.approvals = (r.approvals \ {<<a, "pending">> : a \in decided})
                       \union {<<a, decision>> : a \in decided}
  BY DEF Decide
<1>2. decided = actions \intersect pending_actions(r)
  BY DEF pending_actions, Having
<1>3. decided \subseteq ActionTypes
  BY <1>2 DEF pending_actions, Having
<1>4. \A a \in ActionTypes :
        /\ <<a, "pending">> \in t.approvals <=> <<a, "pending">> \in r.approvals /\ a \notin decided
        /\ <<a, decision>> \in t.approvals <=> <<a, decision>> \in r.approvals \/ a \in decided
        /\ \A other \in {"approved", "rejected"} \ {decision} :
             <<a, other>> \in t.approvals <=> <<a, other>> \in r.approvals
  BY <1>1
<1> HIDE DEF decided
<1>5. t.approvals \subseteq ActionTypes \X {"pending", "approved", "rejected"}
  <2> SUFFICES ASSUME NEW x \in t.approvals
               PROVE  x \in ActionTypes \X {"pending", "approved", "rejected"}
    OBVIOUS
  <2>1. CASE x \in r.approvals
    BY <2>1
  <2>2. CASE \E a \in decided : x = <<a, decision>>
    BY <1>3, <2>2
  <2> QED
    BY <1>1, <2>1, <2>2
<1>6. pending_actions(t) = pending_actions(r) \ actions
  BY <1>2, <1>4 DEF pending_actions, Having
<1>7. decision = "approved" =>
        /\ approved_actions(t) = approved_actions(r) \union decided
        /\ rejected_actions(t) = rejected_actions(r)
  BY <1>3, <1>4 DEF approved_actions, rejected_actions, Having
<1>8. decision = "rejected" =>
        /\ rejected_actions(t) = rejected_actions(r) \union decided
        /\ approved_actions(t) = approved_actions(r)
  BY <1>3, <1>4 DEF approved_actions, rejected_actions, Having
<1> QED
  BY <1>2, <1>5, <1>6, <1>7, <1>8

\* When no action is denied, each of them has its authorization on record.
LEMMA AllGranted ==
  ASSUME NEW r, NEW actions, NEW actor, NEW allow,
         DeniedActions(r, actions, actor, allow) = {}
  PROVE  \A a \in actions :
           ActorEvent("authorization_granted", a, actor)
             \in AuthorizationEvents(r, actions, actor, allow)
<1>1. ExaminedActions(r, actions, actor, allow) = actions
  BY DEF ExaminedActions
<1> QED
  BY <1>1 DEF AuthorizationEvents

\* t is r with a decision of the kind `type` on the actions of `decided`, the events of
\* their authorization and of the decision.
DecidedWith(r, t, type, decided, actor, granted, decisions) ==
  /\ DecisionsAudited(r)
  /\ type \in Decided
  /\ \A e \in granted : e.type \notin Decided
  /\ \A a \in decided : ActorEvent("authorization_granted", a, actor) \in granted
  /\ \A e : e \in decisions <=> \E a \in decided : e = ActorEvent(type, a, actor)
  /\ t.events = (r.events \union granted) \union decisions
  /\ type = "approval_approved" =>
       /\ approved_actions(t) = approved_actions(r) \union decided
       /\ rejected_actions(t) = rejected_actions(r)
  /\ type = "approval_rejected" =>
       /\ rejected_actions(t) = rejected_actions(r) \union decided
       /\ approved_actions(t) = approved_actions(r)

\* Decisions that are recorded with their authorization stay audited.
LEMMA AuditedDecisions ==
  ASSUME NEW r, NEW t, NEW type, NEW decided, NEW actor, NEW granted, NEW decisions,
         DecidedWith(r, t, type, decided, actor, granted, decisions)
  PROVE  DecisionsAudited(t)
<1> USE DEF DecidedWith
<1>1. \A a \in decided : \E e \in t.events : e.type = type /\ e.subject = a
  <2> TAKE a \in decided
  <2> WITNESS ActorEvent(type, a, actor) \in t.events
  <2> QED
    BY DEF ActorEvent
<1>2. \A a \in approved_actions(t) :
        \E e \in t.events : e.type = "approval_approved" /\ e.subject = a
  BY <1>1 DEF DecisionsAudited, Decided
<1>3. \A a \in rejected_actions(t) :
        \E e \in t.events : e.type = "approval_rejected" /\ e.subject = a
  BY <1>1 DEF DecisionsAudited, Decided
<1>4. ASSUME NEW e \in t.events, e.type \in Decided
      PROVE  /\ ActorEvent("authorization_granted", e.subject, e.actor) \in t.events
             /\ e.type = "approval_approved" => e.subject \in approved_actions(t)
             /\ e.type = "approval_rejected" => e.subject \in rejected_actions(t)
  <2>1. CASE e \in r.events
    BY <1>4, <2>1 DEF DecisionsAudited, Decided
  <2>2. CASE e \in decisions
    <3>1. PICK a \in decided : e = ActorEvent(type, a, actor)
      BY <2>2
    <3>2. e.type = type /\ e.subject = a /\ e.actor = actor
      BY <3>1 DEF ActorEvent
    <3> QED
      BY <3>1, <3>2 DEF Decided
  <2> QED
    BY <1>4, <2>1, <2>2
<1>5. \A e \in t.events :
        /\ e.type \in Decided =>
             ActorEvent("authorization_granted", e.subject, e.actor) \in t.events
        /\ e.type = "approval_approved" => e.subject \in approved_actions(t)
        /\ e.type = "approval_rejected" => e.subject \in rejected_actions(t)
  BY <1>4 DEF Decided
<1> QED
  BY <1>2, <1>3, <1>5 DEF DecisionsAudited

\* The record after the requests of `actions` were approved.
LEMMA ApproveFields ==
  ASSUME NEW r, RecordInv(r), r.status = "waiting_approval",
         NEW actions, NEW actor, NEW allow,
         DeniedActions(r, actions, actor, allow) = {}
  PROVE  LET t == ApproveRequests(authorize_actions(r, actions, actor, allow), actions, actor)
         IN /\ RecordTypeOK(t)
            /\ t.status = r.status /\ t.tasks = r.tasks /\ t.delivered = r.delivered
            /\ t.artifacts = r.artifacts /\ t.trend_source = r.trend_source
            /\ t.reviews = r.reviews /\ t.history = r.history
            /\ t.gate # "absent"
            /\ pending_actions(t) = pending_actions(r) \ actions
            /\ approved_actions(t) =
                 approved_actions(r) \union (actions \intersect pending_actions(r))
            /\ rejected_actions(t) = rejected_actions(r)
            /\ DecisionsAudited(t)
<1> DEFINE granted   == AuthorizationEvents(r, actions, actor, allow)
           m         == authorize_actions(r, actions, actor, allow)
           t         == ApproveRequests(m, actions, actor)
           decided   == actions \intersect pending_actions(r)
           decisions == {ActorEvent("approval_approved", a, actor) : a \in decided}
<1>1. /\ RecordTypeOK(r) /\ WaitingHasRequest(r) /\ DecisionsAudited(r)
  BY DEF RecordInv
<1>2. /\ DOMAIN m = DOMAIN r /\ m.events = r.events \union granted
      /\ m.status = r.status /\ m.tasks = r.tasks /\ m.approvals = r.approvals
      /\ m.gate = r.gate /\ m.delivered = r.delivered /\ m.artifacts = r.artifacts
      /\ m.trend_source = r.trend_source /\ m.reviews = r.reviews /\ m.history = r.history
  BY <1>1 DEF authorize_actions, record_event, RecordTypeOK
<1>3. pending_actions(m) = pending_actions(r)
  BY <1>2 DEF pending_actions, Having
<1>4. \A e \in granted : e.type \in EventTypes \ Decided
  BY DEF AuthorizationEvents, ActorEvent, EventTypes, Decided
<1>5. \A a \in decided : ActorEvent("authorization_granted", a, actor) \in granted
  BY AllGranted
<1> HIDE DEF m, granted
<1>6. /\ DOMAIN t = DOMAIN r
      /\ t.approvals = Decide(r.approvals, actions, "approved")
      /\ t.gate = IF decided # {} /\ r.gate # "absent" THEN "approved" ELSE r.gate
      /\ t.events = (r.events \union granted) \union decisions
      /\ t.status = r.status /\ t.tasks = r.tasks /\ t.delivered = r.delivered
      /\ t.artifacts = r.artifacts /\ t.trend_source = r.trend_source
      /\ t.reviews = r.reviews /\ t.history = r.history
  BY <1>1, <1>2, <1>3 DEF ApproveRequests, RecordTypeOK
<1> HIDE DEF t
<1>7. r.approvals \subseteq ActionTypes \X {"pending", "approved", "rejected"}
  BY <1>1 DEF RecordTypeOK
<1>8. /\ t.approvals \subseteq ActionTypes \X {"pending", "approved", "rejected"}
      /\ pending_actions(t) = pending_actions(r) \ actions
      /\ approved_actions(t) = approved_actions(r) \union decided
      /\ rejected_actions(t) = rejected_actions(r)
  <2>1. t.approvals = Decide(r.approvals, actions, "approved")
    BY <1>6
  <2>2. "approved" \in {"approved", "rejected"}
    OBVIOUS
  <2> HIDE DEF Decide, pending_actions
  <2> QED
    BY <1>7, <2>1, <2>2, DecideFields
<1>9. t.gate \in {"open", "approved"}
  BY <1>1, <1>6 DEF WaitingHasRequest, RecordTypeOK
<1>10. \A e \in decisions : e.type = "approval_approved"
  BY DEF ActorEvent
<1>11. DecisionsAudited(t)
  <2>1. "approval_approved" \in Decided
    BY DEF Decided
  <2>2. \A e \in granted : e.type \notin Decided
    BY <1>4
  <2>3. \A e : e \in decisions <=>
               \E a \in decided : e = ActorEvent("approval_approved", a, actor)
    OBVIOUS
  <2> HIDE DEF decided, decisions
  <2>4. DecidedWith(r, t, "approval_approved", decided, actor, granted, decisions)
    BY <1>1, <1>5, <1>6, <1>8, <2>1, <2>2, <2>3 DEF DecidedWith
  <2> QED
    BY <2>4, AuditedDecisions
<1>12. RecordTypeOK(t)
  <2>1. \A e \in t.events : e.type \in EventTypes
    BY <1>1, <1>4, <1>6, <1>10 DEF RecordTypeOK, EventTypes
  <2> QED
    BY <1>1, <1>6, <1>8, <1>9, <2>1 DEF RecordTypeOK
<1> USE DEF t, m
<1> QED
  BY <1>6, <1>8, <1>9, <1>11, <1>12

\* The record after every pending request was rejected.
LEMMA RejectFields ==
  ASSUME NEW r, RecordInv(r), NEW actor, NEW allow,
         DeniedActions(r, pending_actions(r), actor, allow) = {}
  PROVE  LET t == RejectRequests(authorize_actions(r, pending_actions(r), actor, allow), actor)
         IN /\ RecordTypeOK(t)
            /\ t.status = r.status /\ t.tasks = r.tasks /\ t.delivered = r.delivered
            /\ t.artifacts = r.artifacts /\ t.trend_source = r.trend_source
            /\ t.reviews = r.reviews /\ t.history = r.history
            /\ pending_actions(t) = {}
            /\ rejected_actions(t) = rejected_actions(r) \union pending_actions(r)
            /\ approved_actions(t) = approved_actions(r)
            /\ DecisionsAudited(t)
<1> DEFINE pending   == pending_actions(r)
           granted   == AuthorizationEvents(r, pending, actor, allow)
           m         == authorize_actions(r, pending, actor, allow)
           t         == RejectRequests(m, actor)
           decisions == {ActorEvent("approval_rejected", a, actor) : a \in pending}
<1>1. /\ RecordTypeOK(r) /\ DecisionsAudited(r)
  BY DEF RecordInv
<1>2. /\ DOMAIN m = DOMAIN r /\ m.events = r.events \union granted
      /\ m.status = r.status /\ m.tasks = r.tasks /\ m.approvals = r.approvals
      /\ m.gate = r.gate /\ m.delivered = r.delivered /\ m.artifacts = r.artifacts
      /\ m.trend_source = r.trend_source /\ m.reviews = r.reviews /\ m.history = r.history
  BY <1>1 DEF authorize_actions, record_event, RecordTypeOK
<1>3. pending_actions(m) = pending
  BY <1>2 DEF pending_actions, Having
<1>4. \A e \in granted : e.type \in EventTypes \ Decided
  BY DEF AuthorizationEvents, ActorEvent, EventTypes, Decided
<1>5. \A a \in pending : ActorEvent("authorization_granted", a, actor) \in granted
  BY AllGranted
<1> HIDE DEF m, granted
<1>6. /\ DOMAIN t = DOMAIN r
      /\ t.approvals = Decide(r.approvals, pending, "rejected")
      /\ t.gate = IF r.gate # "absent" THEN "open" ELSE r.gate
      /\ t.events = (r.events \union granted) \union decisions
      /\ t.status = r.status /\ t.tasks = r.tasks /\ t.delivered = r.delivered
      /\ t.artifacts = r.artifacts /\ t.trend_source = r.trend_source
      /\ t.reviews = r.reviews /\ t.history = r.history
  BY <1>1, <1>2, <1>3 DEF RejectRequests, RecordTypeOK
<1> HIDE DEF t
<1>7. r.approvals \subseteq ActionTypes \X {"pending", "approved", "rejected"}
  BY <1>1 DEF RecordTypeOK
<1>8. /\ t.approvals \subseteq ActionTypes \X {"pending", "approved", "rejected"}
      /\ pending_actions(t) = {}
      /\ rejected_actions(t) = rejected_actions(r) \union pending
      /\ approved_actions(t) = approved_actions(r)
  <2>1. t.approvals = Decide(r.approvals, pending, "rejected")
    BY <1>6
  <2>2. "rejected" \in {"approved", "rejected"}
    OBVIOUS
  <2> HIDE DEF pending
  <2>3. /\ t.approvals \subseteq ActionTypes \X {"pending", "approved", "rejected"}
        /\ pending_actions(t) = pending_actions(r) \ pending
        /\ rejected_actions(t) = rejected_actions(r) \union (pending \intersect pending_actions(r))
        /\ approved_actions(t) = approved_actions(r)
    BY <1>7, <2>1, <2>2, DecideFields
  <2> QED
    BY <2>3 DEF pending
<1>9. \A e \in decisions : e.type = "approval_rejected"
  BY DEF ActorEvent
<1>10. DecisionsAudited(t)
  <2>1. "approval_rejected" \in Decided
    BY DEF Decided
  <2>2. \A e \in granted : e.type \notin Decided
    BY <1>4
  <2>3. \A e : e \in decisions <=>
               \E a \in pending : e = ActorEvent("approval_rejected", a, actor)
    OBVIOUS
  <2> HIDE DEF pending, decisions
  <2>4. DecidedWith(r, t, "approval_rejected", pending, actor, granted, decisions)
    BY <1>1, <1>5, <1>6, <1>8, <2>1, <2>2, <2>3 DEF DecidedWith
  <2> QED
    BY <2>4, AuditedDecisions
<1>11. RecordTypeOK(t)
  <2>1. \A e \in t.events : e.type \in EventTypes
    BY <1>1, <1>4, <1>6, <1>9 DEF RecordTypeOK, EventTypes
  <2>2. t.gate \in {"absent", "open", "approved"}
    BY <1>1, <1>6 DEF RecordTypeOK
  <2> QED
    BY <1>1, <1>6, <1>8, <2>1, <2>2 DEF RecordTypeOK
<1> USE DEF t, m
<1> QED
  BY <1>6, <1>8, <1>10, <1>11

\* --------------------------------------------------------------- the handlers

Names == {"mock", "external", "unsupported"}

\* The record whose tasks run executes.
LEMMA StartedIsExecutable ==
  ASSUME NEW policy
  PROVE  LET started == Transition(Transition(Transition(NewRecord(policy), "intake_pending"),
                                              "ready_for_planning"), "in_progress")
         IN /\ Executable(started)
            /\ pending_actions(started) = {} /\ started.reviews = <<>>
<1> DEFINE new     == NewRecord(policy)
           taken   == Transition(new, "intake_pending")
           planned == Transition(taken, "ready_for_planning")
           started == Transition(planned, "in_progress")
<1>1. /\ Shape(new) /\ new.status = "draft" /\ new.history = {} /\ new.approvals = {}
      /\ new.events = {} /\ new.reviews = <<>> /\ new.delivered = FALSE
      /\ \A d \in Departments : new.tasks[d] = "pending"
  <2>1. <<>> \in Seq({"approved", "changes_requested"})
    OBVIOUS
  <2> QED
    BY <2>1 DEF NewRecord, Shape, ProjectStatuses, TaskStatuses
<1> HIDE DEF new
<1>2. /\ {"intake_pending", "ready_for_planning", "in_progress"} \subseteq ProjectStatuses
      /\ can_transition("draft", "intake_pending")
      /\ can_transition("intake_pending", "ready_for_planning")
      /\ can_transition("ready_for_planning", "in_progress")
  BY DEF can_transition, STATE_TRANSITIONS, ProjectStatuses
<1>3. /\ Shape(taken) /\ taken.status = "intake_pending" /\ TransitionsLegal(taken)
      /\ taken.tasks = new.tasks /\ taken.approvals = new.approvals
      /\ taken.delivered = new.delivered /\ taken.reviews = new.reviews
      /\ taken.events = new.events
  BY <1>1, <1>2, TransitionFields
<1> HIDE DEF taken
<1>4. /\ Shape(planned) /\ planned.status = "ready_for_planning" /\ TransitionsLegal(planned)
      /\ planned.tasks = new.tasks /\ planned.approvals = new.approvals
      /\ planned.delivered = new.delivered /\ planned.reviews = new.reviews
      /\ planned.events = new.events
  <2>1. \A step \in taken.history : can_transition(step[1], step[2])
    BY <1>3 DEF TransitionsLegal
  <2> QED
    BY <1>2, <1>3, <2>1, TransitionFields
<1> HIDE DEF planned
<1>5. /\ Shape(started) /\ started.status = "in_progress" /\ TransitionsLegal(started)
      /\ started.tasks = new.tasks /\ started.approvals = new.approvals
      /\ started.delivered = new.delivered /\ started.reviews = new.reviews
      /\ started.events = new.events
  <2>1. \A step \in planned.history : can_transition(step[1], step[2])
    BY <1>4 DEF TransitionsLegal
  <2> QED
    BY <1>2, <1>4, <2>1, TransitionFields
<1> HIDE DEF started
<1>6. /\ pending_actions(started) = {} /\ approved_actions(started) = {}
      /\ rejected_actions(started) = {}
  BY <1>1, <1>5 DEF pending_actions, approved_actions, rejected_actions, Having
<1>7. DecisionsAudited(started)
  BY <1>1, <1>5, <1>6 DEF DecisionsAudited
<1>8. Executable(started)
  BY <1>1, <1>5, <1>6, <1>7 DEF Executable, Departments
<1> USE DEF started, planned, taken, new
<1> QED
  BY <1>1, <1>5, <1>6, <1>8

\* The first execution of a new project.
LEMMA RunKeeps ==
  ASSUME NEW q, q.provider \in Names, q.simulate_review_failure \in BOOLEAN, run(q).saved
  PROVE  RecordInv(run(q).rec)
<1> DEFINE started == Transition(Transition(Transition(NewRecord(q.policy), "intake_pending"),
                                            "ready_for_planning"), "in_progress")
<1>1. run(q) = execute_pending_tasks(started, q.provider, q.actions, q.simulate_review_failure)
  BY DEF run, Unsaved
<1>2. Executable(started) /\ pending_actions(started) = {} /\ started.reviews = <<>>
  BY StartedIsExecutable
<1> HIDE DEF started
<1> QED
  BY <1>1, <1>2, ExecuteKeeps DEF Names

\* The events around authentication.
LEMMA AuthenticationKeeps ==
  ASSUME NEW r, RecordInv(r)
  PROVE  /\ RecordInv(record_authentication_success(r).rec)
         /\ RecordInv(record_authentication_failure(r).rec)
<1>1. /\ \A e \in {Event("authentication_succeeded", ""), Event("actor_resolved", "")} :
             e.type \in EventTypes \ Decided
      /\ \A e \in {Event("authentication_failed", "")} : e.type \in EventTypes \ Decided
  BY DEF Event, EventTypes, Decided
<1> QED
  BY <1>1, EventsKeep DEF record_authentication_success, record_authentication_failure, Saved

\* The last steps before an execution that continues a project: an event, and the
\* change to in_progress.
LEMMA Restarted ==
  ASSUME NEW m, Shape(m), TransitionsLegal(m), can_transition(m.status, "in_progress"),
         \A d \in Departments : m.tasks[d] \in {"pending", "revision_requested", "done"},
         m.tasks["review"] = "pending",
         m.tasks["research"] = "done",
         ~m.delivered,
         \A d \in Departments \ {"review"} : m.tasks[d] = "done" => d \in m.artifacts,
         m.tasks["trend"] = "done" => m.trend_source # "none",
         m.reviews \in {<<>>, <<"changes_requested">>},
         pending_actions(m) \subseteq approved_actions(m),
         DecisionsAudited(m)
  PROVE  Executable(Transition(m, "in_progress"))
<1> DEFINE t == Transition(m, "in_progress")
<1>1. /\ Shape(t) /\ t.status = "in_progress" /\ TransitionsLegal(t)
      /\ t.tasks = m.tasks /\ t.approvals = m.approvals /\ t.delivered = m.delivered
      /\ t.artifacts = m.artifacts /\ t.trend_source = m.trend_source
      /\ t.reviews = m.reviews /\ t.events = m.events
  <2>1. "in_progress" \in ProjectStatuses
    BY DEF ProjectStatuses
  <2>2. \A step \in m.history : can_transition(step[1], step[2])
    BY DEF TransitionsLegal
  <2> QED
    BY <2>1, <2>2, TransitionFields
<1> HIDE DEF t
<1>2. /\ pending_actions(t) = pending_actions(m)
      /\ approved_actions(t) = approved_actions(m)
      /\ rejected_actions(t) = rejected_actions(m)
  BY <1>1 DEF pending_actions, approved_actions, rejected_actions, Having
<1>3. DecisionsAudited(t)
  BY <1>1, <1>2, AuditedByMore
<1> QED
  BY <1>1, <1>2, <1>3 DEF Executable, t

\* The record that an approval of everything pending executes.
LEMMA ApprovalExecutes ==
  ASSUME NEW r, RecordInv(r), r.status = "waiting_approval",
         NEW actions, NEW actor, NEW allow, DeniedActions(r, actions, actor, allow) = {},
         pending_actions(r) \subseteq actions \union approved_actions(r)
  PROVE  LET a == ApproveRequests(authorize_actions(r, actions, actor, allow), actions, actor)
         IN Executable(Transition(record_event(ReleaseWaiting(a, "pending"),
                                    {Event("resume_triggered", "approval_resume")}),
                                  "in_progress"))
<1> DEFINE a        == ApproveRequests(authorize_actions(r, actions, actor, allow), actions, actor)
           released == ReleaseWaiting(a, "pending")
           resuming == {Event("resume_triggered", "approval_resume")}
           m        == record_event(released, resuming)
<1>1. /\ TasksMatchStatus(r) /\ CompletedIsDelivered(r) /\ TransitionsLegal(r)
  BY DEF RecordInv
<1>2. /\ RecordTypeOK(a)
      /\ a.status = r.status /\ a.tasks = r.tasks /\ a.delivered = r.delivered
      /\ a.artifacts = r.artifacts /\ a.trend_source = r.trend_source
      /\ a.reviews = r.reviews /\ a.history = r.history
      /\ pending_actions(a) = pending_actions(r) \ actions
      /\ approved_actions(a) =
           approved_actions(r) \union (actions \intersect pending_actions(r))
      /\ DecisionsAudited(a)
  BY ApproveFields
<1>3. TransitionsLegal(a)
  BY <1>1, <1>2, LegalBySame
<1> HIDE DEF a
<1>4. /\ DOMAIN released = DOMAIN a
      /\ released.tasks = [d \in Departments |->
           IF a.tasks[d] = "waiting_approval" THEN "pending" ELSE a.tasks[d]]
      /\ released.status = a.status /\ released.approvals = a.approvals
      /\ released.gate = a.gate /\ released.delivered = a.delivered
      /\ released.artifacts = a.artifacts /\ released.trend_source = a.trend_source
      /\ released.reviews = a.reviews /\ released.history = a.history
      /\ released.events = a.events
  BY <1>2 DEF ReleaseWaiting, RecordTypeOK
<1> HIDE DEF released, resuming
<1>5. /\ DOMAIN m = DOMAIN a /\ m.tasks = released.tasks
      /\ m.status = a.status /\ m.approvals = a.approvals
      /\ m.gate = a.gate /\ m.delivered = a.delivered
      /\ m.artifacts = a.artifacts /\ m.trend_source = a.trend_source
      /\ m.reviews = a.reviews /\ m.history = a.history
      /\ m.events = a.events \union resuming
  BY <1>2, <1>4 DEF record_event, RecordTypeOK
<1>6. \A e \in resuming : e.type = "resume_triggered"
  BY DEF resuming, Event
<1> HIDE DEF m
<1>7. TasksAre(r, "done", "waiting_approval", "pending")
  BY <1>1 DEF TasksMatchStatus
<1>8. /\ \A d \in BeforeTrend : m.tasks[d] = "done"
      /\ m.tasks["trend"] = "pending" /\ m.tasks["review"] = "pending"
      /\ m.tasks \in [Departments -> TaskStatuses]
  BY <1>2, <1>4, <1>5, <1>7
  DEF TasksAre, Departments, BeforeTrend, RecordTypeOK, TaskStatuses
<1>9. /\ pending_actions(m) = pending_actions(a)
      /\ approved_actions(m) = approved_actions(a)
      /\ rejected_actions(m) = rejected_actions(a)
  BY <1>5 DEF pending_actions, approved_actions, rejected_actions, Having
<1>10. pending_actions(m) \subseteq approved_actions(m)
  BY <1>2, <1>9
<1>11. Shape(m)
  <2>1. \A e \in m.events : e.type \in EventTypes
    BY <1>2, <1>5, <1>6 DEF RecordTypeOK, EventTypes
  <2> QED
    BY <1>2, <1>5, <1>8, <2>1 DEF RecordTypeOK, Shape, StoredStatuses
<1>12. DecisionsAudited(m)
  BY <1>2, <1>5, <1>6, <1>9, AuditedByMore DEF Decided
<1>13. TransitionsLegal(m)
  BY <1>3, <1>5, LegalBySame
<1>14. can_transition(m.status, "in_progress")
  BY <1>2, <1>5 DEF can_transition, STATE_TRANSITIONS, ProjectStatuses
<1>15. /\ \A d \in Departments : m.tasks[d] \in {"pending", "revision_requested", "done"}
       /\ m.tasks["research"] = "done" /\ m.tasks["trend"] # "done"
       /\ \A d \in Departments \ {"review"} : m.tasks[d] = "done" => d \in BeforeTrend
  BY <1>8 DEF Departments, BeforeTrend
<1>16. /\ ~m.delivered /\ m.reviews \in {<<>>, <<"changes_requested">>}
       /\ BeforeTrend \subseteq m.artifacts
  BY <1>1, <1>2, <1>5, <1>7 DEF CompletedIsDelivered, TasksAre, BeforeTrend, Departments
<1>17. \A d \in Departments \ {"review"} : m.tasks[d] = "done" => d \in m.artifacts
  BY <1>15, <1>16
<1>18. Executable(Transition(m, "in_progress"))
  BY <1>8, <1>10, <1>11, <1>12, <1>13, <1>14, <1>15, <1>16, <1>17, Restarted
<1> QED
  BY <1>18 DEF m, released, resuming, a

\* An approval, whether it is denied, partial or continues the project.
LEMMA ApprovalKeeps ==
  ASSUME NEW r, RecordInv(r), NEW q, q.provider \in Names, resume_from_approval(r, q).saved
  PROVE  RecordInv(resume_from_approval(r, q).rec)
<1> DEFINE actions    == q.actions \ approved_actions(r)
           missing    == pending_actions(r) \ q.actions
           authorized == authorize_actions(r, actions, q.actor, q.allow)
           a          == ApproveRequests(authorized, actions, q.actor)
           released   == ReleaseWaiting(a, "pending")
           resuming   == {Event("resume_triggered", "approval_resume")}
           m          == record_event(released, resuming)
           out        == resume_from_approval(r, q)
           partial    == {Event("resume_triggered", "approval_resume_partial")}
<1>1. ApprovalResumable(r, q) /\ ~idempotent_resume_from_approval(r, q)
  BY DEF resume_from_approval, Unsaved
<1>2. /\ RecordTypeOK(r) /\ TasksMatchStatus(r) /\ CompletedIsDelivered(r)
      /\ WaitingHasRequest(r) /\ TransitionsLegal(r) /\ r.status = "waiting_approval"
  BY <1>1 DEF RecordInv, ApprovalResumable
<1>3. CASE DeniedActions(r, actions, q.actor, q.allow) # {}
  <2>1. out.rec = authorized
    BY <1>1, <1>3 DEF resume_from_approval, Saved
  <2> QED
    BY <2>1, AuthorizationKeeps
<1>4. CASE DeniedActions(r, actions, q.actor, q.allow) = {}
  <2> HIDE DEF actions
  <2>1. /\ RecordTypeOK(a)
        /\ a.status = r.status /\ a.tasks = r.tasks /\ a.delivered = r.delivered
        /\ a.artifacts = r.artifacts /\ a.trend_source = r.trend_source
        /\ a.reviews = r.reviews /\ a.history = r.history
        /\ a.gate # "absent"
        /\ pending_actions(a) = pending_actions(r) \ actions
        /\ approved_actions(a) =
             approved_actions(r) \union (actions \intersect pending_actions(r))
        /\ rejected_actions(a) = rejected_actions(r)
        /\ DecisionsAudited(a)
    BY <1>2, <1>4, ApproveFields
  <2>2. TransitionsLegal(a)
    BY <1>2, <2>1, LegalBySame
  <2>3. CASE missing # {}
    <3>1. out.rec = record_event(a, partial)
      BY <1>1, <1>4, <2>3 DEF resume_from_approval, Saved, Unsaved, actions
    <3> HIDE DEF a, partial
    <3>2. TasksMatchStatus(a)
      BY <1>2, <2>1 DEF TasksMatchStatus, TasksAre
    <3>3. CompletedIsDelivered(a)
      BY <1>2, <2>1 DEF CompletedIsDelivered
    <3>4. WaitingHasRequest(a)
      BY <1>2, <2>1, <2>3 DEF WaitingHasRequest, actions
    <3>5. RecordInv(a)
      BY <2>1, <2>2, <3>2, <3>3, <3>4 DEF RecordInv
    <3>6. \A e \in partial : e.type \in EventTypes \ Decided
      BY DEF partial, Event, EventTypes, Decided
    <3> QED
      BY <3>1, <3>5, <3>6, EventsKeep
  <2>4. CASE missing = {}
    <3>1. out = execute_pending_tasks(Transition(m, "in_progress"), q.provider,
                                      approved_actions(r) \union actions, FALSE)
      BY <1>1, <1>4, <2>4 DEF resume_from_approval, actions
    <3>2. pending_actions(r) \subseteq actions \union approved_actions(r)
      BY <2>4 DEF actions
    <3>3. Executable(Transition(m, "in_progress"))
      BY <1>2, <1>4, <3>2, ApprovalExecutes
    <3> HIDE DEF m
    <3> QED
      BY <3>1, <3>3, ExecuteKeeps DEF Names, out
  <2> QED
    BY <2>3, <2>4
<1> QED
  BY <1>3, <1>4

\* A rejection, denied or not.
LEMMA RejectionKeeps ==
  ASSUME NEW r, RecordInv(r), NEW q, reject_approval(r, q).saved
  PROVE  RecordInv(reject_approval(r, q).rec)
<1> DEFINE pending    == pending_actions(r)
           authorized == authorize_actions(r, pending, q.actor, q.allow)
           a          == RejectRequests(authorized, q.actor)
           m          == ReleaseWaiting(a, "revision_requested")
           t          == Transition(m, "revision_requested")
           out        == reject_approval(r, q)
<1>1. q.reason_given /\ ~idempotent_reject(r, q) /\ Rejectable(r, q)
  BY DEF reject_approval, Unsaved
<1>2. /\ RecordTypeOK(r) /\ TasksMatchStatus(r) /\ CompletedIsDelivered(r)
      /\ TransitionsLegal(r) /\ r.status = "waiting_approval" /\ pending # {}
  BY <1>1 DEF RecordInv, Rejectable
<1>3. CASE DeniedActions(r, pending, q.actor, q.allow) # {}
  <2>1. out.rec = authorized
    BY <1>1, <1>3 DEF reject_approval, Saved
  <2> QED
    BY <2>1, AuthorizationKeeps
<1>4. CASE DeniedActions(r, pending, q.actor, q.allow) = {}
  <2>1. /\ RecordTypeOK(a)
        /\ a.status = r.status /\ a.tasks = r.tasks /\ a.delivered = r.delivered
        /\ a.artifacts = r.artifacts /\ a.trend_source = r.trend_source
        /\ a.reviews = r.reviews /\ a.history = r.history
        /\ pending_actions(a) = {}
        /\ rejected_actions(a) = rejected_actions(r) \union pending_actions(r)
        /\ DecisionsAudited(a)
    BY <1>4, RejectFields
  <2>2. out.rec = t
    BY <1>1, <1>4 DEF reject_approval, Saved
  <2> HIDE DEF a
  <2>3. /\ DOMAIN m = DOMAIN a
        /\ m.tasks = [d \in Departments |->
             IF a.tasks[d] = "waiting_approval" THEN "revision_requested" ELSE a.tasks[d]]
        /\ m.status = a.status /\ m.approvals = a.approvals
        /\ m.gate = a.gate /\ m.delivered = a.delivered
        /\ m.artifacts = a.artifacts /\ m.trend_source = a.trend_source
        /\ m.reviews = a.reviews /\ m.history = a.history /\ m.events = a.events
    BY <2>1 DEF ReleaseWaiting, RecordTypeOK
  <2> HIDE DEF m
  <2>4. TasksAre(r, "done", "waiting_approval", "pending")
    BY <1>2 DEF TasksMatchStatus
  <2>5. /\ \A d \in BeforeTrend : m.tasks[d] = "done"
        /\ m.tasks["trend"] = "revision_requested" /\ m.tasks["review"] = "pending"
        /\ m.tasks \in [Departments -> TaskStatuses]
    BY <2>1, <2>3, <2>4 DEF TasksAre, Departments, BeforeTrend, RecordTypeOK, TaskStatuses
  <2>6. Shape(m)
    BY <2>1, <2>3, <2>5 DEF RecordTypeOK, Shape, StoredStatuses
  <2>7. /\ Shape(t) /\ t.status = "revision_requested" /\ TransitionsLegal(t)
        /\ t.tasks = m.tasks /\ t.approvals = a.approvals /\ t.delivered = a.delivered
        /\ t.artifacts = a.artifacts /\ t.trend_source = a.trend_source
        /\ t.reviews = a.reviews /\ t.events = a.events
    <3>1. \A step \in m.history : can_transition(step[1], step[2])
      BY <1>2, <2>1, <2>3 DEF TransitionsLegal
    <3>2. "revision_requested" \in ProjectStatuses /\ can_transition(m.status, "revision_requested")
      BY <1>2, <2>1, <2>3 DEF can_transition, STATE_TRANSITIONS, ProjectStatuses
    <3> QED
      BY <2>3, <2>6, <3>1, <3>2, TransitionFields
  <2> HIDE DEF t
  <2>8. /\ pending_actions(t) = {}
        /\ approved_actions(t) = approved_actions(a)
        /\ rejected_actions(t) = rejected_actions(a)
        /\ rejected_actions(t) # {}
    BY <1>2, <2>1, <2>7 DEF pending_actions, approved_actions, rejected_actions, Having
  <2>9. RecordTypeOK(t)
    BY <2>7 DEF Shape, RecordTypeOK, StoredStatuses, TransientStatuses
  <2>10. TasksMatchStatus(t)
    BY <2>5, <2>7, <2>8 DEF TasksMatchStatus, TasksAre
  <2>11. CompletedIsDelivered(t)
    <3>1. \A d \in BeforeTrend : d \in t.artifacts
      BY <1>2, <2>1, <2>4, <2>7 DEF CompletedIsDelivered, TasksAre, BeforeTrend, Departments
    <3>2. \A d \in Departments \ {"review"} : t.tasks[d] = "done" => d \in BeforeTrend
      BY <2>5, <2>7 DEF Departments, BeforeTrend
    <3> QED
      BY <1>2, <2>1, <2>5, <2>7, <3>1, <3>2 DEF CompletedIsDelivered
  <2>12. WaitingHasRequest(t)
    BY <2>7, <2>8 DEF WaitingHasRequest
  <2>13. DecisionsAudited(t)
    BY <2>1, <2>7, <2>8, AuditedByMore
  <2> QED
    BY <2>2, <2>7, <2>9, <2>10, <2>11, <2>12, <2>13 DEF RecordInv, out
<1> QED
  BY <1>3, <1>4

\* The record of a project in revision or ready for planning, with an event more and
\* some tasks set back.
LEMMA ResetFields ==
  ASSUME NEW r, RecordInv(r), NEW departments, NEW es,
         \A e \in es : e.type \in EventTypes \ Decided
  PROVE  LET t == ResetTasks(record_event(r, es), departments)
         IN /\ Shape(t)
            /\ t.tasks = [d \in Departments |->
                            IF d \in departments THEN "pending" ELSE r.tasks[d]]
            /\ t.status = r.status /\ t.delivered = r.delivered /\ t.artifacts = r.artifacts
            /\ t.trend_source = r.trend_source /\ t.reviews = r.reviews
            /\ pending_actions(t) = pending_actions(r)
            /\ TransitionsLegal(t)
            /\ DecisionsAudited(t)
<1> DEFINE m == record_event(r, es)
           t == ResetTasks(m, departments)
           tasks == [d \in Departments |-> IF d \in departments THEN "pending" ELSE r.tasks[d]]
<1>1. RecordInv(m)
  BY EventsKeep
<1>2. /\ RecordTypeOK(m) /\ TransitionsLegal(m) /\ DecisionsAudited(m) /\ RecordTypeOK(r)
  BY <1>1 DEF RecordInv
<1>3. /\ m.tasks = r.tasks /\ m.status = r.status /\ m.delivered = r.delivered
      /\ m.artifacts = r.artifacts /\ m.trend_source = r.trend_source
      /\ m.reviews = r.reviews /\ m.approvals = r.approvals
  BY <1>2 DEF record_event, RecordTypeOK
<1> HIDE DEF m
<1>4. /\ DOMAIN t = DOMAIN m /\ t.tasks = tasks
      /\ t.status = m.status /\ t.approvals = m.approvals
      /\ t.gate = m.gate /\ t.delivered = m.delivered
      /\ t.artifacts = m.artifacts /\ t.trend_source = m.trend_source
      /\ t.reviews = m.reviews /\ t.history = m.history /\ t.events = m.events
  BY <1>2, <1>3 DEF ResetTasks, RecordTypeOK
<1>5. tasks \in [Departments -> TaskStatuses]
  BY <1>2 DEF RecordTypeOK, TaskStatuses
<1> HIDE DEF t, tasks
<1>6. Shape(t)
  BY <1>2, <1>4, <1>5 DEF RecordTypeOK, Shape, StoredStatuses
<1>7. /\ pending_actions(t) = pending_actions(r)
      /\ approved_actions(t) = approved_actions(m)
      /\ rejected_actions(t) = rejected_actions(m)
  BY <1>3, <1>4 DEF pending_actions, approved_actions, rejected_actions, Having
<1>8. TransitionsLegal(t)
  BY <1>2, <1>4, LegalBySame
<1>9. DecisionsAudited(t)
  BY <1>2, <1>4, <1>7, AuditedByMore
<1> USE DEF t, m, tasks
<1> QED
  BY <1>3, <1>4, <1>6, <1>7, <1>8, <1>9

\* The record of a project in revision with the tasks of the mode set back.
LEMMA RevisionReset ==
  ASSUME NEW r, RecordInv(r), r.status = "revision_requested", NEW mode \in RevisionResumeModes
  PROVE  LET m == ResetTasks(record_event(r, {Event("resume_triggered", mode)}),
                             RevisionDepartments(mode))
         IN /\ Shape(m) /\ m.status = r.status
            /\ m.tasks["research"] = "done" /\ m.tasks["review"] = "pending"
            /\ \A d \in Departments : m.tasks[d] \in {"pending", "revision_requested", "done"}
            /\ mode = "replanning" =>
                 \A d \in Departments \ {"research"} : m.tasks[d] = "pending"
            /\ ~m.delivered /\ pending_actions(m) = {}
            /\ m.reviews \in {<<>>, <<"changes_requested">>}
            /\ \A d \in Departments \ {"review"} : m.tasks[d] = "done" => d \in m.artifacts
            /\ m.tasks["trend"] = "done" => m.trend_source # "none"
            /\ TransitionsLegal(m)
            /\ DecisionsAudited(m)
<1> DEFINE departments == RevisionDepartments(mode)
           resumed     == {Event("resume_triggered", mode)}
           m           == ResetTasks(record_event(r, resumed), departments)
<1>1. \A e \in resumed : e.type \in EventTypes \ Decided
  BY DEF Event, EventTypes, Decided
<1>2. /\ "review" \in departments /\ "research" \notin departments
      /\ mode = "replanning" => departments = {"design", "build", "trend", "review"}
  BY DEF RevisionDepartments, RevisionResumeModes
<1> HIDE DEF departments, resumed
<1>3. /\ Shape(m)
      /\ m.tasks = [d \in Departments |-> IF d \in departments THEN "pending" ELSE r.tasks[d]]
      /\ m.status = r.status /\ m.delivered = r.delivered /\ m.artifacts = r.artifacts
      /\ m.trend_source = r.trend_source /\ m.reviews = r.reviews
      /\ pending_actions(m) = pending_actions(r)
      /\ TransitionsLegal(m)
      /\ DecisionsAudited(m)
  BY <1>1, ResetFields
<1> HIDE DEF m
<1>4. /\ \A d \in BeforeTrend : r.tasks[d] = "done"
      /\ r.tasks["trend"] \in {"done", "revision_requested"}
  BY DEF RecordInv, TasksMatchStatus, TasksAre
<1>5. /\ m.tasks["research"] = "done" /\ m.tasks["review"] = "pending"
      /\ \A d \in Departments : m.tasks[d] \in {"pending", "revision_requested", "done"}
  BY <1>2, <1>3, <1>4 DEF Departments, BeforeTrend
<1>6. mode = "replanning" => \A d \in Departments \ {"research"} : m.tasks[d] = "pending"
  BY <1>2, <1>3 DEF Departments
<1>7. /\ ~r.delivered /\ pending_actions(r) = {}
      /\ r.reviews \in {<<>>, <<"changes_requested">>}
      /\ \A d \in Departments \ {"review"} : r.tasks[d] = "done" => d \in r.artifacts
      /\ r.tasks["trend"] = "done" => r.trend_source # "none"
  BY DEF RecordInv, CompletedIsDelivered, WaitingHasRequest
<1>8. /\ \A d \in Departments \ {"review"} : m.tasks[d] = "done" => d \in m.artifacts
      /\ m.tasks["trend"] = "done" => m.trend_source # "none"
  BY <1>3, <1>7 DEF Departments
<1> USE DEF m, departments, resumed
<1> QED
  BY <1>3, <1>5, <1>6, <1>7, <1>8

\* The record that a rebuild or a new review executes.
LEMMA RevisionExecutes ==
  ASSUME NEW r, RecordInv(r), r.status = "revision_requested", NEW mode \in RevisionResumeModes
  PROVE  Executable(Transition(ResetTasks(record_event(r, {Event("resume_triggered", mode)}),
                                          RevisionDepartments(mode)), "in_progress"))
<1> DEFINE m == ResetTasks(record_event(r, {Event("resume_triggered", mode)}),
                           RevisionDepartments(mode))
<1>1. /\ Shape(m) /\ m.status = r.status
      /\ m.tasks["research"] = "done" /\ m.tasks["review"] = "pending"
      /\ \A d \in Departments : m.tasks[d] \in {"pending", "revision_requested", "done"}
      /\ ~m.delivered /\ pending_actions(m) = {}
      /\ m.reviews \in {<<>>, <<"changes_requested">>}
      /\ \A d \in Departments \ {"review"} : m.tasks[d] = "done" => d \in m.artifacts
      /\ m.tasks["trend"] = "done" => m.trend_source # "none"
      /\ TransitionsLegal(m) /\ DecisionsAudited(m)
  BY RevisionReset
<1> HIDE DEF m
<1>2. can_transition(m.status, "in_progress")
  BY <1>1 DEF can_transition, STATE_TRANSITIONS, ProjectStatuses
<1>3. Executable(Transition(m, "in_progress"))
  BY <1>1, <1>2, Restarted
<1> QED
  BY <1>3 DEF m

\* A resume from revision, which plans again or executes again.
LEMMA RevisionKeeps ==
  ASSUME NEW r, RecordInv(r), NEW q, q.provider \in Names, q.mode \in RevisionResumeModes,
         resume_from_revision(r, q).saved
  PROVE  RecordInv(resume_from_revision(r, q).rec)
<1> DEFINE m           == ResetTasks(record_event(r, {Event("resume_triggered", q.mode)}),
                                     RevisionDepartments(q.mode))
           t           == Transition(m, "ready_for_planning")
           out         == resume_from_revision(r, q)
<1>1. r.status = "revision_requested"
  BY DEF resume_from_revision, Unsaved
<1>2. /\ q.mode = "replanning" => out = Saved(t, "ok")
      /\ q.mode # "replanning" =>
           out = execute_pending_tasks(Transition(m, "in_progress"), q.provider, q.actions, FALSE)
  BY <1>1 DEF resume_from_revision, Unsaved
<1>3. /\ Shape(m) /\ m.status = r.status
      /\ m.tasks["research"] = "done" /\ m.tasks["review"] = "pending"
      /\ q.mode = "replanning" =>
           \A d \in Departments \ {"research"} : m.tasks[d] = "pending"
      /\ ~m.delivered /\ pending_actions(m) = {}
      /\ m.reviews \in {<<>>, <<"changes_requested">>}
      /\ \A d \in Departments \ {"review"} : m.tasks[d] = "done" => d \in m.artifacts
      /\ m.tasks["trend"] = "done" => m.trend_source # "none"
      /\ TransitionsLegal(m) /\ DecisionsAudited(m)
  BY <1>1, RevisionReset
<1>4. Executable(Transition(m, "in_progress"))
  BY <1>1, RevisionExecutes
<1> HIDE DEF m, out
<1>5. CASE q.mode = "replanning"
  <2>1. /\ Shape(t) /\ t.status = "ready_for_planning" /\ TransitionsLegal(t)
        /\ t.tasks = m.tasks /\ t.approvals = m.approvals /\ t.delivered = m.delivered
        /\ t.artifacts = m.artifacts /\ t.trend_source = m.trend_source
        /\ t.reviews = m.reviews /\ t.events = m.events
    <3>1. /\ "ready_for_planning" \in ProjectStatuses
          /\ can_transition(m.status, "ready_for_planning")
      BY <1>1, <1>3 DEF can_transition, STATE_TRANSITIONS, ProjectStatuses
    <3>2. \A step \in m.history : can_transition(step[1], step[2])
      BY <1>3 DEF TransitionsLegal
    <3> QED
      BY <1>3, <3>1, <3>2, TransitionFields
  <2>2. out.rec = t
    BY <1>2, <1>5 DEF Saved
  <2> HIDE DEF t
  <2>3. /\ pending_actions(t) = pending_actions(m)
        /\ approved_actions(t) = approved_actions(m)
        /\ rejected_actions(t) = rejected_actions(m)
    BY <2>1 DEF pending_actions, approved_actions, rejected_actions, Having
  <2>4. RecordTypeOK(t)
    BY <2>1 DEF Shape, RecordTypeOK, StoredStatuses, TransientStatuses
  <2>5. TasksMatchStatus(t)
    BY <1>3, <1>5, <2>1 DEF TasksMatchStatus, Departments
  <2>6. CompletedIsDelivered(t)
    BY <1>3, <2>1 DEF CompletedIsDelivered
  <2>7. WaitingHasRequest(t)
    BY <1>3, <2>1, <2>3 DEF WaitingHasRequest
  <2>8. DecisionsAudited(t)
    BY <1>3, <2>1, <2>3, AuditedByMore
  <2> QED
    BY <2>1, <2>2, <2>4, <2>5, <2>6, <2>7, <2>8 DEF RecordInv, out
<1>6. CASE q.mode # "replanning"
  <2>1. /\ out = execute_pending_tasks(Transition(m, "in_progress"), q.provider, q.actions, FALSE)
        /\ out.saved
    BY <1>2, <1>6 DEF out
  <2> QED
    BY <1>4, <2>1, ExecuteKeeps DEF Names, out
<1> QED
  BY <1>5, <1>6

\* The record that start_replanning executes, with the later tasks set back or as
\* they are.
LEMMA ReplanningExecutes ==
  ASSUME NEW r, RecordInv(r), r.status = "ready_for_planning", NEW reset_downstream_tasks
  PROVE  LET reset == IF reset_downstream_tasks
                      THEN ResetTasks(r, {"design", "build", "trend", "review"}) ELSE r
         IN Executable(Transition(record_event(reset, {Event("replanning_started", "")}),
                                  "in_progress"))
<1> DEFINE later   == {"design", "build", "trend", "review"}
           es      == {Event("replanning_started", "")}
           reset   == IF reset_downstream_tasks THEN ResetTasks(r, later) ELSE r
           m       == record_event(reset, es)
           started == Transition(m, "in_progress")
<1>1. \A e \in es : e.type = "replanning_started"
  <2>1. Event("replanning_started", "").type = "replanning_started"
    BY DEF Event
  <2> QED
    BY <2>1
<1>2. /\ r.tasks["research"] = "done" /\ RecordTypeOK(r)
      /\ \A d \in Departments \ {"research"} : r.tasks[d] = "pending"
      /\ ~r.delivered /\ pending_actions(r) = {}
      /\ r.reviews \in {<<>>, <<"changes_requested">>}
      /\ \A d \in Departments \ {"review"} : r.tasks[d] = "done" => d \in r.artifacts
      /\ TransitionsLegal(r) /\ DecisionsAudited(r)
  BY DEF RecordInv, TasksMatchStatus, CompletedIsDelivered, WaitingHasRequest
<1>3. [d \in Departments |-> IF d \in later THEN "pending" ELSE r.tasks[d]] = r.tasks
  BY <1>2 DEF RecordTypeOK, Departments
<1> HIDE DEF later, es
<1>4. /\ DOMAIN reset = DOMAIN r /\ reset.tasks = r.tasks /\ reset.status = r.status
      /\ reset.approvals = r.approvals /\ reset.gate = r.gate
      /\ reset.delivered = r.delivered /\ reset.artifacts = r.artifacts
      /\ reset.trend_source = r.trend_source /\ reset.reviews = r.reviews
      /\ reset.history = r.history /\ reset.events = r.events
  BY <1>2, <1>3 DEF ResetTasks, RecordTypeOK
<1> HIDE DEF reset
<1>5. /\ DOMAIN m = DOMAIN r /\ m.tasks = r.tasks /\ m.status = r.status
      /\ m.approvals = r.approvals /\ m.gate = r.gate
      /\ m.delivered = r.delivered /\ m.artifacts = r.artifacts
      /\ m.trend_source = r.trend_source /\ m.reviews = r.reviews
      /\ m.history = r.history /\ m.events = r.events \union es
  BY <1>2, <1>4 DEF record_event, RecordTypeOK
<1> HIDE DEF m
<1>6. /\ pending_actions(m) = {} /\ Shape(m) /\ TransitionsLegal(m) /\ DecisionsAudited(m)
  <2>1. /\ pending_actions(m) = pending_actions(r)
        /\ approved_actions(m) = approved_actions(r)
        /\ rejected_actions(m) = rejected_actions(r)
    BY <1>5 DEF pending_actions, approved_actions, rejected_actions, Having
  <2>2. \A e \in m.events : e.type \in EventTypes
    BY <1>1, <1>2, <1>5 DEF RecordTypeOK, EventTypes
  <2>3. Shape(m)
    BY <1>2, <1>5, <2>2 DEF RecordTypeOK, Shape, StoredStatuses
  <2>4. DecisionsAudited(m)
    BY <1>1, <1>2, <1>5, <2>1, AuditedByMore DEF Decided
  <2>5. TransitionsLegal(m)
    BY <1>2, <1>5, LegalBySame
  <2> QED
    BY <1>2, <2>1, <2>3, <2>4, <2>5
<1>7. can_transition(m.status, "in_progress")
  BY <1>5 DEF can_transition, STATE_TRANSITIONS, ProjectStatuses
<1>8. /\ \A d \in Departments : m.tasks[d] \in {"pending", "revision_requested", "done"}
      /\ m.tasks["review"] = "pending" /\ m.tasks["research"] = "done"
      /\ m.tasks["trend"] = "pending"
  BY <1>2, <1>5 DEF Departments
<1>9. Executable(started)
  BY <1>2, <1>5, <1>6, <1>7, <1>8, Restarted
<1> QED
  BY <1>9 DEF m, reset, later, es

\* The start of a replanning.
LEMMA ReplanningKeeps ==
  ASSUME NEW r, RecordInv(r), NEW q, q.provider \in Names, start_replanning(r, q).saved
  PROVE  RecordInv(start_replanning(r, q).rec)
<1> DEFINE reset   == IF q.reset_downstream_tasks
                      THEN ResetTasks(r, {"design", "build", "trend", "review"}) ELSE r
           started == Transition(record_event(reset, {Event("replanning_started", "")}),
                                 "in_progress")
<1>1. /\ r.status = "ready_for_planning"
      /\ start_replanning(r, q) = execute_pending_tasks(started, q.provider, q.actions, FALSE)
  BY DEF start_replanning, Unsaved
<1>2. Executable(started)
  BY <1>1, ReplanningExecutes
<1> HIDE DEF started
<1> QED
  BY <1>1, <1>2, ExecuteKeeps DEF Names

\* ------------------------------------- what a call leaves of the record it read

Fields == {"status", "policy", "tasks", "approvals", "gate", "delivered",
           "artifacts", "trend_source", "reviews", "history", "events"}

\* t goes on from r: nothing of the audit trail is lost and no decision is added.
Continues(r, t) ==
  /\ DOMAIN t = Fields
  /\ r.events \subseteq t.events
  /\ r.history \subseteq t.history
  /\ approved_actions(t) = approved_actions(r)
  /\ rejected_actions(t) = rejected_actions(r)

\* The same, and the trend artifact stays too.
KeepsSource(r, t) == Continues(r, t) /\ t.trend_source = r.trend_source

\* The decisions of a record are read from its requests.
LEMMA SameRequests ==
  ASSUME NEW r, NEW t,
         \A a \in ActionTypes, d \in {"approved", "rejected"} :
           <<a, d>> \in t.approvals <=> <<a, d>> \in r.approvals
  PROVE  /\ approved_actions(t) = approved_actions(r)
         /\ rejected_actions(t) = rejected_actions(r)
BY DEF approved_actions, rejected_actions, Having

\* The steps the handlers are made of keep the trail, the decisions and the source.
LEMMA StepsKeepSource ==
  ASSUME NEW r, DOMAIN r = Fields, NEW next, NEW departments, NEW es
  PROVE  /\ KeepsSource(r, Transition(r, next))
         /\ KeepsSource(r, ResetTasks(r, departments))
         /\ KeepsSource(r, ReleaseWaiting(r, next))
         /\ KeepsSource(r, record_event(r, es))
         /\ Transition(r, next).status = next
         /\ record_event(r, es).events = r.events \union es
         /\ record_event(r, es).status = r.status
<1>1. KeepsSource(r, Transition(r, next)) /\ Transition(r, next).status = next
  BY SameRequests DEF Transition, KeepsSource, Continues, Fields
<1>2. KeepsSource(r, ResetTasks(r, departments))
  BY SameRequests DEF ResetTasks, KeepsSource, Continues, Fields
<1>3. KeepsSource(r, ReleaseWaiting(r, next))
  BY SameRequests DEF ReleaseWaiting, KeepsSource, Continues, Fields
<1>4. /\ KeepsSource(r, record_event(r, es))
      /\ record_event(r, es).events = r.events \union es
      /\ record_event(r, es).status = r.status
  BY SameRequests DEF record_event, KeepsSource, Continues, Fields
<1> QED
  BY <1>1, <1>2, <1>3, <1>4

\* One after the other.
LEMMA ContinuesTransitive ==
  ASSUME NEW r, NEW s, NEW t, Continues(r, s), Continues(s, t)
  PROVE  Continues(r, t)
BY DEF Continues

LEMMA KeepsSourceTransitive ==
  ASSUME NEW r, NEW s, NEW t, KeepsSource(r, s), KeepsSource(s, t)
  PROVE  KeepsSource(r, t)
BY ContinuesTransitive DEF KeepsSource

\* The pause at the gate.
LEMMA PauseKeepsSource ==
  ASSUME NEW r, DOMAIN r = Fields
  PROVE  /\ KeepsSource(r, PauseForApproval(r))
         /\ PauseForApproval(r).status = "waiting_approval"
<1> DEFINE tasks  == [d \in Departments |->
                        CASE d \in BeforeTrend -> "done"
                          [] d = "trend"       -> "waiting_approval"
                          [] d = "review"      -> r.tasks[d]]
           asked  == IF EXT \in pending_actions(r) THEN {} ELSE {Event("approval_requested", EXT)}
           paused == [r EXCEPT
                        !.tasks = tasks,
                        !.artifacts = @ \union (Unfinished(r) \intersect BeforeTrend),
                        !.approvals = @ \union {<<EXT, "pending">>},
                        !.gate = "open",
                        !.events = @ \union asked]
<1>1. PauseForApproval(r) = Transition(paused, "waiting_approval")
  BY DEF PauseForApproval
<1>2. /\ DOMAIN paused = Fields /\ paused.events = r.events \union asked
      /\ paused.history = r.history /\ paused.trend_source = r.trend_source
      /\ paused.approvals = r.approvals \union {<<EXT, "pending">>}
  BY DEF Fields
<1> HIDE DEF paused, tasks, asked
<1>3. KeepsSource(r, paused)
  BY <1>2, SameRequests DEF KeepsSource, Continues
<1>4. /\ KeepsSource(paused, Transition(paused, "waiting_approval"))
      /\ Transition(paused, "waiting_approval").status = "waiting_approval"
  BY <1>2, StepsKeepSource
<1> QED
  BY <1>1, <1>3, <1>4, KeepsSourceTransitive

\* t is what an execution made of r, with the actions of `approved` approved.
Executed(r, t, approved, fail) ==
  /\ Continues(r, t)
  /\ t.status \in {"waiting_approval", "completed", "revision_requested"}
  /\ t.status = "revision_requested" => fail
  /\ t.status = "waiting_approval" => EXT \notin approved
  /\ t.trend_source = "external" => r.trend_source = "external" \/ EXT \in approved

\* An execution uses an external provider only when the send is approved, and the
\* approval is what keeps it from pausing.
LEMMA ExecuteEffect ==
  ASSUME NEW r, Executable(r), NEW name \in {"mock", "external", "unsupported"},
         NEW approved, NEW fail \in BOOLEAN,
         execute_pending_tasks(r, name, approved, fail).saved
  PROVE  /\ Executed(r, execute_pending_tasks(r, name, approved, fail).rec, approved, fail)
         /\ execute_pending_tasks(r, name, approved, fail).reply = "ok"
<1> DEFINE provider == get_trend_provider(name)
           out      == execute_pending_tasks(r, name, approved, fail)
<1>1. provider \in {"mock", "external"}
  BY DEF get_trend_provider, execute_pending_tasks, Unsaved
<1>2. out = Saved(IF SendGated(r, provider, approved) THEN PauseForApproval(r)
                  ELSE FinishExecution(r, provider, fail), "ok")
  BY <1>1 DEF execute_pending_tasks
<1>3. DOMAIN r = Fields
  BY DEF Executable, Shape, Fields
<1> HIDE DEF out, provider
<1>4. CASE SendGated(r, provider, approved)
  <2>1. out.rec = PauseForApproval(r) /\ out.reply = "ok" /\ EXT \notin approved
    BY <1>2, <1>4 DEF Saved, SendGated
  <2>2. KeepsSource(r, out.rec) /\ out.rec.status = "waiting_approval"
    BY <1>3, <2>1, PauseKeepsSource
  <2> QED
    BY <2>1, <2>2 DEF Executed, KeepsSource, out
<1>5. CASE ~SendGated(r, provider, approved)
  <2> DEFINE done      == RunAllTasks(r, provider, fail)
             delivered == [done EXCEPT !.delivered = TRUE]
             failed    == Transition(done, "review_failed")
             revised   == Transition(failed, "revision_requested")
             noted     == {Event("revision_requested", "review")}
  <2>1. out.rec = FinishExecution(r, provider, fail) /\ out.reply = "ok"
    BY <1>2, <1>5 DEF Saved
  <2>2. /\ done.reviews[Len(done.reviews)] = (IF fail THEN "changes_requested" ELSE "approved")
        /\ done.history = r.history /\ done.approvals = r.approvals /\ done.events = r.events
        /\ DOMAIN done = Fields
    BY <1>1, RunAllTasksFields DEF Shape, Fields
  <2>3. done.trend_source = IF "trend" \in Unfinished(r) THEN provider ELSE r.trend_source
    BY <1>3 DEF RunAllTasks, Fields
  <2>4. done.trend_source = "external" => r.trend_source = "external" \/ EXT \in approved
    BY <1>1, <1>5, <2>3 DEF SendGated, requires_human_approval, EXT, ActionTypes
  <2>5. "review" \in Unfinished(r)
    BY DEF Executable, Unfinished, Departments
  <2>6. out.rec = IF fail THEN record_event(revised, noted) ELSE Transition(delivered, "completed")
    BY <2>1, <2>2, <2>5 DEF FinishExecution
  <2> HIDE DEF done
  <2>7. Continues(r, done)
    BY <2>2, SameRequests DEF Continues
  <2>8. CASE fail
    <3>1. KeepsSource(done, failed)
      BY <2>2, StepsKeepSource
    <3> HIDE DEF failed
    <3>2. KeepsSource(failed, revised) /\ revised.status = "revision_requested"
      BY <3>1, StepsKeepSource DEF KeepsSource, Continues
    <3> HIDE DEF revised
    <3>3. /\ KeepsSource(revised, record_event(revised, noted))
          /\ record_event(revised, noted).status = revised.status
      BY <3>2, StepsKeepSource DEF KeepsSource, Continues
    <3>4. out.rec = record_event(revised, noted)
      BY <2>6, <2>8
    <3>5. KeepsSource(done, out.rec)
      BY <3>1, <3>2, <3>3, <3>4, KeepsSourceTransitive
    <3>6. Continues(r, out.rec) /\ out.rec.trend_source = done.trend_source
      BY <2>7, <3>5, ContinuesTransitive DEF KeepsSource
    <3> QED
      BY <2>1, <2>4, <2>8, <3>2, <3>3, <3>4, <3>6 DEF Executed, out
  <2>9. CASE ~fail
    <3>1. KeepsSource(done, delivered)
      BY <2>2, SameRequests DEF KeepsSource, Continues, Fields
    <3> HIDE DEF delivered
    <3>2. out.rec = Transition(delivered, "completed")
      BY <2>6, <2>9
    <3>3. KeepsSource(delivered, out.rec) /\ out.rec.status = "completed"
      BY <3>1, <3>2, StepsKeepSource DEF KeepsSource, Continues
    <3>4. Continues(r, out.rec) /\ out.rec.trend_source = done.trend_source
      BY <2>7, <3>1, <3>3, ContinuesTransitive DEF KeepsSource
    <3> QED
      BY <2>1, <2>4, <2>9, <3>3, <3>4 DEF Executed, out
  <2> QED
    BY <2>8, <2>9
<1> QED
  BY <1>4, <1>5

\* t goes on from r with more approvals and rejections, and loses none.
Decides(r, t, approved, rejected) ==
  /\ DOMAIN t = Fields
  /\ r.events \subseteq t.events
  /\ r.history \subseteq t.history
  /\ approved_actions(t) = approved_actions(r) \union approved
  /\ rejected_actions(t) = rejected_actions(r) \union rejected

LEMMA DecidesTransitive ==
  ASSUME NEW r, NEW s, NEW t, NEW approved, NEW rejected,
         Decides(r, s, approved, rejected), Continues(s, t)
  PROVE  Decides(r, t, approved, rejected)
BY DEF Decides, Continues

\* What a new project is stored with: no decision, and an external trend artifact
\* only if the run request named the send.
LEMMA RunEffect ==
  ASSUME NEW q, q.provider \in Names, q.simulate_review_failure \in BOOLEAN, run(q).saved
  PROVE  /\ DOMAIN run(q).rec = Fields
         /\ approved_actions(run(q).rec) = {} /\ rejected_actions(run(q).rec) = {}
         /\ run(q).rec.status \in {"waiting_approval", "completed", "revision_requested"}
         /\ run(q).rec.trend_source = "external" => EXT \in q.actions
<1> DEFINE new     == NewRecord(q.policy)
           started == Transition(Transition(Transition(new, "intake_pending"),
                                            "ready_for_planning"), "in_progress")
<1>1. run(q) = execute_pending_tasks(started, q.provider, q.actions, q.simulate_review_failure)
  BY DEF run, Unsaved
<1>2. /\ DOMAIN new = Fields /\ new.trend_source = "none"
      /\ approved_actions(new) = {} /\ rejected_actions(new) = {}
  BY DEF NewRecord, Fields, approved_actions, rejected_actions, Having
<1>3. KeepsSource(new, started)
  <2> DEFINE taken   == Transition(new, "intake_pending")
             planned == Transition(taken, "ready_for_planning")
  <2> HIDE DEF new
  <2>1. KeepsSource(new, taken)
    BY <1>2, StepsKeepSource
  <2> HIDE DEF taken
  <2>2. KeepsSource(taken, planned)
    BY <2>1, StepsKeepSource DEF KeepsSource, Continues
  <2> HIDE DEF planned
  <2>3. KeepsSource(planned, Transition(planned, "in_progress"))
    BY <2>2, StepsKeepSource DEF KeepsSource, Continues
  <2>4. KeepsSource(taken, Transition(planned, "in_progress"))
    BY <2>2, <2>3, KeepsSourceTransitive
  <2> QED
    BY <2>1, <2>4, KeepsSourceTransitive DEF planned, taken
<1>4. Executable(started)
  BY StartedIsExecutable
<1> HIDE DEF started, new
<1>5. Executed(started, run(q).rec, q.actions, q.simulate_review_failure)
  BY <1>1, <1>4, ExecuteEffect DEF Names
<1> QED
  BY <1>2, <1>3, <1>5 DEF Executed, Continues, KeepsSource

\* The decisions after the requests of `actions` were approved.
LEMMA ApproveDecides ==
  ASSUME NEW r, RecordInv(r), r.status = "waiting_approval",
         NEW actions, NEW actor, NEW allow,
         DeniedActions(r, actions, actor, allow) = {}, actions \subseteq pending_actions(r)
  PROVE  LET t == ApproveRequests(authorize_actions(r, actions, actor, allow), actions, actor)
         IN Decides(r, t, actions, {}) /\ t.trend_source = r.trend_source /\ t.status = r.status
<1> DEFINE m == authorize_actions(r, actions, actor, allow)
           t == ApproveRequests(m, actions, actor)
<1>1. /\ t.status = r.status /\ t.trend_source = r.trend_source /\ t.history = r.history
      /\ approved_actions(t) = approved_actions(r) \union (actions \intersect pending_actions(r))
      /\ rejected_actions(t) = rejected_actions(r)
      /\ DOMAIN t = Fields
  BY ApproveFields DEF RecordTypeOK, Fields
<1>2. DOMAIN m = Fields /\ r.events \subseteq m.events
  BY StepsKeepSource DEF authorize_actions, KeepsSource, Continues, RecordInv, RecordTypeOK, Fields
<1> HIDE DEF m
<1>3. m.events \subseteq t.events
  BY <1>2 DEF ApproveRequests, Fields
<1> QED
  BY <1>1, <1>2, <1>3 DEF Decides, m

\* The decisions after every pending request was rejected.
LEMMA RejectDecides ==
  ASSUME NEW r, RecordInv(r), NEW actor, NEW allow,
         DeniedActions(r, pending_actions(r), actor, allow) = {}
  PROVE  LET t == RejectRequests(authorize_actions(r, pending_actions(r), actor, allow), actor)
         IN Decides(r, t, {}, pending_actions(r)) /\ t.trend_source = r.trend_source
<1> DEFINE m == authorize_actions(r, pending_actions(r), actor, allow)
           t == RejectRequests(m, actor)
<1>1. /\ t.trend_source = r.trend_source /\ t.history = r.history
      /\ rejected_actions(t) = rejected_actions(r) \union pending_actions(r)
      /\ approved_actions(t) = approved_actions(r)
      /\ DOMAIN t = Fields
  BY RejectFields DEF RecordTypeOK, Fields
<1>2. DOMAIN m = Fields /\ r.events \subseteq m.events
  BY StepsKeepSource DEF authorize_actions, KeepsSource, Continues, RecordInv, RecordTypeOK, Fields
<1> HIDE DEF m
<1>3. m.events \subseteq t.events
  BY <1>2 DEF RejectRequests, Fields
<1> QED
  BY <1>1, <1>2, <1>3 DEF Decides, m

\* The decisions on the record that an approval of everything pending executes.
LEMMA ResumedDecides ==
  ASSUME NEW r, RecordInv(r), r.status = "waiting_approval",
         NEW actions, NEW actor, NEW allow,
         DeniedActions(r, actions, actor, allow) = {}, actions \subseteq pending_actions(r)
  PROVE  LET a == ApproveRequests(authorize_actions(r, actions, actor, allow), actions, actor)
         IN Decides(r, Transition(record_event(ReleaseWaiting(a, "pending"),
                                    {Event("resume_triggered", "approval_resume")}),
                                  "in_progress"), actions, {})
<1> DEFINE a        == ApproveRequests(authorize_actions(r, actions, actor, allow), actions, actor)
           released == ReleaseWaiting(a, "pending")
           m        == record_event(released, {Event("resume_triggered", "approval_resume")})
           resumed  == Transition(m, "in_progress")
<1>1. Decides(r, a, actions, {})
  BY ApproveDecides
<1> HIDE DEF a
<1>2. Continues(a, released)
  BY <1>1, StepsKeepSource DEF Decides, KeepsSource
<1> HIDE DEF released
<1>3. Continues(released, m)
  BY <1>2, StepsKeepSource DEF KeepsSource, Continues
<1> HIDE DEF m
<1>4. Continues(m, resumed)
  BY <1>3, StepsKeepSource DEF KeepsSource, Continues
<1> HIDE DEF resumed
<1>5. Continues(a, resumed)
  BY <1>2, <1>3, <1>4, ContinuesTransitive
<1>6. Decides(r, resumed, actions, {})
  BY <1>1, <1>5, DecidesTransitive
<1> QED
  BY <1>6 DEF a, released, m, resumed

\* What an approval saves: nothing but events when it is denied, else decisions that
\* were all asked for, and a completed project once nothing is missing: what was
\* pending is approved then, so the execution does not stop at the gate again.
LEMMA ApprovalEffect ==
  ASSUME NEW r, RecordInv(r), NEW q, q.provider \in Names, resume_from_approval(r, q).saved
  PROVE  LET out     == resume_from_approval(r, q)
             actions == q.actions \ approved_actions(r)
         IN /\ ApprovalResumable(r, q)
            /\ actions \subseteq pending_actions(r)
            /\ \/ /\ out.reply = "forbidden"
                  /\ KeepsSource(r, out.rec) /\ out.rec.status = r.status
               \/ /\ DeniedActions(r, actions, q.actor, q.allow) = {}
                  /\ Decides(r, out.rec, actions, {})
                  /\ \/ /\ out.reply = "partial" /\ actions # {}
                        /\ out.rec.status = r.status /\ out.rec.trend_source = r.trend_source
                     \/ /\ out.reply = "ok"
                        /\ out.rec.status = "completed"
                        /\ EXT \in approved_actions(out.rec)
<1> DEFINE actions    == q.actions \ approved_actions(r)
           missing    == pending_actions(r) \ q.actions
           authorized == authorize_actions(r, actions, q.actor, q.allow)
           a          == ApproveRequests(authorized, actions, q.actor)
           released   == ReleaseWaiting(a, "pending")
           m          == record_event(released, {Event("resume_triggered", "approval_resume")})
           resumed    == Transition(m, "in_progress")
           partial    == {Event("resume_triggered", "approval_resume_partial")}
           out        == resume_from_approval(r, q)
<1>1. ApprovalResumable(r, q) /\ ~idempotent_resume_from_approval(r, q)
  BY DEF resume_from_approval, Unsaved
<1>2. r.status = "waiting_approval" /\ actions \subseteq pending_actions(r)
  BY <1>1 DEF ApprovalResumable, ValidActions, known_actions
<1>3. DOMAIN r = Fields /\ EXT \in pending_actions(r) \union approved_actions(r)
  BY <1>2 DEF RecordInv, RecordTypeOK, Fields, WaitingHasRequest
<1>4. CASE DeniedActions(r, actions, q.actor, q.allow) # {}
  <2>1. out.rec = authorized /\ out.reply = "forbidden"
    BY <1>1, <1>4 DEF resume_from_approval, Saved
  <2>2. KeepsSource(r, authorized) /\ authorized.status = r.status
    BY <1>3, StepsKeepSource DEF authorize_actions
  <2> QED
    BY <1>1, <1>2, <2>1, <2>2
<1>5. CASE DeniedActions(r, actions, q.actor, q.allow) = {}
  <2>1. Decides(r, a, actions, {}) /\ a.trend_source = r.trend_source /\ a.status = r.status
    BY <1>2, <1>5, ApproveDecides
  <2>2. CASE missing # {}
    <3>1. out = Saved(record_event(a, partial), "partial") /\ actions # {}
      BY <1>1, <1>5, <2>2 DEF resume_from_approval, Unsaved
    <3> HIDE DEF a, partial
    <3>2. KeepsSource(a, record_event(a, partial)) /\ record_event(a, partial).status = a.status
      BY <2>1, StepsKeepSource DEF Decides
    <3>3. Decides(r, record_event(a, partial), actions, {})
      BY <2>1, <3>2, DecidesTransitive DEF KeepsSource
    <3> QED
      BY <1>1, <1>2, <1>5, <2>1, <3>1, <3>2, <3>3 DEF Saved, KeepsSource, out
  <2>3. CASE missing = {}
    <3> DEFINE approved == approved_actions(r) \union actions
    <3>1. out = execute_pending_tasks(resumed, q.provider, approved, FALSE) /\ out.saved
      BY <1>1, <1>5, <2>3 DEF resume_from_approval
    <3>2. pending_actions(r) \subseteq actions \union approved_actions(r)
      BY <2>3
    <3>3. Executable(resumed)
      BY <1>2, <1>5, <3>2, ApprovalExecutes
    <3>4. Decides(r, resumed, actions, {})
      BY <1>2, <1>5, ResumedDecides
    <3> HIDE DEF resumed, out
    <3>5. Executed(resumed, out.rec, approved, FALSE) /\ out.reply = "ok"
      BY <3>1, <3>3, ExecuteEffect DEF Names
    <3>6. Decides(r, out.rec, actions, {})
      BY <3>4, <3>5, DecidesTransitive DEF Executed
    <3>7. EXT \in approved /\ approved_actions(out.rec) = approved
      BY <1>3, <3>2, <3>6 DEF Decides
    <3> QED
      BY <1>1, <1>2, <1>5, <3>5, <3>6, <3>7 DEF Executed, out
  <2> QED
    BY <2>2, <2>3
<1> QED
  BY <1>4, <1>5

\* What a rejection saves: nothing but events when it is denied, else the rejection of
\* everything pending, and the project in revision.
LEMMA RejectionEffect ==
  ASSUME NEW r, RecordInv(r), NEW q, reject_approval(r, q).saved
  PROVE  LET out == reject_approval(r, q)
         IN /\ q.reason_given /\ Rejectable(r, q)
            /\ \/ /\ out.reply = "forbidden"
                  /\ KeepsSource(r, out.rec) /\ out.rec.status = r.status
               \/ /\ out.reply = "ok"
                  /\ DeniedActions(r, pending_actions(r), q.actor, q.allow) = {}
                  /\ Decides(r, out.rec, {}, pending_actions(r))
                  /\ out.rec.status = "revision_requested"
                  /\ out.rec.trend_source = r.trend_source
<1> DEFINE authorized == authorize_actions(r, pending_actions(r), q.actor, q.allow)
           a          == RejectRequests(authorized, q.actor)
           m          == ReleaseWaiting(a, "revision_requested")
           t          == Transition(m, "revision_requested")
           out        == reject_approval(r, q)
<1>1. q.reason_given /\ ~idempotent_reject(r, q) /\ Rejectable(r, q)
  BY DEF reject_approval, Unsaved
<1>2. CASE DeniedActions(r, pending_actions(r), q.actor, q.allow) # {}
  <2>1. out.rec = authorized /\ out.reply = "forbidden"
    BY <1>1, <1>2 DEF reject_approval, Saved
  <2>2. KeepsSource(r, authorized) /\ authorized.status = r.status
    BY StepsKeepSource DEF authorize_actions, RecordInv, RecordTypeOK, Fields
  <2> QED
    BY <1>1, <2>1, <2>2
<1>3. CASE DeniedActions(r, pending_actions(r), q.actor, q.allow) = {}
  <2>1. out.rec = t /\ out.reply = "ok"
    BY <1>1, <1>3 DEF reject_approval, Saved
  <2>2. Decides(r, a, {}, pending_actions(r)) /\ a.trend_source = r.trend_source
    BY <1>3, RejectDecides
  <2> HIDE DEF a
  <2>3. KeepsSource(a, m)
    BY <2>2, StepsKeepSource DEF Decides
  <2> HIDE DEF m
  <2>4. KeepsSource(m, t) /\ t.status = "revision_requested"
    BY <2>3, StepsKeepSource DEF KeepsSource, Continues
  <2> HIDE DEF t, out
  <2>5. KeepsSource(a, t)
    BY <2>3, <2>4, KeepsSourceTransitive
  <2>6. Decides(r, t, {}, pending_actions(r)) /\ t.trend_source = r.trend_source
    BY <2>2, <2>5, DecidesTransitive DEF KeepsSource
  <2> QED
    BY <1>1, <1>3, <2>1, <2>4, <2>6 DEF out
<1> QED
  BY <1>2, <1>3

\* What a resume from revision saves.  The replanning lane executes nothing; the
\* others send only what the call itself names, whatever was approved before.
LEMMA RevisionEffect ==
  ASSUME NEW r, RecordInv(r), NEW q, q.provider \in Names, q.mode \in RevisionResumeModes,
         resume_from_revision(r, q).saved
  PROVE  LET out == resume_from_revision(r, q)
         IN /\ r.status = "revision_requested"
            /\ out.reply = "ok"
            /\ Continues(r, out.rec)
            /\ Event("resume_triggered", q.mode) \in out.rec.events
            /\ q.mode = "replanning" =>
                 /\ out.rec.status = "ready_for_planning"
                 /\ out.rec.trend_source = r.trend_source
            /\ q.mode # "replanning" =>
                 /\ out.rec.status \in {"waiting_approval", "completed"}
                 /\ out.rec.trend_source = "external" =>
                      r.trend_source = "external" \/ EXT \in q.actions
<1> DEFINE noted   == record_event(r, {Event("resume_triggered", q.mode)})
           m       == ResetTasks(noted, RevisionDepartments(q.mode))
           started == Transition(m, "in_progress")
           planned == Transition(m, "ready_for_planning")
           out     == resume_from_revision(r, q)
<1>1. r.status = "revision_requested"
  BY DEF resume_from_revision, Unsaved
<1>2. /\ q.mode = "replanning" => out = Saved(planned, "ok")
      /\ q.mode # "replanning" =>
           out = execute_pending_tasks(started, q.provider, q.actions, FALSE)
  BY <1>1 DEF resume_from_revision, Unsaved
<1>3. Executable(started)
  BY <1>1, RevisionExecutes
<1>4. KeepsSource(r, noted) /\ Event("resume_triggered", q.mode) \in noted.events
  BY StepsKeepSource DEF RecordInv, RecordTypeOK, Fields
<1> HIDE DEF noted
<1>5. KeepsSource(noted, m)
  BY <1>4, StepsKeepSource DEF KeepsSource, Continues
<1> HIDE DEF m, out
<1>6. KeepsSource(m, started) /\ KeepsSource(m, planned) /\ planned.status = "ready_for_planning"
  BY <1>5, StepsKeepSource DEF KeepsSource, Continues
<1> HIDE DEF started, planned
<1>7. KeepsSource(r, started) /\ KeepsSource(r, planned)
  BY <1>4, <1>5, <1>6, KeepsSourceTransitive
<1>8. /\ Event("resume_triggered", q.mode) \in started.events
      /\ Event("resume_triggered", q.mode) \in planned.events
  BY <1>4, <1>5, <1>6 DEF KeepsSource, Continues
<1>9. CASE q.mode = "replanning"
  BY <1>1, <1>2, <1>6, <1>7, <1>8, <1>9 DEF Saved, KeepsSource, out
<1>10. CASE q.mode # "replanning"
  <2>1. Executed(started, out.rec, q.actions, FALSE) /\ out.reply = "ok"
    BY <1>2, <1>3, <1>10, ExecuteEffect DEF Names, out
  <2>2. Continues(r, out.rec)
    BY <1>7, <2>1, ContinuesTransitive DEF KeepsSource, Executed
  <2>3. Event("resume_triggered", q.mode) \in out.rec.events
    BY <1>8, <2>1 DEF Executed, Continues
  <2> QED
    BY <1>1, <1>7, <1>10, <2>1, <2>2, <2>3 DEF Executed, KeepsSource, out
<1> QED
  BY <1>9, <1>10

\* What the start of a replanning saves.
LEMMA ReplanningEffect ==
  ASSUME NEW r, RecordInv(r), NEW q, q.provider \in Names, start_replanning(r, q).saved
  PROVE  LET out == start_replanning(r, q)
         IN /\ r.status = "ready_for_planning"
            /\ out.reply = "ok"
            /\ Continues(r, out.rec)
            /\ Event("replanning_started", "") \in out.rec.events
            /\ out.rec.status \in {"waiting_approval", "completed"}
            /\ out.rec.trend_source = "external" =>
                 r.trend_source = "external" \/ EXT \in q.actions
<1> DEFINE reset   == IF q.reset_downstream_tasks
                      THEN ResetTasks(r, {"design", "build", "trend", "review"}) ELSE r
           es      == {Event("replanning_started", "")}
           m       == record_event(reset, es)
           started == Transition(m, "in_progress")
           out     == start_replanning(r, q)
<1>1. /\ r.status = "ready_for_planning"
      /\ out = execute_pending_tasks(started, q.provider, q.actions, FALSE)
  BY DEF start_replanning, Unsaved
<1>2. Executable(started)
  BY <1>1, ReplanningExecutes
<1>3. KeepsSource(r, reset)
  BY StepsKeepSource DEF RecordInv, RecordTypeOK, Fields, KeepsSource, Continues
<1> HIDE DEF reset, es
<1>4. KeepsSource(reset, m) /\ Event("replanning_started", "") \in m.events
  <2>1. KeepsSource(reset, m) /\ m.events = reset.events \union es
    BY <1>3, StepsKeepSource DEF KeepsSource, Continues
  <2> QED
    BY <2>1 DEF es
<1> HIDE DEF m, out
<1>5. KeepsSource(m, started)
  BY <1>4, StepsKeepSource DEF KeepsSource, Continues
<1> HIDE DEF started
<1>6. KeepsSource(r, started) /\ Event("replanning_started", "") \in started.events
  BY <1>3, <1>4, <1>5, KeepsSourceTransitive DEF KeepsSource, Continues
<1>7. Executed(started, out.rec, q.actions, FALSE) /\ out.reply = "ok"
  BY <1>1, <1>2, ExecuteEffect DEF Names, out
<1>8. Continues(r, out.rec)
  BY <1>6, <1>7, ContinuesTransitive DEF KeepsSource, Executed
<1>9. Event("replanning_started", "") \in out.rec.events
  BY <1>6, <1>7 DEF Executed, Continues
<1> QED
  BY <1>1, <1>6, <1>7, <1>8, <1>9 DEF Executed, KeepsSource, out

\* The events around authentication leave everything else as it is.
LEMMA AuthenticationEffect ==
  ASSUME NEW r, RecordInv(r),
         NEW out \in {record_authentication_success(r), record_authentication_failure(r)}
  PROVE  KeepsSource(r, out.rec) /\ out.rec.status = r.status
<1>1. PICK es : out = Saved(record_event(r, es), "ok")
  BY DEF record_authentication_success, record_authentication_failure
<1>2. DOMAIN r = Fields
  BY DEF RecordInv, RecordTypeOK, Fields
<1> QED
  BY <1>1, <1>2, StepsKeepSource DEF Saved

\* Nothing an auditor reads gets lost.
Grows(r, t) ==
  /\ r.events \subseteq t.events
  /\ r.history \subseteq t.history
  /\ approved_actions(r) \subseteq approved_actions(t)
  /\ rejected_actions(r) \subseteq rejected_actions(t)

\* Every handler, for whatever it saves.
LEMMA ApprovalGrows ==
  ASSUME NEW r, RecordInv(r), NEW q, q.provider \in Names, resume_from_approval(r, q).saved
  PROVE  Grows(r, resume_from_approval(r, q).rec)
<1> DEFINE t == resume_from_approval(r, q).rec
<1>1. \/ KeepsSource(r, t)
      \/ \E actions : Decides(r, t, actions, {})
  BY ApprovalEffect
<1> HIDE DEF t
<1>2. Grows(r, t)
  BY <1>1 DEF Grows, KeepsSource, Continues, Decides
<1> QED
  BY <1>2 DEF t

LEMMA RejectionGrows ==
  ASSUME NEW r, RecordInv(r), NEW q, reject_approval(r, q).saved
  PROVE  Grows(r, reject_approval(r, q).rec)
BY RejectionEffect DEF Grows, KeepsSource, Continues, Decides

LEMMA RevisionGrows ==
  ASSUME NEW r, RecordInv(r), NEW q, q.provider \in Names, q.mode \in RevisionResumeModes,
         resume_from_revision(r, q).saved
  PROVE  Grows(r, resume_from_revision(r, q).rec)
BY RevisionEffect DEF Grows, Continues

LEMMA ReplanningGrows ==
  ASSUME NEW r, RecordInv(r), NEW q, q.provider \in Names, start_replanning(r, q).saved
  PROVE  Grows(r, start_replanning(r, q).rec)
BY ReplanningEffect DEF Grows, Continues

LEMMA AuthenticationGrows ==
  ASSUME NEW r, RecordInv(r),
         NEW out \in {record_authentication_success(r), record_authentication_failure(r)}
  PROVE  Grows(r, out.rec)
BY AuthenticationEffect DEF Grows, KeepsSource, Continues

\* ------------------------------------------------- the authority behind the grants

\* The policy of r stays, and an authorization that t has over r was granted to an actor
\* with a role for it.
Grants(r, t) ==
  /\ DOMAIN t = Fields
  /\ t.policy = r.policy
  /\ \A e \in t.events \ r.events :
       e.type = "authorization_granted" => HasRole(e.subject, e.actor, r.policy)

LEMMA GrantsTransitive ==
  ASSUME NEW r, NEW s, NEW t, Grants(r, s), Grants(s, t)
  PROVE  Grants(r, t)
BY DEF Grants

\* Nothing but the authorization of actions grants anything.
LEMMA StepsGrantNothing ==
  ASSUME NEW r, DOMAIN r = Fields, NEW next, NEW departments, NEW es,
         \A e \in es : e.type # "authorization_granted"
  PROVE  /\ Grants(r, r)
         /\ Grants(r, Transition(r, next))
         /\ Grants(r, ResetTasks(r, departments))
         /\ Grants(r, ReleaseWaiting(r, next))
         /\ Grants(r, record_event(r, es))
<1>1. Grants(r, r)
  BY DEF Grants
<1>2. Grants(r, Transition(r, next))
  BY DEF Transition, Grants, Fields
<1>3. Grants(r, ResetTasks(r, departments))
  BY DEF ResetTasks, Grants, Fields
<1>4. Grants(r, ReleaseWaiting(r, next))
  BY DEF ReleaseWaiting, Grants, Fields
<1>5. Grants(r, record_event(r, es))
  BY DEF record_event, Grants, Fields
<1> QED
  BY <1>1, <1>2, <1>3, <1>4, <1>5

\* The same for one event or two, whatever they are about.
LEMMA NotesGrantNothing ==
  ASSUME NEW r, DOMAIN r = Fields, NEW type, type # "authorization_granted", NEW subject
  PROVE  /\ Grants(r, record_event(r, {Event(type, subject)}))
         /\ \A other, about :
              other # "authorization_granted" =>
                Grants(r, record_event(r, {Event(type, subject), Event(other, about)}))
<1>1. ASSUME NEW es, \A e \in es : e.type # "authorization_granted"
      PROVE  Grants(r, record_event(r, es))
  BY <1>1, StepsGrantNothing
<1>2. \A t, s : Event(t, s).type = t
  BY DEF Event
<1> QED
  BY <1>1, <1>2

\* Nor does an execution, however it ends.
LEMMA ExecuteGrantsNothing ==
  ASSUME NEW r, DOMAIN r = Fields, NEW name, NEW approved, NEW fail
  PROVE  Grants(r, execute_pending_tasks(r, name, approved, fail).rec)
<1> DEFINE provider == get_trend_provider(name)
           done     == RunAllTasks(r, provider, fail)
<1>1. Grants(r, PauseForApproval(r))
  <2> DEFINE asked  == IF EXT \in pending_actions(r) THEN {} ELSE {Event("approval_requested", EXT)}
             paused == [r EXCEPT
                          !.tasks = [d \in Departments |->
                                       CASE d \in BeforeTrend -> "done"
                                         [] d = "trend"       -> "waiting_approval"
                                         [] d = "review"      -> r.tasks[d]],
                          !.artifacts = @ \union (Unfinished(r) \intersect BeforeTrend),
                          !.approvals = @ \union {<<EXT, "pending">>},
                          !.gate = "open",
                          !.events = @ \union asked]
  <2>1. PauseForApproval(r) = Transition(paused, "waiting_approval")
    BY DEF PauseForApproval
  <2>2. \A e \in asked : e.type # "authorization_granted"
    BY DEF Event
  <2>3. DOMAIN paused = Fields /\ paused.policy = r.policy /\ paused.events = r.events \union asked
    BY DEF Fields
  <2> HIDE DEF paused, asked
  <2>4. Grants(r, paused)
    BY <2>2, <2>3 DEF Grants
  <2>5. Grants(paused, Transition(paused, "waiting_approval"))
    BY <2>3 DEF Transition, Grants, Fields
  <2> QED
    BY <2>1, <2>4, <2>5, GrantsTransitive
<1>2. Grants(r, done) /\ DOMAIN done = Fields
  BY DEF RunAllTasks, Grants, Fields
<1> HIDE DEF done
<1>3. Grants(r, FinishExecution(r, provider, fail))
  <2> DEFINE failed    == Transition(done, "review_failed")
             revised   == Transition(failed, "revision_requested")
             noted     == {Event("revision_requested", "review")}
             delivered == [done EXCEPT !.delivered = TRUE]
  <2>1. \/ FinishExecution(r, provider, fail) = record_event(revised, noted)
        \/ FinishExecution(r, provider, fail) = Transition(delivered, "completed")
    BY DEF FinishExecution, done
  <2>2. \A e \in noted : e.type # "authorization_granted"
    BY DEF Event
  <2> HIDE DEF noted
  <2>3. Grants(done, failed)
    BY <1>2 DEF Transition, Grants, Fields
  <2> HIDE DEF failed
  <2>4. Grants(failed, revised)
    BY <2>3 DEF Transition, Grants, Fields
  <2> HIDE DEF revised
  <2>5. Grants(revised, record_event(revised, noted))
    BY <2>2, <2>4 DEF record_event, Grants, Fields
  <2>6. Grants(done, delivered)
    BY <1>2 DEF Grants, Fields
  <2> HIDE DEF delivered
  <2>7. Grants(delivered, Transition(delivered, "completed"))
    BY <2>6 DEF Transition, Grants, Fields
  <2> QED
    BY <1>2, <2>1, <2>3, <2>4, <2>5, <2>6, <2>7, GrantsTransitive
<1>4. Grants(r, r)
  BY DEF Grants
<1> QED
  BY <1>1, <1>3, <1>4 DEF execute_pending_tasks, Saved, Unsaved

\* What authorize_action grants is what the documented rules allow.
LEMMA AuthorizationGrants ==
  ASSUME NEW r, DOMAIN r = Fields, NEW actions \in SUBSET ActionTypes, NEW actor, NEW allow
  PROVE  Grants(r, authorize_actions(r, actions, actor, allow))
<1> DEFINE es == AuthorizationEvents(r, actions, actor, allow)
<1>1. ASSUME NEW e \in es, e.type = "authorization_granted"
      PROVE  HasRole(e.subject, e.actor, r.policy)
  <2>1. PICK a \in actions \ DeniedActions(r, actions, actor, allow) :
               e = ActorEvent("authorization_granted", a, actor)
    BY <1>1 DEF AuthorizationEvents, ActorEvent, ExaminedActions
  <2>2. authorize_action(a, actor, r.policy, allow)
    BY <2>1 DEF DeniedActions
  <2>3. HasRole(a, actor, r.policy)
    BY <2>2, AuthorizedIsEntitled DEF Entitled
  <2> QED
    BY <2>1, <2>3 DEF ActorEvent
<1> HIDE DEF es
<1>2. authorize_actions(r, actions, actor, allow) = record_event(r, es)
  BY DEF authorize_actions, es
<1> QED
  BY <1>1, <1>2 DEF record_event, Grants, Fields

\* The decisions themselves grant nothing.
LEMMA DecidingGrantsNothing ==
  ASSUME NEW r, DOMAIN r = Fields, NEW actions, NEW actor
  PROVE  Grants(r, ApproveRequests(r, actions, actor)) /\ Grants(r, RejectRequests(r, actor))
<1>1. Grants(r, ApproveRequests(r, actions, actor))
  BY DEF ApproveRequests, Grants, Fields, ActorEvent
<1>2. Grants(r, RejectRequests(r, actor))
  BY DEF RejectRequests, Grants, Fields, ActorEvent
<1> QED
  BY <1>1, <1>2

LEMMA ApprovalGrants ==
  ASSUME NEW r, DOMAIN r = Fields, NEW q
  PROVE  Grants(r, resume_from_approval(r, q).rec)
<1> DEFINE actions    == q.actions \ approved_actions(r)
           authorized == authorize_actions(r, actions, q.actor, q.allow)
           a          == ApproveRequests(authorized, actions, q.actor)
           released   == ReleaseWaiting(a, "pending")
           m          == record_event(released, {Event("resume_triggered", "approval_resume")})
           resumed    == Transition(m, "in_progress")
           partial    == {Event("resume_triggered", "approval_resume_partial")}
           out        == resume_from_approval(r, q)
           approved   == approved_actions(r) \union actions
<1>1. Grants(r, r)
  BY DEF Grants
<1>2. CASE ~ApprovalResumable(r, q)
  BY <1>1, <1>2 DEF resume_from_approval, Unsaved
<1>3. CASE ApprovalResumable(r, q)
  <2>1. \/ out.rec = r
        \/ out.rec = authorized
        \/ out.rec = record_event(a, partial)
        \/ out.rec = execute_pending_tasks(resumed, q.provider, approved, FALSE).rec
    BY DEF resume_from_approval, Saved, Unsaved
  <2> HIDE DEF out
  <2>2. Grants(r, authorized)
    <3>1. actions \in SUBSET ActionTypes
      BY <1>3 DEF ApprovalResumable, Parses
    <3> QED
      BY <3>1, AuthorizationGrants
  <2> HIDE DEF authorized
  <2>3. Grants(authorized, a)
    BY <2>2, DecidingGrantsNothing DEF Grants
  <2> HIDE DEF a
  <2>4. Grants(a, record_event(a, partial))
    BY <2>3 DEF record_event, Event, Grants, Fields
  <2>5. Grants(a, released)
    BY <2>3 DEF ReleaseWaiting, Grants, Fields
  <2> HIDE DEF released
  <2>6. Grants(released, m)
    BY <2>5 DEF record_event, Event, Grants, Fields
  <2> HIDE DEF m
  <2>7. Grants(m, resumed)
    BY <2>6 DEF Transition, Grants, Fields
  <2> HIDE DEF resumed
  <2>8. Grants(resumed, execute_pending_tasks(resumed, q.provider, approved, FALSE).rec)
    BY <2>7, ExecuteGrantsNothing DEF Grants
  <2>9. Grants(r, a) /\ Grants(a, resumed)
    BY <2>2, <2>3, <2>5, <2>6, <2>7, GrantsTransitive
  <2>10. /\ Grants(r, record_event(a, partial))
         /\ Grants(r, execute_pending_tasks(resumed, q.provider, approved, FALSE).rec)
    BY <2>4, <2>8, <2>9, GrantsTransitive
  <2> QED
    BY <1>1, <2>1, <2>2, <2>10 DEF out
<1> QED
  BY <1>2, <1>3

LEMMA RejectionGrants ==
  ASSUME NEW r, DOMAIN r = Fields, NEW q
  PROVE  Grants(r, reject_approval(r, q).rec)
<1> DEFINE authorized == authorize_actions(r, pending_actions(r), q.actor, q.allow)
           a          == RejectRequests(authorized, q.actor)
           m          == ReleaseWaiting(a, "revision_requested")
           t          == Transition(m, "revision_requested")
           out        == reject_approval(r, q)
<1>1. out.rec = r \/ out.rec = authorized \/ out.rec = t
  BY DEF reject_approval, Saved, Unsaved
<1> HIDE DEF out
<1>2. Grants(r, r)
  BY DEF Grants
<1>3. Grants(r, authorized)
  <2>1. pending_actions(r) \in SUBSET ActionTypes
    BY DEF pending_actions, Having
  <2> QED
    BY <2>1, AuthorizationGrants
<1> HIDE DEF authorized
<1>4. Grants(authorized, a)
  BY <1>3, DecidingGrantsNothing DEF Grants
<1> HIDE DEF a
<1>5. Grants(a, m)
  BY <1>4 DEF ReleaseWaiting, Grants, Fields
<1> HIDE DEF m
<1>6. Grants(m, t)
  BY <1>5 DEF Transition, Grants, Fields
<1> HIDE DEF t
<1>7. Grants(r, t)
  BY <1>3, <1>4, <1>5, <1>6, GrantsTransitive
<1> QED
  BY <1>1, <1>2, <1>3, <1>7 DEF out

LEMMA RevisionGrants ==
  ASSUME NEW r, DOMAIN r = Fields, NEW q
  PROVE  Grants(r, resume_from_revision(r, q).rec)
<1> DEFINE noted == record_event(r, {Event("resume_triggered", q.mode)})
           m     == ResetTasks(noted, RevisionDepartments(q.mode))
           start == Transition(m, "in_progress")
           out   == resume_from_revision(r, q)
<1>1. \/ out.rec = r
      \/ out.rec = Transition(m, "ready_for_planning")
      \/ out.rec = execute_pending_tasks(start, q.provider, q.actions, FALSE).rec
  BY DEF resume_from_revision, Saved, Unsaved
<1> HIDE DEF out
<1>2. Grants(r, r)
  BY DEF Grants
<1>3. Grants(r, noted)
  BY DEF record_event, Event, Grants, Fields
<1> HIDE DEF noted
<1>4. Grants(noted, m)
  BY <1>3 DEF ResetTasks, Grants, Fields
<1> HIDE DEF m
<1>5. Grants(m, start) /\ Grants(m, Transition(m, "ready_for_planning"))
  BY <1>4 DEF Transition, Grants, Fields
<1> HIDE DEF start
<1>6. Grants(start, execute_pending_tasks(start, q.provider, q.actions, FALSE).rec)
  BY <1>5, ExecuteGrantsNothing DEF Grants
<1>7. /\ Grants(r, Transition(m, "ready_for_planning"))
      /\ Grants(r, execute_pending_tasks(start, q.provider, q.actions, FALSE).rec)
  BY <1>3, <1>4, <1>5, <1>6, GrantsTransitive
<1> QED
  BY <1>1, <1>2, <1>7 DEF out

LEMMA ReplanningGrants ==
  ASSUME NEW r, DOMAIN r = Fields, NEW q
  PROVE  Grants(r, start_replanning(r, q).rec)
<1> DEFINE reset == IF q.reset_downstream_tasks
                    THEN ResetTasks(r, {"design", "build", "trend", "review"}) ELSE r
           m     == record_event(reset, {Event("replanning_started", "")})
           start == Transition(m, "in_progress")
           out   == start_replanning(r, q)
<1>1. \/ out.rec = r
      \/ out.rec = execute_pending_tasks(start, q.provider, q.actions, FALSE).rec
  BY DEF start_replanning, Saved, Unsaved
<1> HIDE DEF out
<1>2. Grants(r, r)
  BY DEF Grants
<1>3. Grants(r, reset)
  BY DEF ResetTasks, Grants, Fields
<1> HIDE DEF reset
<1>4. Grants(reset, m)
  <2>1. "replanning_started" # "authorization_granted"
    OBVIOUS
  <2>2. DOMAIN reset = Fields
    BY <1>3 DEF Grants
  <2> QED
    BY <2>1, <2>2, NotesGrantNothing, Zenon
<1> HIDE DEF m
<1>5. Grants(m, start)
  BY <1>4 DEF Transition, Grants, Fields
<1> HIDE DEF start
<1>6. Grants(start, execute_pending_tasks(start, q.provider, q.actions, FALSE).rec)
  BY <1>5, ExecuteGrantsNothing DEF Grants
<1>7. Grants(r, execute_pending_tasks(start, q.provider, q.actions, FALSE).rec)
  BY <1>3, <1>4, <1>5, <1>6, GrantsTransitive
<1> QED
  BY <1>1, <1>2, <1>7 DEF out

LEMMA AuthenticationGrants ==
  ASSUME NEW r, DOMAIN r = Fields,
         NEW out \in {record_authentication_success(r), record_authentication_failure(r)}
  PROVE  Grants(r, out.rec)
<1> DEFINE succeeded == {Event("authentication_succeeded", ""), Event("actor_resolved", "")}
           failed    == {Event("authentication_failed", "")}
<1>1. /\ "authentication_succeeded" # "authorization_granted"
      /\ "authentication_failed" # "authorization_granted"
      /\ "actor_resolved" # "authorization_granted"
  OBVIOUS
<1>2. Grants(r, record_event(r, succeeded)) /\ Grants(r, record_event(r, failed))
  BY <1>1, NotesGrantNothing, Zenon
<1>3. out \in {Saved(record_event(r, succeeded), "ok"), Saved(record_event(r, failed), "ok")}
  BY Zenon DEF record_authentication_success, record_authentication_failure
<1> HIDE DEF succeeded, failed
<1> QED
  BY <1>2, <1>3 DEF Saved

\* All authorizations on a record were granted to actors with a role for them.
GrantsHaveRole(r) ==
  \A e \in r.events :
    e.type = "authorization_granted" => HasRole(e.subject, e.actor, r.policy)

LEMMA GrantsKeep ==
  ASSUME NEW r, NEW t, Grants(r, t), GrantsHaveRole(r)
  PROVE  GrantsHaveRole(t)
BY DEF Grants, GrantsHaveRole

LEMMA RunGrants ==
  ASSUME NEW q
  PROVE  GrantsHaveRole(run(q).rec)
<1> DEFINE new     == NewRecord(q.policy)
           taken   == Transition(new, "intake_pending")
           planned == Transition(taken, "ready_for_planning")
           started == Transition(planned, "in_progress")
<1>1. \/ run(q).rec = started
      \/ run(q).rec = execute_pending_tasks(started, q.provider, q.actions,
                                            q.simulate_review_failure).rec
  BY DEF run, Unsaved
<1>2. DOMAIN new = Fields /\ new.events = {}
  BY DEF NewRecord, Fields
<1> HIDE DEF new
<1>3. Grants(new, taken)
  BY <1>2 DEF Transition, Grants, Fields
<1> HIDE DEF taken
<1>4. Grants(taken, planned)
  BY <1>3 DEF Transition, Grants, Fields
<1> HIDE DEF planned
<1>5. Grants(planned, started)
  BY <1>4 DEF Transition, Grants, Fields
<1> HIDE DEF started
<1>6. Grants(new, started)
  BY <1>3, <1>4, <1>5, GrantsTransitive
<1>7. Grants(started, execute_pending_tasks(started, q.provider, q.actions,
                                           q.simulate_review_failure).rec)
  BY <1>6, ExecuteGrantsNothing DEF Grants
<1>8. Grants(new, run(q).rec)
  BY <1>1, <1>6, <1>7, GrantsTransitive
<1>9. GrantsHaveRole(new)
  BY <1>2 DEF GrantsHaveRole
<1> QED
  BY <1>8, <1>9, GrantsKeep

\* A decided request that is new on t is one of the new approvals or rejections.
LEMMA NewDecisions ==
  ASSUME NEW r, NEW t, NEW approved, NEW rejected,
         t.approvals \subseteq ActionTypes \X {"pending", "approved", "rejected"},
         approved_actions(t) = approved_actions(r) \union approved,
         rejected_actions(t) = rejected_actions(r) \union rejected,
         NEW d \in t.approvals \ r.approvals, d[2] # "pending"
  PROVE  d[1] \in approved \union rejected /\ d[1] \in ActionTypes
<1>1. /\ d[1] \in ActionTypes /\ d = <<d[1], d[2]>>
      /\ d[2] = "approved" \/ d[2] = "rejected"
  OBVIOUS
<1>2. CASE d[2] = "approved"
  BY <1>1, <1>2 DEF approved_actions, Having
<1>3. CASE d[2] = "rejected"
  BY <1>1, <1>3 DEF rejected_actions, Having
<1> QED
  BY <1>1, <1>2, <1>3

\* When the decisions are the same, no decided request is new.
LEMMA NoNewDecisions ==
  ASSUME NEW r, NEW t, KeepsSource(r, t),
         t.approvals \subseteq ActionTypes \X {"pending", "approved", "rejected"},
         NEW d \in t.approvals \ r.approvals, d[2] # "pending"
  PROVE  FALSE
<1>1. /\ d[1] \in ActionTypes /\ d = <<d[1], d[2]>>
      /\ d[2] = "approved" \/ d[2] = "rejected"
  OBVIOUS
<1>2. CASE d[2] = "approved"
  BY <1>1, <1>2 DEF KeepsSource, Continues, approved_actions, Having
<1>3. CASE d[2] = "rejected"
  BY <1>1, <1>3 DEF KeepsSource, Continues, rejected_actions, Having
<1> QED
  BY <1>1, <1>2, <1>3

\* Whatever comes of an approval, also when the provider turns out not to exist after
\* the requests of the copy were decided: new decisions are authorized ones.
LEMMA ApprovalAuthorized ==
  ASSUME NEW r, RecordInv(r), NEW q, q.provider \in Names,
         NEW d \in resume_from_approval(r, q).rec.approvals \ r.approvals, d[2] # "pending"
  PROVE  Entitled(d[1], q.actor, r.policy, q.allow)
<1> DEFINE actions    == q.actions \ approved_actions(r)
           authorized == authorize_actions(r, actions, q.actor, q.allow)
           a          == ApproveRequests(authorized, actions, q.actor)
           m          == record_event(ReleaseWaiting(a, "pending"),
                                      {Event("resume_triggered", "approval_resume")})
           resumed    == Transition(m, "in_progress")
           out        == resume_from_approval(r, q)
<1>1. SUFFICES /\ DeniedActions(r, actions, q.actor, q.allow) = {}
               /\ d[1] \in actions /\ d[1] \in ActionTypes
  BY AuthorizedIsEntitled DEF DeniedActions
<1>2. CASE out.saved
  <2>1. out.rec.approvals \subseteq ActionTypes \X {"pending", "approved", "rejected"}
    BY <1>2, ApprovalKeeps DEF RecordInv, RecordTypeOK
  <2>2. \/ KeepsSource(r, out.rec)
        \/ /\ DeniedActions(r, actions, q.actor, q.allow) = {}
           /\ Decides(r, out.rec, actions, {})
    BY <1>2, ApprovalEffect
  <2>3. d \in out.rec.approvals \ r.approvals
    OBVIOUS
  <2> HIDE DEF out, actions
  <2>4. ~KeepsSource(r, out.rec)
    BY <2>1, <2>3, NoNewDecisions
  <2> QED
    BY <2>1, <2>2, <2>3, <2>4, NewDecisions DEF Decides
<1>3. CASE ~out.saved
  <2>1. out.rec # r
    OBVIOUS
  <2>2. /\ ApprovalResumable(r, q)
        /\ DeniedActions(r, actions, q.actor, q.allow) = {}
        /\ pending_actions(r) \ q.actions = {}
        /\ out = execute_pending_tasks(resumed, q.provider, approved_actions(r) \union actions, FALSE)
    BY <1>3, <2>1 DEF resume_from_approval, Saved, Unsaved
  <2>3. r.status = "waiting_approval" /\ actions \subseteq pending_actions(r)
    BY <2>2 DEF ApprovalResumable, ValidActions, known_actions
  <2>4. pending_actions(r) \subseteq actions \union approved_actions(r)
    BY <2>2
  <2>5. Executable(resumed)
    BY <2>2, <2>3, <2>4, ApprovalExecutes
  <2>6. Decides(r, resumed, actions, {})
    BY <2>2, <2>3, ResumedDecides
  <2> HIDE DEF resumed, out
  <2>7. out.rec = resumed
    <3>1. get_trend_provider(q.provider) = "raises"
      BY <1>3, <2>2 DEF execute_pending_tasks, Saved, out
    <3>2. out = Unsaved(resumed, "refused")
      BY <2>2, <3>1 DEF execute_pending_tasks
    <3> QED
      BY <3>2 DEF Unsaved
  <2> HIDE DEF actions
  <2>8. d \in resumed.approvals \ r.approvals
    BY <2>7 DEF out
  <2> QED
    BY <2>2, <2>5, <2>6, <2>8, NewDecisions DEF Decides, Executable, Shape
<1> QED
  BY <1>2, <1>3

\* The same of a rejection.
LEMMA RejectionAuthorized ==
  ASSUME NEW r, RecordInv(r), NEW q,
         NEW d \in reject_approval(r, q).rec.approvals \ r.approvals, d[2] # "pending"
  PROVE  Entitled(d[1], q.actor, r.policy, q.allow)
<1> DEFINE out == reject_approval(r, q)
<1>1. out.saved
  <2>1. out.rec # r
    OBVIOUS
  <2> QED
    BY <2>1 DEF reject_approval, Saved, Unsaved
<1>2. out.rec.approvals \subseteq ActionTypes \X {"pending", "approved", "rejected"}
  BY <1>1, RejectionKeeps DEF RecordInv, RecordTypeOK
<1>3. \/ KeepsSource(r, out.rec)
      \/ /\ DeniedActions(r, pending_actions(r), q.actor, q.allow) = {}
         /\ Decides(r, out.rec, {}, pending_actions(r))
  BY <1>1, RejectionEffect
<1>4. d \in out.rec.approvals \ r.approvals
  OBVIOUS
<1> HIDE DEF out
<1>5. ~KeepsSource(r, out.rec)
  BY <1>2, <1>4, NoNewDecisions
<1>6. d[1] \in pending_actions(r) /\ d[1] \in ActionTypes
  BY <1>2, <1>3, <1>4, <1>5, NewDecisions DEF Decides
<1> QED
  BY <1>3, <1>5, <1>6, AuthorizedIsEntitled DEF DeniedActions

\* An approval of which the documented rules deny a part changes nothing but events.
LEMMA ApprovalDenied ==
  ASSUME NEW r, DOMAIN r = Fields, NEW q, NEW a \in q.actions \ approved_actions(r),
         ~Entitled(a, q.actor, r.policy, q.allow)
  PROVE  \A f \in DOMAIN r \ {"events"} : resume_from_approval(r, q).rec[f] = r[f]
<1> DEFINE actions == q.actions \ approved_actions(r)
           authorized == authorize_actions(r, actions, q.actor, q.allow)
           out == resume_from_approval(r, q)
<1>1. out.rec = r \/ out.rec = authorized
  <2>1. CASE ~ApprovalResumable(r, q)
    BY <2>1 DEF resume_from_approval, Unsaved
  <2>2. CASE ApprovalResumable(r, q)
    <3>1. a \in ActionTypes
      BY <2>2 DEF ApprovalResumable, Parses
    <3>2. a \in DeniedActions(r, actions, q.actor, q.allow)
      BY <3>1, AuthorizedIsEntitled DEF DeniedActions
    <3> QED
      BY <3>2 DEF resume_from_approval, Unsaved, Saved
  <2> QED
    BY <2>1, <2>2
<1> HIDE DEF out
<1>2. \A f \in DOMAIN r \ {"events"} : authorized[f] = r[f]
  BY DEF authorize_actions, record_event
<1> QED
  BY <1>1, <1>2 DEF out

\* The same of a rejection, which has to be allowed to close everything pending.
LEMMA RejectionDenied ==
  ASSUME NEW r, DOMAIN r = Fields, NEW q, NEW a \in pending_actions(r),
         ~Entitled(a, q.actor, r.policy, q.allow)
  PROVE  \A f \in DOMAIN r \ {"events"} : reject_approval(r, q).rec[f] = r[f]
<1> DEFINE authorized == authorize_actions(r, pending_actions(r), q.actor, q.allow)
           out == reject_approval(r, q)
<1>1. a \in DeniedActions(r, pending_actions(r), q.actor, q.allow)
  <2>1. a \in ActionTypes
    BY DEF pending_actions, Having
  <2> QED
    BY <2>1, AuthorizedIsEntitled DEF DeniedActions
<1>2. out.rec = r \/ out.rec = authorized
  BY <1>1 DEF reject_approval, Unsaved, Saved
<1> HIDE DEF out
<1>3. \A f \in DOMAIN r \ {"events"} : authorized[f] = r[f]
  BY DEF authorize_actions, record_event
<1> QED
  BY <1>2, <1>3 DEF out

\* ------------------------------------------------------------------- retries

\* An approval that completed the project is recognized when it comes again.
LEMMA ApprovalRetry ==
  ASSUME NEW r, RecordInv(r), NEW q, q.provider \in Names,
         resume_from_approval(r, q).saved, resume_from_approval(r, q).reply = "ok",
         pending_actions(resume_from_approval(r, q).rec) = {}
  PROVE  LET t == resume_from_approval(r, q).rec
         IN resume_from_approval(t, q) = Unsaved(t, "idempotent")
<1> DEFINE t == resume_from_approval(r, q).rec
<1>1. /\ ApprovalResumable(r, q)
      /\ t.status = "completed"
      /\ Decides(r, t, q.actions \ approved_actions(r), {})
  BY ApprovalEffect
<1>2. pending_actions(t) = {}
  OBVIOUS
<1> HIDE DEF t
<1>3. /\ q.actions \subseteq approved_actions(t)
      /\ q.actions \intersect rejected_actions(t) = {}
      /\ q.actions # {} /\ Parses(q.actions)
  BY <1>1 DEF Decides, ApprovalResumable, ValidActions
<1>4. idempotent_resume_from_approval(t, q)
  BY <1>1, <1>2, <1>3 DEF idempotent_resume_from_approval, ValidActions, known_actions
<1> QED
  BY <1>4 DEF resume_from_approval, t

\* A rejection that was recorded is recognized when it comes again.
LEMMA RejectionRetry ==
  ASSUME NEW r, RecordInv(r), NEW q,
         reject_approval(r, q).saved, reject_approval(r, q).reply = "ok"
  PROVE  LET t == reject_approval(r, q).rec
         IN reject_approval(t, q) = Unsaved(t, "idempotent")
<1> DEFINE t == reject_approval(r, q).rec
<1>1. /\ q.reason_given /\ Rejectable(r, q)
      /\ t.status = "revision_requested"
      /\ Decides(r, t, {}, pending_actions(r))
  BY RejectionEffect
<1> HIDE DEF t
<1>2. /\ pending_actions(r) # {} /\ q.actions \subseteq pending_actions(r) /\ Parses(q.actions)
      /\ pending_actions(r) \subseteq rejected_actions(t)
  BY <1>1 DEF Decides, Rejectable
<1>3. idempotent_reject(t, q)
  BY <1>1, <1>2 DEF idempotent_reject
<1> QED
  BY <1>1, <1>3 DEF reject_approval, t

\* A resume from revision that did not stop at the gate.
LEMMA RevisionRetry ==
  ASSUME NEW r, RecordInv(r), NEW q, q.provider \in Names, q.mode \in RevisionResumeModes,
         resume_from_revision(r, q).saved,
         resume_from_revision(r, q).rec.status # "waiting_approval"
  PROVE  LET t == resume_from_revision(r, q).rec
         IN resume_from_revision(t, q) = Unsaved(t, "idempotent")
<1> DEFINE t == resume_from_revision(r, q).rec
<1>1. /\ Event("resume_triggered", q.mode) \in t.events
      /\ q.mode = "replanning" => t.status = "ready_for_planning"
      /\ q.mode # "replanning" => t.status = "completed"
  BY RevisionEffect
<1> HIDE DEF t
<1>2. idempotent_resume_from_revision(t, q.mode) /\ t.status # "revision_requested"
  BY <1>1 DEF idempotent_resume_from_revision, HasResumed
<1> QED
  BY <1>2 DEF resume_from_revision, t

\* The start of a replanning that did not stop at the gate.
LEMMA ReplanningRetry ==
  ASSUME NEW r, RecordInv(r), NEW q, q.provider \in Names, start_replanning(r, q).saved,
         start_replanning(r, q).rec.status # "waiting_approval"
  PROVE  LET t == start_replanning(r, q).rec
         IN start_replanning(t, q) = Unsaved(t, "idempotent")
<1> DEFINE t == start_replanning(r, q).rec
<1>1. t.status \in {"waiting_approval", "completed"}
  BY ReplanningEffect
<1>2. Event("replanning_started", "") \in t.events
  BY ReplanningEffect
<1>3. t.status # "waiting_approval"
  OBVIOUS
<1> HIDE DEF t
<1>4. idempotent_start_replanning(t) /\ t.status # "ready_for_planning"
  BY <1>1, <1>2, <1>3 DEF idempotent_start_replanning
<1> QED
  BY <1>4 DEF start_replanning, t
===============================================================================
