----------------------------- MODULE ConcurrentApi -----------------------------
(***************************************************************************)
(* app/api/routes.py over the orchestrator, with several requests in       *)
(* flight.  The endpoints are plain functions that FastAPI runs on threads *)
(* of its pool, and nothing locks a project: a request reads a copy of the *)
(* record, works on it, and saves the whole copy back.  A protected        *)
(* request does so twice, first for its authentication event               *)
(* (_resolve_authenticated_actor), then for the handler itself.            *)
(*                                                                         *)
(* A worker's step is one access to the repository; between two steps of a *)
(* worker the others may take any number of theirs.  What a request asks   *)
(* for is only looked at when its handler runs, so it is chosen there.     *)
(***************************************************************************)
EXTENDS OrchestratorService

CONSTANT Workers   \* threads of the pool

VARIABLE worker    \* what each thread is doing: [at, project, copy]

apiVars == <<store, pregranted, worker>>

Idle == [at |-> "idle"]

\* The worker reads the record of p before the step `at`.
Holding(at, p) == [at |-> at, project |-> p, copy |-> store[p]]

ApiInit == Init /\ worker = [w \in Workers |-> Idle]

At(w, at) == worker[w].at = at

Goes(w, state) == worker' = [worker EXCEPT ![w] = state]

\* POST /orchestrator/run needs no authentication and creates its own record:
\* nobody else knows the id before the save.
RunRequest(w) ==
  /\ At(w, "idle")
  /\ \E p \in Projects : Run(p)
  /\ UNCHANGED worker

\* A protected request arrives, its token is resolved and the authentication event
\* is about to be recorded on the copy just read (record_authentication_*).  For an
\* unknown project no event is recorded and the handler answers 404.
Authenticate(w) ==
  /\ At(w, "idle")
  /\ \E p \in Stored : Goes(w, Holding("authenticating", p))
  /\ UNCHANGED <<store, pregranted>>

\* The copy with the event overwrites the stored record; a failed authentication
\* ends the request with 401.
SaveAuthentication(w) ==
  /\ At(w, "authenticating")
  /\ LET p == worker[w].project
         r == worker[w].copy
     IN \/ /\ Publish(p, record_authentication_success(r))
           /\ Goes(w, [at |-> "authenticated", project |-> p])
        \/ /\ Publish(p, record_authentication_failure(r))
           /\ Goes(w, Idle)
  /\ UNCHANGED pregranted

\* The handler's own read (_get_record_or_raise).
ReadRecord(w) ==
  /\ At(w, "authenticated")
  /\ Goes(w, Holding("handling", worker[w].project))
  /\ UNCHANGED <<store, pregranted>>

\* The handler runs on its copy; what it saves overwrites the stored record, and
\* the request is answered.
Handle(w) ==
  /\ At(w, "handling")
  /\ LET p == worker[w].project
         r == worker[w].copy
     IN \/ /\ \E q \in ApprovalRequests : Publish(p, resume_from_approval(r, q))
           /\ UNCHANGED pregranted
        \/ /\ \E q \in RejectionRequests : Publish(p, reject_approval(r, q))
           /\ UNCHANGED pregranted
        \/ \E q \in RevisionRequests :
             PublishGranted(p, resume_from_revision(r, q),
                            IF q.mode = "replanning" THEN {} ELSE q.actions)
        \/ \E q \in ReplanningRequests :
             PublishGranted(p, start_replanning(r, q), q.actions)
  /\ Goes(w, Idle)

Serve(w) == SaveAuthentication(w) \/ ReadRecord(w) \/ Handle(w)

ApiNext == \E w \in Workers : RunRequest(w) \/ Authenticate(w) \/ Serve(w)

ApiSpec == ApiInit /\ [][ApiNext]_apiVars

\* ------------------------------------------------------------------ properties

Busy == {w \in Workers : worker[w].at \in {"authenticating", "handling"}}

\* Threads hold copies of well-typed records of known projects.
ApiTypeOK ==
  /\ TypeOK
  /\ \A w \in Workers : worker[w].at \in {"idle", "authenticating", "authenticated", "handling"}
  /\ \A w \in Workers : worker[w].at # "idle" => worker[w].project \in Stored
  /\ \A w \in Busy : RecordTypeOK(worker[w].copy)

\* Whatever the interleaving of the reads and saves of concurrent requests, the
\* store never holds a mixture: in every record, and in every copy a thread works
\* on, status, tasks, requests, checkpoints, reviews and audit events agree as they
\* do when calls come one at a time (get returns a copy, save replaces the whole
\* record).
StoredRecordsConsistent ==
  /\ \A p \in Stored : RecordInv(store[p])
  /\ \A w \in Busy : RecordInv(worker[w].copy)

\* A decision that a race has lost can be taken again: whichever copy was saved last,
\* what it leaves of the project is a record that the calls of its lane get on (two
\* handlers that both passed their checks on copies of the same record).
LostDecisionsCanBeRetaken == \A p \in Stored : GetsOn(store[p])

\* An update is lost only through a stale copy: while every copy a thread holds is
\* the stored record, a save loses no audit event, status change or decision and
\* leaves a completed project completed.
FreshCopiesLoseNothing ==
  [][(\A w \in Busy : worker[w].copy = store[worker[w].project]) =>
       \A p \in Stored :
         /\ store[p].events \subseteq store'[p].events
         /\ store[p].history \subseteq store'[p].history
         /\ approved_actions(store[p]) \subseteq approved_actions(store'[p])
         /\ rejected_actions(store[p]) \subseteq rejected_actions(store'[p])
         /\ store[p].status = "completed" => store'[p].status = "completed"]_apiVars

\* The state machine has no way out of completed; a save of a copy that was read
\* before the completion takes the project back.
CompletionSurvivesRaces ==
  [][\A p \in Stored : store[p].status = "completed" => store'[p].status = "completed"]_apiVars
===============================================================================
