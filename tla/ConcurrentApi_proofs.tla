-------------------------- MODULE ConcurrentApi_proofs --------------------------
(***************************************************************************)
(* Races between requests never produce a mixture, for every number of     *)
(* threads and projects.                                                   *)
(*                                                                         *)
(* A thread saves what a handler made of its copy, and its copy was in the *)
(* store once; so it is enough that the stored records and all copies      *)
(* satisfy RecordInv together.  That a copy is stale does not matter.      *)
(***************************************************************************)
EXTENDS ConcurrentApi, OrchestratorService_proofs

WorkersOK ==
  /\ DOMAIN worker = Workers
  /\ \A w \in Workers :
       /\ worker[w].at \in {"idle", "authenticating", "authenticated", "handling"}
       /\ worker[w].at # "idle" => worker[w].project \in Stored
       /\ w \in Busy => RecordInv(worker[w].copy)

ApiIInv == IInv /\ WorkersOK

\* A record that satisfies RecordInv is not the missing one.
LEMMA NotAbsent ==
  ASSUME NEW rec, RecordInv(rec)
  PROVE  rec # NoRecord
<1>1. rec.status \in StoredStatuses
  BY DEF RecordInv, RecordTypeOK
<1>2. "absent" \notin StoredStatuses /\ NoRecord.status = "absent"
  BY DEF StoredStatuses, ProjectStatuses, NoRecord
<1> QED
  BY <1>1, <1>2

\* A save of such a record forgets no project.
LEMMA PublishForgetsNone ==
  ASSUME IInv, NEW p \in Projects, NEW out,
         out.saved => RecordInv(out.rec),
         Publish(p, out)
  PROVE  Stored \subseteq Stored'
<1> SUFFICES ASSUME NEW s \in Stored PROVE store'[s] # NoRecord
  BY DEF Stored, Known
<1>1. s \in DOMAIN store /\ store[s] # NoRecord
  BY DEF Stored, Known, IInv
<1>2. CASE out.saved /\ s = p
  <2>1. store'[s] = out.rec
    BY <1>1, <1>2 DEF Publish
  <2> QED
    BY <1>2, <2>1, NotAbsent
<1>3. CASE ~(out.saved /\ s = p)
  BY <1>1, <1>3 DEF Publish
<1> QED
  BY <1>2, <1>3

\* The threads that go on as they were keep what they have; the one that moved has
\* to be given.
LEMMA OneWorkerMoves ==
  ASSUME WorkersOK, Stored \subseteq Stored', NEW w \in Workers, NEW state, Goes(w, state),
         state.at \in {"idle", "authenticating", "authenticated", "handling"},
         state.at # "idle" => state.project \in Stored,
         state.at \in {"authenticating", "handling"} => RecordInv(state.copy)
  PROVE  WorkersOK'
<1>1. DOMAIN worker' = Workers
  BY DEF Goes, WorkersOK
<1>2. ASSUME NEW v \in Workers
      PROVE  /\ worker'[v].at \in {"idle", "authenticating", "authenticated", "handling"}
             /\ worker'[v].at # "idle" => worker'[v].project \in Stored'
             /\ worker'[v].at \in {"authenticating", "handling"} => RecordInv(worker'[v].copy)
  <2>1. CASE v = w
    <3>1. worker'[v] = state
      BY <2>1 DEF Goes, WorkersOK
    <3> QED
      BY <3>1
  <2>2. CASE v # w
    <3>1. worker'[v] = worker[v]
      BY <2>2 DEF Goes, WorkersOK
    <3> QED
      BY <3>1 DEF WorkersOK, Busy
  <2> QED
    BY <2>1, <2>2
<1> QED
  BY <1>1, <1>2 DEF WorkersOK, Busy

\* A thread ends a pass by publishing what a handler made of its copy: a record that
\* satisfies RecordInv, in which the trail and the decisions of the copy are kept, and
\* which is completed if the copy was.
Saves(w, out) ==
  LET p == worker[w].project
      r == worker[w].copy
  IN /\ w \in Busy /\ RecordInv(r) /\ p \in Stored
     /\ Publish(p, out)
     /\ out.saved => /\ RecordInv(out.rec)
                     /\ Grows(r, out.rec)
                     /\ r.status = "completed" => out.rec.status = "completed"
     /\ pregranted' \subseteq Projects
     /\ Goes(w, Idle) \/ Goes(w, [at |-> "authenticated", project |-> p])

LEMMA BusyThreads ==
  ASSUME ApiIInv, NEW w \in Workers, At(w, "authenticating") \/ At(w, "handling")
  PROVE  w \in Busy /\ RecordInv(worker[w].copy) /\ worker[w].project \in Stored
BY DEF ApiIInv, WorkersOK, Busy, At

LEMMA AuthenticationSaves ==
  ASSUME ApiIInv, NEW w \in Workers, SaveAuthentication(w)
  PROVE  \E out : Saves(w, out)
<1> DEFINE p == worker[w].project
           r == worker[w].copy
<1>1. w \in Busy /\ RecordInv(r) /\ p \in Stored
  BY BusyThreads DEF SaveAuthentication
<1>2. PICK out \in {record_authentication_success(r), record_authentication_failure(r)} :
        /\ Publish(p, out)
        /\ Goes(w, Idle) \/ Goes(w, [at |-> "authenticated", project |-> p])
  BY DEF SaveAuthentication
<1>3. pregranted' = pregranted /\ pregranted \subseteq Projects
  BY DEF SaveAuthentication, ApiIInv, IInv
<1>4. RecordInv(out.rec)
  BY <1>1, <1>2, AuthenticationKeeps
<1>5. Grows(r, out.rec)
  BY <1>1, <1>2, AuthenticationGrows
<1>6. out.rec.status = r.status
  BY <1>1, <1>2, AuthenticationEffect
<1> QED
  BY <1>1, <1>2, <1>3, <1>4, <1>5, <1>6 DEF Saves

LEMMA HandlerSaves ==
  ASSUME ApiIInv, NEW w \in Workers, Handle(w)
  PROVE  \E out : Saves(w, out)
<1> DEFINE p == worker[w].project
           r == worker[w].copy
<1>1. /\ w \in Busy /\ RecordInv(r) /\ p \in Stored /\ p \in Projects
      /\ Goes(w, Idle) /\ pregranted \subseteq Projects
  BY BusyThreads DEF Handle, ApiIInv, IInv, Stored
<1>2. \A name \in ProviderNames : name \in Names
  BY ServiceAssumption DEF Names
<1>3. SUFFICES \E out :
        /\ Publish(p, out)
        /\ out.saved => RecordInv(out.rec) /\ Grows(r, out.rec)
        /\ r.status = "completed" => ~out.saved
        /\ pregranted' = pregranted \/ pregranted' = pregranted \union {p}
  BY <1>1 DEF Saves
<1>4. CASE /\ \E q \in ApprovalRequests : Publish(p, resume_from_approval(r, q))
           /\ UNCHANGED pregranted
  <2>1. PICK q \in ApprovalRequests : Publish(p, resume_from_approval(r, q))
    BY <1>4
  <2> HIDE DEF p, r
  <2> DEFINE out == resume_from_approval(r, q)
  <2>2. out.saved => RecordInv(out.rec) /\ Grows(r, out.rec)
    BY <1>1, <1>2, ApprovalKeeps, ApprovalGrows DEF ApprovalRequests
  <2>3. r.status = "completed" => ~out.saved
    BY NothingSavedWhenCompleted
  <2> HIDE DEF out
  <2> QED
    BY <1>4, <2>1, <2>2, <2>3 DEF out
<1>5. CASE /\ \E q \in RejectionRequests : Publish(p, reject_approval(r, q))
           /\ UNCHANGED pregranted
  <2>1. PICK q \in RejectionRequests : Publish(p, reject_approval(r, q))
    BY <1>5
  <2> HIDE DEF p, r
  <2> DEFINE out == reject_approval(r, q)
  <2>2. out.saved => RecordInv(out.rec) /\ Grows(r, out.rec)
    BY <1>1, RejectionKeeps, RejectionGrows
  <2>3. r.status = "completed" => ~out.saved
    BY NothingSavedWhenCompleted
  <2> HIDE DEF out
  <2> QED
    BY <1>5, <2>1, <2>2, <2>3 DEF out
<1>6. CASE \E q \in RevisionRequests :
             PublishGranted(p, resume_from_revision(r, q),
                            IF q.mode = "replanning" THEN {} ELSE q.actions)
  <2>1. PICK q \in RevisionRequests :
          PublishGranted(p, resume_from_revision(r, q),
                         IF q.mode = "replanning" THEN {} ELSE q.actions)
    BY <1>6
  <2> HIDE DEF p, r
  <2> DEFINE out   == resume_from_revision(r, q)
             named == IF q.mode = "replanning" THEN {} ELSE q.actions
  <2>2. q.provider \in Names /\ q.mode \in RevisionResumeModes
    BY <1>2 DEF RevisionRequests
  <2>3. out.saved => RecordInv(out.rec) /\ Grows(r, out.rec)
    BY <1>1, <2>2, RevisionKeeps, RevisionGrows
  <2>4. r.status = "completed" => ~out.saved
    BY NothingSavedWhenCompleted
  <2>5. PublishGranted(p, out, named)
    BY <2>1
  <2> HIDE DEF out, named
  <2> QED
    BY <2>3, <2>4, <2>5 DEF PublishGranted
<1>7. CASE \E q \in ReplanningRequests : PublishGranted(p, start_replanning(r, q), q.actions)
  <2>1. PICK q \in ReplanningRequests : PublishGranted(p, start_replanning(r, q), q.actions)
    BY <1>7
  <2> HIDE DEF p, r
  <2> DEFINE out == start_replanning(r, q)
  <2>2. out.saved => RecordInv(out.rec) /\ Grows(r, out.rec)
    BY <1>1, <1>2, ReplanningKeeps, ReplanningGrows DEF ReplanningRequests
  <2>3. r.status = "completed" => ~out.saved
    BY NothingSavedWhenCompleted
  <2>4. PublishGranted(p, out, q.actions)
    BY <2>1
  <2> HIDE DEF out
  <2> QED
    BY <2>2, <2>3, <2>4 DEF PublishGranted
<1> QED
  BY <1>4, <1>5, <1>6, <1>7 DEF Handle

\* A thread takes a copy of a stored record.
Reads(w) ==
  /\ \E p \in Stored, at \in {"authenticating", "handling"} : Goes(w, Holding(at, p))
  /\ UNCHANGED <<store, pregranted>>

\* All that threads do.
LEMMA ApiSteps ==
  ASSUME ApiIInv, ApiNext
  PROVE  \E w \in Workers : \/ RunRequest(w)
                            \/ Reads(w)
                            \/ \E out : Saves(w, out)
<1>1. PICK w \in Workers : \/ RunRequest(w) \/ Authenticate(w)
                           \/ SaveAuthentication(w) \/ ReadRecord(w) \/ Handle(w)
  BY DEF ApiNext, Serve
<1>2. CASE Authenticate(w)
  BY <1>2 DEF Authenticate, Reads
<1>3. CASE ReadRecord(w)
  <2>1. worker[w].project \in Stored
    BY <1>3 DEF ReadRecord, At, ApiIInv, WorkersOK
  <2> QED
    BY <1>3, <2>1 DEF ReadRecord, Reads
<1> QED
  BY <1>1, <1>2, <1>3, AuthenticationSaves, HandlerSaves

\* Every step of every thread keeps the invariant.
LEMMA ApiNextKeeps ==
  ASSUME ApiIInv, [ApiNext]_apiVars
  PROVE  ApiIInv'
<1>1. CASE UNCHANGED apiVars
  BY <1>1 DEF apiVars, ApiIInv, IInv, WorkersOK, Stored, Known, Busy
<1>2. ASSUME NEW w \in Workers, RunRequest(w)
      PROVE  ApiIInv'
  <2>1. PICK p \in Projects : Run(p)
    BY <1>2 DEF RunRequest
  <2>2. IInv'
    BY <2>1, NextKeeps DEF ApiIInv, Next
  <2>3. Stored \subseteq Stored'
    <3>1. PICK q \in RunRequests : Publish(p, run(q))
      BY <2>1 DEF Run, PublishGranted
    <3>2. run(q).saved => RecordInv(run(q).rec)
      <4>1. q.provider \in Names
        BY ServiceAssumption DEF RunRequests, Names
      <4>2. q.simulate_review_failure \in BOOLEAN
        BY DEF RunRequests
      <4> QED
        BY <4>1, <4>2, RunKeeps
    <3> QED
      BY <3>1, <3>2, PublishForgetsNone DEF ApiIInv
  <2>4. WorkersOK'
    BY <1>2, <2>3 DEF RunRequest, ApiIInv, WorkersOK, Busy
  <2> QED
    BY <2>2, <2>4 DEF ApiIInv
<1>3. ASSUME NEW w \in Workers, Reads(w)
      PROVE  ApiIInv'
  <2>1. PICK p \in Stored, at \in {"authenticating", "handling"} : Goes(w, Holding(at, p))
    BY <1>3 DEF Reads
  <2> DEFINE state == Holding(at, p)
  <2>2. IInv' /\ Stored' = Stored
    BY <1>3 DEF Reads, ApiIInv, IInv, Stored, Known
  <2>3. state.at = at /\ state.project = p /\ state.copy = store[p]
    BY DEF Holding
  <2>4. RecordInv(store[p])
    BY DEF ApiIInv, IInv
  <2>5. Goes(w, state)
    BY <2>1
  <2> HIDE DEF state
  <2>6. WorkersOK'
    BY <2>2, <2>3, <2>4, <2>5, OneWorkerMoves DEF ApiIInv
  <2> QED
    BY <2>2, <2>6 DEF ApiIInv
<1>4. ASSUME NEW w \in Workers, NEW out, Saves(w, out)
      PROVE  ApiIInv'
  <2> DEFINE p == worker[w].project
  <2>1. PICK state \in {Idle, [at |-> "authenticated", project |-> p]} : Goes(w, state)
    BY <1>4 DEF Saves
  <2>2. state.at = "idle" \/ (state.at = "authenticated" /\ state.project = p)
    BY <2>1 DEF Idle
  <2>3. /\ p \in Stored /\ p \in Projects /\ Publish(p, out)
        /\ out.saved => RecordInv(out.rec)
        /\ pregranted' \subseteq Projects
    BY <1>4 DEF Saves, Stored
  <2> HIDE DEF p
  <2>4. IInv' /\ Stored \subseteq Stored'
    BY <2>3, PublishKeeps, PublishForgetsNone DEF ApiIInv
  <2>5. WorkersOK'
    BY <2>1, <2>2, <2>3, <2>4, OneWorkerMoves DEF ApiIInv
  <2> QED
    BY <2>4, <2>5 DEF ApiIInv
<1> QED
  BY <1>1, <1>2, <1>3, <1>4, ApiSteps

\* The stored records and the copies of the threads satisfy RecordInv together.
THEOREM ApiInvariance == ApiSpec => []ApiIInv
<1>1. ApiInit => ApiIInv
  BY DEF ApiInit, Init, ApiIInv, IInv, WorkersOK, Stored, Known, Busy, Idle
<1>2. ApiIInv /\ [ApiNext]_apiVars => ApiIInv'
  BY ApiNextKeeps
<1> QED
  BY <1>1, <1>2, PTL DEF ApiSpec

\* A thread always holds a well-typed copy of a stored project.
THEOREM ApiTypesAreKept == ApiSpec => []ApiTypeOK
<1>1. ApiIInv => ApiTypeOK
  BY DEF ApiIInv, IInv, WorkersOK, ApiTypeOK, TypeOK, RecordInv, Busy
<1> QED
  BY <1>1, ApiInvariance, PTL

\* However the reads and saves of concurrent requests interleave, every stored record
\* agrees with itself: status, tasks, requests, checkpoints, reviews and audit events
\* (the unlocked get ... save of every handler of PMOrchestrator).
THEOREM RacesNeverMix == ApiSpec => []StoredRecordsConsistent
<1>1. ApiIInv => StoredRecordsConsistent
  BY DEF ApiIInv, IInv, WorkersOK, StoredRecordsConsistent, Busy
<1> QED
  BY <1>1, ApiInvariance, PTL

\* Whatever was lost to a race, the client that repeats its call gets on: the record that
\* the last save left leads, by calls that are answered, to a completed project (the guards
\* of the handlers, and the complete record that every one of them saves).
THEOREM RacesStrandNobody == ApiSpec => []LostDecisionsCanBeRetaken
<1>1. ApiIInv => LostDecisionsCanBeRetaken
  BY RecordGetsOn DEF ApiIInv, IInv, LostDecisionsCanBeRetaken
<1> QED
  BY <1>1, ApiInvariance, PTL

\* What a step may not do to the stored records while all copies are fresh.
NothingLost ==
  \A p \in Stored :
    /\ Grows(store[p], store'[p])
    /\ store[p].status = "completed" => store'[p].status = "completed"

\* An update is only ever lost through a stale copy: while every copy a thread holds is
\* the stored record, no save loses an audit event, a status change or a decision, and
\* none reopens a completed project (read and save in _resolve_authenticated_actor and
\* the handlers).
THEOREM FreshSavesLoseNothing == ApiSpec => FreshCopiesLoseNothing
<1> DEFINE Fresh == \A w \in Busy : worker[w].copy = store[worker[w].project]
           Lossless ==
             \A p \in Stored :
               /\ store[p].events \subseteq store'[p].events
               /\ store[p].history \subseteq store'[p].history
               /\ approved_actions(store[p]) \subseteq approved_actions(store'[p])
               /\ rejected_actions(store[p]) \subseteq rejected_actions(store'[p])
               /\ store[p].status = "completed" => store'[p].status = "completed"
<1>1. ASSUME ApiIInv, ApiNext, Fresh
      PROVE  NothingLost
  <2>1. CASE store' = store
    BY <2>1 DEF NothingLost, Grows
  <2>2. ASSUME NEW w \in Workers, RunRequest(w)
        PROVE  NothingLost
    <3>1. PICK p \in Projects : Run(p)
      BY <2>2 DEF RunRequest
    <3>2. \A s \in Projects \ {p} : store'[s] = store[s]
      BY <3>1 DEF Run, PublishGranted, Publish
    <3>3. p \notin Stored
      BY <3>1 DEF Run, Stored
    <3> QED
      BY <3>2, <3>3 DEF NothingLost, Grows, Stored
  <2>3. ASSUME NEW w \in Workers, NEW out, Saves(w, out)
        PROVE  NothingLost
    <3> DEFINE p == worker[w].project
    <3>1. /\ worker[w].copy = store[p] /\ p \in Projects /\ Publish(p, out)
          /\ out.saved => /\ Grows(store[p], out.rec)
                          /\ store[p].status = "completed" => out.rec.status = "completed"
      BY <1>1, <2>3 DEF Saves, Stored
    <3>2. CASE out.saved
      <4>1. store'[p] = out.rec /\ \A s \in Projects \ {p} : store'[s] = store[s]
        BY <1>1, <3>1, <3>2 DEF Publish, ApiIInv, IInv
      <4> HIDE DEF p
      <4> QED
        BY <3>1, <3>2, <4>1 DEF NothingLost, Grows, Stored
    <3> QED
      BY <2>1, <3>1, <3>2 DEF Publish
  <2> QED
    BY <1>1, <2>1, <2>2, <2>3, ApiSteps DEF Reads
<1>2. ApiIInv /\ [ApiNext]_apiVars => [Fresh => Lossless]_apiVars
  BY <1>1 DEF NothingLost, Grows
<1> QED
  BY <1>2, ApiInvariance, PTL DEF ApiSpec, FreshCopiesLoseNothing
===============================================================================
