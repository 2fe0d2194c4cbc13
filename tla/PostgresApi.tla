------------------------------ MODULE PostgresApi ------------------------------
(***************************************************************************)
(* The API over PostgresProjectRepository (app/state/repository.py).       *)
(*                                                                         *)
(* get reads a record with seven SELECTs.  psycopg opens a transaction at  *)
(* PostgreSQL's default level, READ COMMITTED, where every statement sees  *)
(* what is committed when it starts: a save that commits between two of    *)
(* them is seen by the later ones only.  save is one transaction that      *)
(* begins by writing the row of projects, which keeps concurrent saves of  *)
(* a project apart until it commits, so its effect is one step; it fails,  *)
(* and is rolled back, when two rows of a table have the same key.         *)
(*                                                                         *)
(* A protected request reads and saves a record twice, for the event of    *)
(* its authentication and for its handler (ConcurrentApi), and keeps       *)
(* nothing but the id in between.  A worker here makes one such pass at a  *)
(* time, SELECT by SELECT; the calls that other threads and processes get  *)
(* through meanwhile take one step each.                                   *)
(***************************************************************************)
EXTENDS OrchestratorService

CONSTANTS Workers,     \* the threads whose requests are followed step by step
          RereadDamaged \* a bound: FALSE if these do not take up records that are mixtures
                        \* or have an older trail

ASSUME PostgresAssumption == RereadDamaged \in BOOLEAN

VARIABLES worker,       \* what each thread is doing
          mixed,        \* history variable: the projects whose record was once saved from
                        \* a copy that another call changed while it was being read
          rewound,      \* history variable: the projects whose audit trail was once replaced
                        \* by one that was read before another call committed
          everApproved  \* history variable: the projects whose external send was approved
                        \* at some time, whatever became of the record since

pgVars == <<store, pregranted, worker, mixed, rewound, everApproved>>

\* ------------------------------------------------------------------------- get

\* Mutant: the audit trail is read before the decisions.
Selects_TrailFirst ==
  <<{"history", "events"}, {"status", "policy"}, {"tasks"}, {"artifacts", "trend_source"},
    {"reviews"}, {"gate", "delivered"}, {"approvals"}>>

\* What each SELECT of get contributes to the record: projects, tasks, artifacts,
\* reviews, checkpoints, approvals and project_history.
Selects ==
  <<{"status", "policy"}, {"tasks"}, {"artifacts", "trend_source"}, {"reviews"},
    {"gate", "delivered"}, {"approvals"}, {"history", "events"}>>

\* The record as far as it is read after k SELECTs, the k-th one on the rows of r.
WithRows(copy, k, r) ==
  [f \in (DOMAIN copy) \union Selects[k] |-> IF f \in Selects[k] THEN r[f] ELSE copy[f]]

\* ------------------------------------------------------------------------ save

\* Mutant: ON CONFLICT DO NOTHING for the rows of reviews.
Storable_AnyReviews(r) == TRUE

\* The rows of tasks, artifacts, checkpoints and approvals have keys of their own; a
\* review has the id of its task, and there is one review task.
Storable(r) == Len(r.reviews) <= 1

\* Mutant: every statement is its own transaction, and the connection may break after
\* the row of projects.
Committed_RowByRow(r, before) ==
  {r, [f \in DOMAIN r |-> IF before = NoRecord \/ f \in Selects[1] THEN r[f] ELSE before[f]]}

\* What the tables may hold of r after its transaction: all of it.
Committed(r, before) == {r}

\* A call of p ends with the outcome `out`, having named the send as approved or not.
Commit(p, out, granted) ==
  IF out.saved /\ Storable(out.rec)
  THEN /\ \E r \in Committed(out.rec, store[p]) : store' = [store EXCEPT ![p] = r]
       /\ pregranted' = IF granted THEN pregranted \union {p} ELSE pregranted
       /\ everApproved' = IF EXT \in approved_actions(out.rec)
                          THEN everApproved \union {p} ELSE everApproved
  ELSE UNCHANGED <<store, pregranted, everApproved>>

\* What the protected calls may make of the record r: an outcome, and whether the call
\* named the send as approved.
Outcomes(r) ==
  {[out |-> resume_from_approval(r, q), granted |-> FALSE] : q \in ApprovalRequests}
  \union {[out |-> reject_approval(r, q), granted |-> FALSE] : q \in RejectionRequests}
  \union {[out |-> resume_from_revision(r, q),
           granted |-> q.mode # "replanning" /\ EXT \in q.actions] : q \in RevisionRequests}
  \union {[out |-> start_replanning(r, q), granted |-> EXT \in q.actions] :
            q \in ReplanningRequests}

\* --------------------------------------------------------------------- workers

Idle == [at |-> "idle"]

NoRows == <<>>

PgInit ==
  /\ Init
  /\ worker = [w \in Workers |-> Idle]
  /\ mixed = {}
  /\ rewound = {}
  /\ everApproved = {}

At(w, at) == worker[w].at = at

Reading(p) ==
  [at |-> "reading", project |-> p, selects |-> 0, copy |-> NoRows,
   overlapped |-> FALSE, outdated |-> FALSE]

\* Another call has committed a record of p: the workers in the middle of reading it
\* get the rest of their rows from there, those that have read it are out of date.
Overlap(state, p) ==
  [w \in Workers |->
     IF state[w].at = "reading" /\ state[w].project = p
     THEN [state[w] EXCEPT
             !.overlapped = @ \/ state[w].selects \in 1..(Len(Selects) - 1),
             !.outdated = @ \/ state[w].selects = Len(Selects)]
     ELSE state[w]]

\* A protected request for a project that exists arrives, or its handler begins.
Arrive(w) ==
  /\ At(w, "idle")
  /\ \E p \in Stored \ (IF RereadDamaged THEN {} ELSE mixed \union rewound) :
       worker' = [worker EXCEPT ![w] = Reading(p)]
  /\ UNCHANGED <<store, pregranted, mixed, rewound, everApproved>>

Select(w) ==
  /\ At(w, "reading")
  /\ worker[w].selects < Len(Selects)
  /\ LET k == worker[w].selects + 1
     IN worker' = [worker EXCEPT
                     ![w].selects = k,
                     ![w].copy = WithRows(@, k, store[worker[w].project])]
  /\ UNCHANGED <<store, pregranted, mixed, rewound, everApproved>>

HasRead(w) == At(w, "reading") /\ worker[w].selects = Len(Selects)

\* The pass ends with the outcome `out` in the state `next`; the workers that are
\* reading the same project get rows of it.
Answer(w, out, granted, next) ==
  LET p     == worker[w].project
      ended == [worker EXCEPT ![w] = next]
  IN /\ Commit(p, out, granted)
     /\ IF store' = store THEN worker' = ended /\ UNCHANGED <<mixed, rewound>>
        ELSE /\ worker' = Overlap(ended, p)
             /\ mixed' = IF worker[w].overlapped THEN mixed \union {p} ELSE mixed
             /\ rewound' = IF worker[w].outdated THEN rewound \union {p} ELSE rewound

SaveAuthentication(w) ==
  /\ HasRead(w)
  /\ \/ Answer(w, record_authentication_success(worker[w].copy), FALSE, Idle)
     \/ Answer(w, record_authentication_failure(worker[w].copy), FALSE, Idle)

\* Mutant: a call whose save failed is made again.
Handle_Retry(w) ==
  /\ HasRead(w)
  /\ \E o \in Outcomes(worker[w].copy) :
       Answer(w, o.out, o.granted,
              IF Storable(o.out.rec) THEN Idle ELSE Reading(worker[w].project))

\* The handler works on what was read; a save that fails raises, and is answered 500.
Handle(w) ==
  /\ HasRead(w)
  /\ \E o \in Outcomes(worker[w].copy) : Answer(w, o.out, o.granted, Idle)

\* The connection breaks or the process dies: nothing of an open transaction stays.
Break(w) ==
  /\ ~At(w, "idle")
  /\ worker' = [worker EXCEPT ![w] = Idle]
  /\ UNCHANGED <<store, pregranted, mixed, rewound, everApproved>>

\* ------------------------------------------------------------ the other callers

CallElsewhere(p) ==
  /\ \/ /\ Known(p)
        /\ \E o \in Outcomes(store[p]) : Commit(p, o.out, o.granted)
     \/ /\ ~Known(p)
        /\ \E q \in RunRequests : Commit(p, run(q), EXT \in q.actions)
  /\ worker' = IF store' # store THEN Overlap(worker, p) ELSE worker
  /\ UNCHANGED <<mixed, rewound>>

Serve(w) == Select(w) \/ SaveAuthentication(w) \/ Handle(w)

PgNext ==
  \/ \E w \in Workers : Arrive(w) \/ Serve(w) \/ Break(w)
  \/ \E p \in Projects : CallElsewhere(p)

\* A thread that has a request goes on with it; nobody has to send one.
PgSpec == PgInit /\ [][PgNext]_pgVars /\ \A w \in Workers : WF_pgVars(Serve(w))

\* ------------------------------------------------------------------ properties

PgTypeOK ==
  /\ TypeOK
  /\ mixed \subseteq Projects
  /\ rewound \subseteq Projects
  /\ everApproved \subseteq Projects
  /\ \A p \in Stored : Len(store[p].reviews) <= 1
  /\ \A w \in Workers : ~At(w, "idle") =>
       /\ At(w, "reading")
       /\ worker[w].project \in Stored
       /\ worker[w].selects \in 0..Len(Selects)
       /\ worker[w].overlapped \in BOOLEAN
       /\ worker[w].outdated \in BOOLEAN
       /\ HasRead(w) => RecordTypeOK(worker[w].copy)

\* A record that is a mixture of two saves comes from a read that a commit overlapped,
\* and from nothing else: not from a save that failed on a key, not from a process
\* that died, not from the order of the statements (save, get).
OnlyOverlappedReadsMix ==
  /\ \A p \in Stored \ mixed : RecordInv(store[p])
  /\ \A w \in Workers :
       HasRead(w) /\ ~worker[w].overlapped /\ worker[w].project \notin mixed =>
         RecordInv(worker[w].copy)

\* Also from a mixture no external provider is called without the consent of somebody:
\* a decision of an approver, though perhaps no longer on record, or of a caller that
\* named the send (which takes no authorization: SendsAreAuthorized of
\* OrchestratorService says what the documentation makes of that).
SendsWereApproved ==
  \A p \in Stored :
    store[p].trend_source = "external" => p \in everApproved \union pregranted

\* A read that other calls overlap never gets a decision without its audit event: get
\* reads project_history last, so the trail is at least as new as the decisions.  Only
\* a save that put an older trail back, between the two SELECTs or before, breaks this.
TrailCoversDecisions ==
  \A w \in Workers : HasRead(w) /\ worker[w].project \notin rewound =>
    LET r == worker[w].copy
    IN \A a \in approved_actions(r) \union rejected_actions(r) :
         \E e \in r.events : e.type \in Decided /\ e.subject = a

\* Every request that is taken up is answered, whatever the other callers do and
\* whatever fails in between.
RequestsAnswered == \A w \in Workers : ~At(w, "idle") ~> At(w, "idle")

\* "State repository can be switched from in-memory to PostgreSQL without API/schema
\* break." (docs/architecture.md): what a handler saves in memory can be saved there.
SwitchIsTransparent ==
  \A p \in Stored : \A o \in Outcomes(store[p]) : o.out.saved => Storable(o.out.rec)
===============================================================================
