------------------------- MODULE MCPostgresRepository -------------------------
(***************************************************************************)
(* The Postgres repository for TLC: get first sorts the rows it has read   *)
(* (TaskOrder), then calls of the API go through (PostgresApi).  Every     *)
(* list of rows is sorted; the API then works on the one list that it      *)
(* stores itself, the plan, and ends with the others.  The lists are all   *)
(* those of up to three tasks, with dependencies on itself and on unknown  *)
(* tasks, those of four tasks without these, and the plan.                 *)
(***************************************************************************)
EXTENDS MCPostgresApi, TaskOrder

MCTaskLists ==
  UNION {[1..n -> SUBSET (0..n)] : n \in 0..3}
  \union {list \in [1..4 -> SUBSET (1..4)] : \A t \in 1..4 : t \notin list[t]}
  \union {PlanRows}

SortRows == SortNext /\ UNCHANGED pgVars

Call == depends_on = PlanRows /\ Returned /\ PgNext /\ UNCHANGED sortVars

\* A list that is not the plan ends with its sort.
End == depends_on # PlanRows /\ Returned /\ UNCHANGED <<sortVars, pgVars>>

RepositoryInit == SortInit /\ PgInit

RepositorySpec ==
  /\ RepositoryInit
  /\ [][SortRows \/ Call \/ End]_<<sortVars, pgVars>>
  /\ WF_sortVars(SortRows)
  /\ \A w \in Workers : WF_pgVars(Serve(w) /\ UNCHANGED sortVars)
===============================================================================
