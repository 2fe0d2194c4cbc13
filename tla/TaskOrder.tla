------------------------------- MODULE TaskOrder -------------------------------
(***************************************************************************)
(* PostgresProjectRepository._order_tasks_for_execution                    *)
(* (app/state/repository.py): the rows of the tasks table come back sorted *)
(* by id, and the repository sorts them by their dependencies before the   *)
(* orchestrator walks through them.  One step here is one pass of a loop   *)
(* of the function.                                                        *)
(*                                                                         *)
(* A task is the position of its row.  depends_on is what its JSON column  *)
(* holds: positions, possibly its own, and ids that no row has.            *)
(***************************************************************************)
EXTENDS Naturals, Sequences, FiniteSets

CONSTANT TaskLists   \* the lists of rows: for each position, what the task depends on

ASSUME TaskListsAssumption == TaskLists \subseteq Seq(SUBSET Nat)

VARIABLES depends_on,   \* the list of rows that is sorted
          inbound,      \* inbound_count_by_id
          ready,        \* ready_task_ids; the code keeps the list sorted by position
          ordered,      \* ordered_task_ids
          tasks,        \* what is returned
          at            \* "counting", "placing" or "returned"

sortVars == <<depends_on, inbound, ready, ordered, tasks, at>>

Tasks == 1..Len(depends_on)

local_dependencies(t) == depends_on[t] \intersect Tasks

dependents(t) == {u \in Tasks : t \in local_dependencies(u)}

\* The rows as they came.
Rows == [t \in Tasks |-> t]

SortInit ==
  /\ depends_on \in TaskLists
  /\ inbound = [t \in Tasks |-> 0]
  /\ ready = {}
  /\ ordered = <<>>
  /\ tasks = <<>>
  /\ at = "counting"

Return(answer) == tasks' = answer /\ at' = "returned"

\* The early return for fewer than two tasks.
ReturnShort ==
  /\ at = "counting"
  /\ Cardinality(Tasks) < 2
  /\ Return(Rows)
  /\ UNCHANGED <<depends_on, inbound, ready, ordered>>

\* Mutant: dependencies on tasks that are not there are counted, too.
Count_AllDependencies ==
  /\ at = "counting"
  /\ Cardinality(Tasks) >= 2
  /\ inbound' = [t \in Tasks |-> Cardinality(depends_on[t])]
  /\ ready' = {t \in Tasks : inbound'[t] = 0}
  /\ at' = "placing"
  /\ UNCHANGED <<depends_on, ordered, tasks>>

\* The counts of open dependencies, and the tasks that have none.
Count ==
  /\ at = "counting"
  /\ Cardinality(Tasks) >= 2
  /\ inbound' = [t \in Tasks |-> Cardinality(local_dependencies(t))]
  /\ ready' = {t \in Tasks : inbound'[t] = 0}
  /\ at' = "placing"
  /\ UNCHANGED <<depends_on, ordered, tasks>>

\* Mutant: the last ready task is taken.
First_Last(S) == CHOOSE t \in S : \A u \in S : u <= t

\* ready_task_ids.pop(0)
First(S) == CHOOSE t \in S : \A u \in S : t <= u

\* Mutant: one met dependency makes a task ready.
Place_OneDependency ==
  /\ at = "placing"
  /\ ready # {}
  /\ LET t == First(ready)
     IN /\ ordered' = Append(ordered, t)
        /\ inbound' = [u \in Tasks |-> IF u \in dependents(t) THEN 0 ELSE inbound[u]]
        /\ ready' = (ready \ {t}) \union {u \in dependents(t) : inbound[u] > 0}
  /\ UNCHANGED <<depends_on, tasks, at>>

\* The first ready task is placed; a dependent that waited for nothing else is ready.
Place ==
  /\ at = "placing"
  /\ ready # {}
  /\ LET t == First(ready)
     IN /\ ordered' = Append(ordered, t)
        /\ inbound' = [u \in Tasks |-> IF u \in dependents(t) THEN inbound[u] - 1 ELSE inbound[u]]
        /\ ready' = (ready \ {t}) \union {u \in dependents(t) : inbound'[u] = 0}
  /\ UNCHANGED <<depends_on, tasks, at>>

\* Mutant: the loop goes round until every task is placed.
ReturnOrdered_AllPlaced ==
  /\ at = "placing"
  /\ \/ Len(ordered) = Cardinality(Tasks) /\ Return(ordered)
     \/ ready = {} /\ Len(ordered) # Cardinality(Tasks) /\ UNCHANGED <<tasks, at>>
  /\ UNCHANGED <<depends_on, inbound, ready, ordered>>

\* The order, or the rows as they came when some task never got ready.
ReturnOrdered ==
  /\ at = "placing"
  /\ ready = {}
  /\ Return(IF Len(ordered) # Cardinality(Tasks) THEN Rows ELSE ordered)
  /\ UNCHANGED <<depends_on, inbound, ready, ordered>>

SortNext == ReturnShort \/ Count \/ Place \/ ReturnOrdered

\* The function runs on its caller's thread and waits for nobody.
SortSpec == SortInit /\ [][SortNext]_sortVars /\ WF_sortVars(SortNext)

\* ------------------------------------------------------------------ properties

Returned == at = "returned"

Placed == {ordered[i] : i \in 1..Len(ordered)}

\* Every set of tasks has a member that depends on none of them.
Acyclic ==
  \A S \in (SUBSET Tasks) \ {{}} : \E t \in S : local_dependencies(t) \intersect S = {}

InDependencyOrder(list) ==
  \A i \in 1..Len(list) :
    \A d \in local_dependencies(list[i]) : \E j \in 1..(i - 1) : list[j] = d

\* In the middle of the sort: a task is ready exactly when all it depends on is
\* placed and it is not, the counts are those of the dependencies still to be placed,
\* and the list so far is in order and without repetitions (lines 93-106).
SortInv ==
  at = "placing" =>
    /\ Placed \subseteq Tasks
    /\ Len(ordered) = Cardinality(Placed)
    /\ inbound = [t \in Tasks |-> Cardinality(local_dependencies(t) \ Placed)]
    /\ ready = {t \in Tasks \ Placed : local_dependencies(t) \subseteq Placed}
    /\ InDependencyOrder(ordered)

\* No task is lost or repeated; every task comes after all it depends on, if the
\* dependencies allow that, whatever ids they name that are not there; if they are
\* cyclic the rows stay as they came (_order_tasks_for_execution).
DependenciesFirst ==
  Returned =>
    /\ DOMAIN tasks = Tasks
    /\ {tasks[i] : i \in Tasks} = Tasks
    /\ IF Acyclic THEN InDependencyOrder(tasks) ELSE tasks = Rows

\* Rows that are in order already are left alone: the tie-break by position keeps a
\* second save and load from shuffling the tasks of a project.
OrderedRowsKept == Returned /\ InDependencyOrder(Rows) => tasks = Rows

\* The plan of _build_plan, its ids in alphabetical order: build, design, research,
\* review, trend.
PlanRows == <<{2}, {3}, {}, {1, 5}, {2}>>

\* The plan of a project comes back from Postgres in the order it has in memory, the
\* review after the trend task that can wait for an approval (_build_plan).
PlanComesBack == Returned /\ depends_on = PlanRows => tasks = <<3, 2, 1, 5, 4>>

\* The sort ends, also on dependencies that nobody can satisfy.
Termination == <>Returned
===============================================================================
