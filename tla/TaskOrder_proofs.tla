---------------------------- MODULE TaskOrder_proofs ----------------------------
(***************************************************************************)
(* The sort by dependencies, for lists of tasks of any length.             *)
(***************************************************************************)
EXTENDS TaskOrder, FiniteSetTheorems, SequenceTheorems, WellFoundedInduction, TLAPS

(***************************************************************************)
(* A nonempty set of naturals has a least element: the smallest of the     *)
(* intervals that end in it.                                               *)
(***************************************************************************)
LEMMA LeastExists ==
  ASSUME NEW S \in SUBSET Nat, S # {}
  PROVE  \E t \in S : \A u \in S : t <= u
<1> DEFINE T == {0..i : i \in S}
<1>1. T \subseteq FiniteSubsetsOf(Nat)
  <2> SUFFICES ASSUME NEW i \in S PROVE 0..i \in FiniteSubsetsOf(Nat)
    OBVIOUS
  <2>1. IsFiniteSet(0..i)
    BY FS_Interval
  <2> QED
    BY <2>1 DEF FiniteSubsetsOf
<1>2. T # {}
  OBVIOUS
<1>3. PICK x \in T : \A y \in T : ~(<<y, x>> \in StrictSubsetOrdering(Nat))
  <2>1. IsWellFoundedOn(StrictSubsetOrdering(Nat), FiniteSubsetsOf(Nat))
    BY FS_StrictSubsetOrderingWellFounded
  <2> HIDE DEF T
  <2> QED
    BY <1>1, <1>2, <2>1, WFMin
<1>4. PICK t \in S : x = 0..t
  BY <1>3
<1>5. ASSUME NEW u \in S, ~(t <= u)
      PROVE  FALSE
  <2>1. 0..u \subseteq 0..t /\ 0..u # 0..t
    BY <1>5
  <2>2. <<0..u, 0..t>> \in StrictSubsetOrdering(Nat)
    BY <2>1 DEF StrictSubsetOrdering
  <2> QED
    BY <1>3, <1>4, <2>2
<1> QED
  BY <1>5

LEMMA FirstIsLeast ==
  ASSUME NEW S \in SUBSET Nat, S # {}
  PROVE  First(S) \in S /\ \A u \in S : First(S) <= u
<1>1. \E t \in S : \A u \in S : t <= u
  BY LeastExists
<1> QED
  BY <1>1 DEF First

\* What the steps keep: SortInv, the types it needs, and the answer once it is there.
Inv ==
  /\ depends_on \in Seq(SUBSET Nat)
  /\ ordered \in Seq(Tasks)
  /\ at \in {"counting", "placing", "returned"}
  /\ at = "counting" => ordered = <<>>
  /\ SortInv
  /\ DependenciesFirst

LEMMA TasksFinite ==
  ASSUME depends_on \in Seq(SUBSET Nat)
  PROVE  /\ Len(depends_on) \in Nat
         /\ Tasks \subseteq Nat
         /\ IsFiniteSet(Tasks)
         /\ Cardinality(Tasks) = Len(depends_on)
         /\ Len(Rows) = Len(depends_on)
         /\ \A S \in SUBSET Tasks : IsFiniteSet(S) /\ Cardinality(S) \in Nat
<1>1. Len(depends_on) \in Nat
  OBVIOUS
<1>2. IsFiniteSet(Tasks) /\ Cardinality(Tasks) = Len(depends_on)
  BY <1>1, FS_Interval DEF Tasks
<1>3. Rows \in Seq(Nat) /\ Len(Rows) = Len(depends_on)
  BY <1>1 DEF Rows, Tasks
<1>4. ASSUME NEW S \in SUBSET Tasks
      PROVE  IsFiniteSet(S) /\ Cardinality(S) \in Nat
  BY <1>2, FS_Subset, FS_CardinalityType
<1> QED
  BY <1>1, <1>2, <1>3, <1>4 DEF Tasks

\* Counting nothing finds the tasks without dependencies.
LEMMA CountKeeps ==
  ASSUME Inv, Count
  PROVE  Inv'
<1> USE DEF Tasks
<1>1. /\ depends_on \in Seq(SUBSET Nat) /\ ordered = <<>> /\ depends_on' = depends_on
      /\ ordered' = <<>> /\ at' = "placing"
  BY DEF Inv, Count
<1>2. Placed' = {} /\ Tasks' = Tasks
  BY <1>1 DEF Placed
<1>3. Len(ordered') = Cardinality(Placed')
  BY <1>1, <1>2, FS_EmptySet
<1>4. \A t \in Tasks : local_dependencies(t)' = local_dependencies(t)
  BY <1>1 DEF local_dependencies
<1>5. inbound' = [t \in Tasks |-> Cardinality(local_dependencies(t))]
  BY DEF Count
<1>6. ready' = {t \in Tasks : local_dependencies(t) \subseteq {}}
  <2>1. \A t \in Tasks : Cardinality(local_dependencies(t)) = 0 <=> local_dependencies(t) = {}
    <3> SUFFICES ASSUME NEW t \in Tasks
                 PROVE  IsFiniteSet(local_dependencies(t))
      BY FS_EmptySet
    <3> QED
      BY <1>1, TasksFinite DEF local_dependencies
  <2> QED
    BY <1>5, <2>1 DEF Count
<1>7. SortInv'
  <2>1. \A t \in Tasks : local_dependencies(t)' \ Placed' = local_dependencies(t)
    BY <1>2, <1>4
  <2>2. (inbound = [t \in Tasks |-> Cardinality(local_dependencies(t) \ Placed)])'
    BY <1>2, <1>5, <2>1
  <2>3. (ready = {t \in Tasks \ Placed : local_dependencies(t) \subseteq Placed})'
    BY <1>2, <1>4, <1>6
  <2>4. InDependencyOrder(ordered)'
    BY <1>1 DEF InDependencyOrder
  <2> QED
    BY <1>2, <1>3, <2>2, <2>3, <2>4 DEF SortInv
<1>8. DependenciesFirst'
  BY <1>1 DEF DependenciesFirst, Returned
<1> QED
  BY <1>1, <1>7, <1>8 DEF Inv

\* Placing a ready task leaves its dependents one dependency less to wait for.
LEMMA PlaceKeeps ==
  ASSUME Inv, Place
  PROVE  Inv'
<1> DEFINE t == First(ready)
<1>1. /\ depends_on \in Seq(SUBSET Nat) /\ depends_on' = depends_on
      /\ ordered \in Seq(Tasks) /\ at = "placing" /\ at' = "placing"
      /\ ordered' = Append(ordered, t) /\ ready # {}
  BY DEF Inv, Place
<1>2. /\ Placed \subseteq Tasks
      /\ Len(ordered) = Cardinality(Placed)
      /\ inbound = [u \in Tasks |-> Cardinality(local_dependencies(u) \ Placed)]
      /\ ready = {u \in Tasks \ Placed : local_dependencies(u) \subseteq Placed}
      /\ InDependencyOrder(ordered)
  BY <1>1 DEF Inv, SortInv
<1>3. t \in Tasks \ Placed /\ local_dependencies(t) \subseteq Placed
  <2>1. ready \in SUBSET Nat
    BY <1>1, <1>2, TasksFinite
  <2>2. t \in ready
    BY <1>1, <2>1, FirstIsLeast
  <2> QED
    BY <1>2, <2>2
<1> HIDE DEF t
<1>4. Tasks' = Tasks /\ \A u : local_dependencies(u)' = local_dependencies(u)
  BY <1>1 DEF Tasks, local_dependencies
<1>5. /\ ordered' \in Seq(Tasks) /\ Len(ordered') = Len(ordered) + 1
      /\ ordered'[Len(ordered) + 1] = t
      /\ \A i \in 1..Len(ordered) : ordered'[i] = ordered[i]
  BY <1>1, <1>3
<1>6. Placed' = Placed \union {t}
  BY <1>1, <1>5 DEF Placed
<1>7. Len(ordered') = Cardinality(Placed')
  <2>1. IsFiniteSet(Placed)
    BY <1>1, <1>2, TasksFinite
  <2> QED
    BY <1>2, <1>3, <1>5, <1>6, <2>1, FS_AddElement
<1>8. \A u \in Placed : local_dependencies(u) \subseteq Placed
  <2> SUFFICES ASSUME NEW i \in 1..Len(ordered), NEW d \in local_dependencies(ordered[i])
               PROVE  \E j \in 1..Len(ordered) : d = ordered[j]
    BY DEF Placed
  <2>1. PICK j \in 1..(i - 1) : ordered[j] = d
    BY <1>2 DEF InDependencyOrder
  <2>2. j \in 1..Len(ordered)
    BY <1>1, <2>1
  <2> QED
    BY <2>1, <2>2
<1>9. ASSUME NEW u \in Tasks
      PROVE  /\ inbound'[u] = Cardinality(local_dependencies(u) \ Placed')
             /\ u \in dependents(t) =>
                  (inbound'[u] = 0 <=> local_dependencies(u) \subseteq Placed')
  <2>1. inbound'[u] = IF u \in dependents(t) THEN inbound[u] - 1 ELSE inbound[u]
    BY DEF Place, t
  <2>2. inbound[u] = Cardinality(local_dependencies(u) \ Placed)
    BY <1>2
  <2>3. IsFiniteSet(local_dependencies(u) \ Placed)
    <3>1. local_dependencies(u) \ Placed \in SUBSET Tasks
      BY DEF local_dependencies
    <3> QED
      BY <1>1, <3>1, TasksFinite
  <2>4. local_dependencies(u) \ Placed' = (local_dependencies(u) \ Placed) \ {t}
    BY <1>6
  <2>5. /\ IsFiniteSet(local_dependencies(u) \ Placed')
        /\ Cardinality(local_dependencies(u) \ Placed') =
             IF t \in local_dependencies(u) \ Placed
             THEN Cardinality(local_dependencies(u) \ Placed) - 1
             ELSE Cardinality(local_dependencies(u) \ Placed)
    BY <2>3, <2>4, FS_RemoveElement
  <2>6. u \in dependents(t) <=> t \in local_dependencies(u) \ Placed
    BY <1>3 DEF dependents
  <2>7. inbound'[u] = Cardinality(local_dependencies(u) \ Placed')
    BY <2>1, <2>2, <2>5, <2>6
  <2>8. Cardinality(local_dependencies(u) \ Placed') = 0 <=> local_dependencies(u) \ Placed' = {}
    BY <2>5, FS_EmptySet
  <2> QED
    BY <2>7, <2>8
<1>10. inbound' = [u \in Tasks |-> Cardinality(local_dependencies(u) \ Placed')]
  <2>1. inbound' = [u \in Tasks |-> inbound'[u]]
    BY DEF Place
  <2> QED
    BY <1>9, <2>1
<1>11. ready' = {u \in Tasks \ Placed' : local_dependencies(u) \subseteq Placed'}
  <2>1. ready' = (ready \ {t}) \union {u \in dependents(t) : inbound'[u] = 0}
    BY DEF Place, t
  <2>2. dependents(t) \subseteq Tasks
    BY DEF dependents
  <2>3. \A u \in dependents(t) : t \in local_dependencies(u) /\ u \notin Placed'
    BY <1>3, <1>6, <1>8 DEF dependents
  <2>4. ASSUME NEW u \in Tasks
        PROVE  u \in ready' <=> u \notin Placed' /\ local_dependencies(u) \subseteq Placed'
    <3>1. CASE u \in dependents(t)
      BY <1>2, <1>3, <1>9, <2>1, <2>3, <3>1
    <3>2. CASE u \notin dependents(t)
      <4>1. t \notin local_dependencies(u)
        BY <3>2 DEF dependents
      <4> QED
        BY <1>2, <1>6, <2>1, <3>2, <4>1
    <3> QED
      BY <3>1, <3>2
  <2> QED
    BY <1>2, <2>1, <2>2, <2>4
<1>12. InDependencyOrder(ordered)'
  <2> SUFFICES ASSUME NEW i \in 1..Len(ordered'), NEW d \in local_dependencies(ordered'[i])
               PROVE  \E j \in 1..(i - 1) : ordered'[j] = d
    BY <1>4 DEF InDependencyOrder
  <2>1. CASE i = Len(ordered) + 1
    <3>1. d \in Placed
      BY <1>3, <1>5, <2>1
    <3>2. PICK j \in 1..Len(ordered) : ordered[j] = d
      BY <3>1 DEF Placed
    <3> QED
      BY <1>1, <1>5, <2>1, <3>2
  <2>2. CASE i \in 1..Len(ordered)
    <3>1. PICK j \in 1..(i - 1) : ordered[j] = d
      BY <1>2, <1>5, <2>2 DEF InDependencyOrder
    <3>2. j \in 1..Len(ordered)
      BY <1>1, <2>2, <3>1
    <3> QED
      BY <1>5, <3>1, <3>2
  <2> QED
    BY <1>1, <1>5, <2>1, <2>2
<1>13. SortInv'
  BY <1>2, <1>3, <1>4, <1>6, <1>7, <1>10, <1>11, <1>12 DEF SortInv
<1>14. DependenciesFirst'
  BY <1>1 DEF DependenciesFirst, Returned
<1> QED
  BY <1>1, <1>4, <1>5, <1>13, <1>14 DEF Inv

\* A list that holds as many different tasks as there are holds them all.
LEMMA AllPlaced ==
  ASSUME Inv, at = "placing", Len(ordered) = Cardinality(Tasks)
  PROVE  Placed = Tasks /\ ordered \in [Tasks -> Tasks]
<1>1. depends_on \in Seq(SUBSET Nat) /\ ordered \in Seq(Tasks)
  BY DEF Inv
<1>2. Placed \in SUBSET Tasks /\ Cardinality(Placed) = Cardinality(Tasks)
  BY DEF Inv, SortInv
<1>3. IsFiniteSet(Tasks) /\ Cardinality(Tasks) = Len(depends_on)
  BY <1>1, TasksFinite
<1>4. Placed = Tasks
  BY <1>2, <1>3, FS_Subset
<1>5. ordered \in [1..Len(ordered) -> Tasks]
  BY <1>1
<1> QED
  BY <1>3, <1>4, <1>5 DEF Tasks

\* When nothing is ready and tasks are left over, the ones left over depend on each
\* other.
LEMMA LeftOversAreCyclic ==
  ASSUME Inv, at = "placing", ready = {}, Len(ordered) # Cardinality(Tasks)
  PROVE  ~Acyclic
<1>1. Placed # Tasks /\ Placed \subseteq Tasks
  BY DEF Inv, SortInv
<1>2. Tasks \ Placed \in (SUBSET Tasks) \ {{}}
  BY <1>1
<1>3. ASSUME NEW t \in Tasks \ Placed, local_dependencies(t) \intersect (Tasks \ Placed) = {}
      PROVE  FALSE
  <2>1. local_dependencies(t) \subseteq Placed
    BY <1>3 DEF local_dependencies
  <2>2. t \in ready
    BY <2>1 DEF Inv, SortInv
  <2> QED
    BY <2>2
<1> QED
  BY <1>2, <1>3 DEF Acyclic

\* A list of all tasks in dependency order exists only without cycles: in every set of
\* tasks, the one that comes first in the list depends on none of the others.
LEMMA OrderedIsAcyclic ==
  ASSUME NEW list \in [Tasks -> Tasks], Len(list) = Len(depends_on),
         depends_on \in Seq(SUBSET Nat),
         {list[i] : i \in Tasks} = Tasks, InDependencyOrder(list)
  PROVE  Acyclic
<1> SUFFICES ASSUME NEW S \in (SUBSET Tasks) \ {{}}
             PROVE  \E t \in S : local_dependencies(t) \intersect S = {}
  BY DEF Acyclic
<1> DEFINE I == {i \in Tasks : list[i] \in S}
<1>1. I \in SUBSET Nat /\ I # {}
  <2>1. PICK t \in S : t \in Tasks
    OBVIOUS
  <2>2. PICK k \in Tasks : list[k] = t
    BY <2>1
  <2>3. k \in I
    BY <2>1, <2>2
  <2>4. Tasks \subseteq Nat
    BY TasksFinite
  <2> QED
    BY <2>3, <2>4
<1>2. PICK i \in I : \A k \in I : i <= k
  BY <1>1, LeastExists
<1>3. ASSUME NEW d \in local_dependencies(list[i]) \intersect S
      PROVE  FALSE
  <2>1. Len(depends_on) \in Nat /\ i \in 1..Len(list)
    BY DEF Tasks
  <2>2. PICK j \in 1..(i - 1) : list[j] = d
    BY <1>3, <2>1 DEF InDependencyOrder
  <2>3. j \in Tasks
    BY <2>1, <2>2 DEF Tasks
  <2>4. j \in I
    BY <1>3, <2>2, <2>3
  <2> QED
    BY <1>2, <2>1, <2>2, <2>4
<1> QED
  BY <1>2, <1>3

LEMMA ReturnOrderedKeeps ==
  ASSUME Inv, ReturnOrdered
  PROVE  Inv'
<1>1. /\ at = "placing" /\ at' = "returned" /\ ready = {} /\ depends_on' = depends_on
      /\ ordered' = ordered
      /\ tasks' = IF Len(ordered) # Cardinality(Tasks) THEN Rows ELSE ordered
  BY DEF ReturnOrdered, Return
<1>2. Tasks' = Tasks /\ Rows' = Rows /\ Acyclic' = Acyclic
  BY <1>1 DEF Tasks, Rows, Acyclic, local_dependencies
<1>3. InDependencyOrder(tasks)' <=> InDependencyOrder(tasks')
  BY <1>1 DEF InDependencyOrder, local_dependencies, Tasks
<1>4. DependenciesFirst'
  <2>1. CASE Len(ordered) # Cardinality(Tasks)
    <3>1. ~Acyclic
      BY <1>1, <2>1, LeftOversAreCyclic
    <3> QED
      BY <1>1, <1>2, <2>1, <3>1 DEF DependenciesFirst, Rows
  <2>2. CASE Len(ordered) = Cardinality(Tasks)
    <3>1. Placed = Tasks /\ ordered \in [Tasks -> Tasks]
      BY <1>1, <2>2, AllPlaced
    <3>2. /\ depends_on \in Seq(SUBSET Nat) /\ ordered \in Seq(Tasks)
          /\ InDependencyOrder(ordered)
      BY <1>1 DEF Inv, SortInv
    <3>3. Len(ordered) = Len(depends_on)
      BY <2>2, <3>2, TasksFinite
    <3>4. {ordered[i] : i \in Tasks} = Tasks
      BY <3>1, <3>3 DEF Placed, Tasks
    <3>5. Acyclic
      BY <3>1, <3>2, <3>3, <3>4, OrderedIsAcyclic
    <3> QED
      BY <1>1, <1>2, <1>3, <2>2, <3>1, <3>2, <3>4, <3>5 DEF DependenciesFirst
  <2> QED
    BY <2>1, <2>2
<1> QED
  BY <1>1, <1>2, <1>4 DEF Inv, SortInv

\* One task, or none, is in order if it does not depend on itself.
LEMMA ReturnShortKeeps ==
  ASSUME Inv, ReturnShort
  PROVE  Inv'
<1>1. /\ at' = "returned" /\ depends_on' = depends_on /\ ordered' = ordered
      /\ tasks' = Rows /\ Cardinality(Tasks) < 2 /\ depends_on \in Seq(SUBSET Nat)
  BY DEF ReturnShort, Return, Inv
<1>2. Tasks' = Tasks /\ Rows' = Rows /\ Acyclic' = Acyclic
  BY <1>1 DEF Tasks, Rows, Acyclic, local_dependencies
<1>3. InDependencyOrder(tasks)' <=> InDependencyOrder(Rows)
  BY <1>1 DEF InDependencyOrder, local_dependencies, Tasks, Rows
<1>4. ASSUME Acyclic
      PROVE  InDependencyOrder(Rows)
  <2>1. Len(depends_on) \in Nat /\ Len(depends_on) < 2 /\ Len(Rows) = Len(depends_on)
    BY <1>1, TasksFinite
  <2> SUFFICES ASSUME NEW i \in 1..Len(Rows)
               PROVE  local_dependencies(Rows[i]) = {}
    BY DEF InDependencyOrder
  <2>2. i = 1 /\ Rows[i] = 1 /\ Tasks = {1}
    BY <2>1 DEF Rows, Tasks
  <2>3. {1} \in (SUBSET Tasks) \ {{}}
    BY <2>2
  <2>4. local_dependencies(1) \intersect {1} = {}
    BY <1>4, <2>3 DEF Acyclic
  <2> QED
    BY <2>2, <2>4 DEF local_dependencies
<1>5. DependenciesFirst'
  BY <1>1, <1>2, <1>3, <1>4 DEF DependenciesFirst, Rows
<1> QED
  BY <1>1, <1>2, <1>5 DEF Inv, SortInv

LEMMA StutterKeeps ==
  ASSUME Inv, UNCHANGED sortVars
  PROVE  Inv'
<1>1. Tasks' = Tasks /\ Placed' = Placed /\ Rows' = Rows
  BY DEF sortVars, Tasks, Placed, Rows
<1>2. \A t : local_dependencies(t)' = local_dependencies(t)
  BY <1>1 DEF sortVars, local_dependencies
<1>3. Acyclic' = Acyclic
  BY <1>1, <1>2 DEF Acyclic
<1>4. \A list : InDependencyOrder(list)' = InDependencyOrder(list)
  BY <1>2 DEF InDependencyOrder
<1>5. SortInv'
  BY <1>1, <1>2, <1>4 DEF Inv, SortInv, sortVars
<1>6. DependenciesFirst'
  BY <1>1, <1>3, <1>4 DEF Inv, DependenciesFirst, Returned, sortVars
<1> QED
  BY <1>1, <1>5, <1>6 DEF Inv, sortVars

LEMMA InvKeeps ==
  ASSUME Inv, [SortNext]_sortVars
  PROVE  Inv'
BY StutterKeeps, CountKeeps, PlaceKeeps, ReturnOrderedKeeps, ReturnShortKeeps DEF SortNext

LEMMA InvStarts == SortInit => Inv
BY TaskListsAssumption DEF SortInit, Inv, SortInv, DependenciesFirst, Returned

(***************************************************************************)
(* The list that _order_tasks_for_execution returns is in dependency order *)
(* for every list of rows, of any length, whose dependencies allow it, and *)
(* the rows as they came for every other one; no task is lost.             *)
(***************************************************************************)
THEOREM SortedByDependencies == SortSpec => []DependenciesFirst
<1>1. Inv => DependenciesFirst
  BY DEF Inv
<1> QED
  BY <1>1, InvStarts, InvKeeps, PTL DEF SortSpec

\* The invariant of the loop, for the same lists.
THEOREM SortInvariant == SortSpec => []SortInv
<1>1. Inv => SortInv
  BY DEF Inv
<1> QED
  BY <1>1, InvStarts, InvKeeps, PTL DEF SortSpec

\* Rows that are in order are placed one after the other.
RowsInv ==
  /\ at = "placing" /\ InDependencyOrder(Rows) => \A i \in 1..Len(ordered) : ordered[i] = i
  /\ OrderedRowsKept

\* With the first k rows placed, the next one is the first that is ready.
LEMMA PlaceKeepsRows ==
  ASSUME Inv, RowsInv, Place
  PROVE  RowsInv'
<1>1. /\ depends_on \in Seq(SUBSET Nat) /\ depends_on' = depends_on
      /\ ordered \in Seq(Tasks) /\ at = "placing" /\ at' = "placing"
      /\ ordered' = Append(ordered, First(ready)) /\ ready # {}
  BY DEF Inv, Place
<1>2. Rows' = Rows /\ InDependencyOrder(Rows)' = InDependencyOrder(Rows)
  BY <1>1 DEF Rows, Tasks, InDependencyOrder, local_dependencies
<1>3. ASSUME InDependencyOrder(Rows)
      PROVE  First(ready) = Len(ordered) + 1
  <2> DEFINE k == Len(ordered)
  <2>1. k \in Nat /\ \A i \in 1..k : ordered[i] = i
    BY <1>1, <1>3 DEF RowsInv
  <2>2. Placed = 1..k
    BY <2>1 DEF Placed
  <2>3. ready = {t \in Tasks \ Placed : local_dependencies(t) \subseteq Placed}
    BY <1>1 DEF Inv, SortInv
  <2>4. First(ready) \in ready /\ \A u \in ready : First(ready) <= u
    <3>1. ready \in SUBSET Nat
      BY <1>1, <2>3, TasksFinite
    <3> QED
      BY <1>1, <3>1, FirstIsLeast
  <2>5. First(ready) \in Nat /\ k < First(ready) /\ k + 1 \in Tasks
    BY <1>1, <2>1, <2>2, <2>3, <2>4, TasksFinite DEF Tasks
  <2>6. local_dependencies(k + 1) \subseteq 1..k
    <3> SUFFICES ASSUME NEW d \in local_dependencies(k + 1)
                 PROVE  d \in 1..k
      OBVIOUS
    <3>1. Len(Rows) = Len(depends_on) /\ Rows[k + 1] = k + 1
      BY <1>1, <2>5, TasksFinite DEF Rows
    <3>2. PICK j \in 1..((k + 1) - 1) : Rows[j] = d
      BY <1>3, <2>5, <3>1 DEF InDependencyOrder, Tasks
    <3>3. j \in 1..k /\ j \in Tasks
      BY <1>1, <2>1, <2>5, <3>2, TasksFinite DEF Tasks
    <3>4. Rows[j] = j
      BY <3>3 DEF Rows
    <3> QED
      BY <3>2, <3>3, <3>4
  <2>7. k + 1 \in ready
    BY <2>1, <2>2, <2>3, <2>5, <2>6
  <2> QED
    BY <2>1, <2>4, <2>5, <2>7
<1>4. ASSUME InDependencyOrder(Rows)
      PROVE  \A i \in 1..Len(ordered') : ordered'[i] = i
  <2>1. \A i \in 1..Len(ordered) : ordered[i] = i
    BY <1>1, <1>4 DEF RowsInv
  <2>2. ordered' = Append(ordered, Len(ordered) + 1)
    BY <1>1, <1>3, <1>4
  <2> QED
    BY <1>1, <2>1, <2>2
<1> QED
  BY <1>1, <1>2, <1>4 DEF RowsInv, OrderedRowsKept, Returned

LEMMA RowsInvKeeps ==
  ASSUME Inv, RowsInv, [SortNext]_sortVars
  PROVE  RowsInv'
<1>1. depends_on' = depends_on /\ depends_on \in Seq(SUBSET Nat)
  BY DEF Inv, SortNext, ReturnShort, Count, Place, ReturnOrdered, sortVars
<1>2. Rows' = Rows /\ InDependencyOrder(Rows)' = InDependencyOrder(Rows)
  BY <1>1 DEF Rows, Tasks, InDependencyOrder, local_dependencies
<1>3. CASE UNCHANGED sortVars
  BY <1>2, <1>3 DEF RowsInv, OrderedRowsKept, Returned, sortVars
<1>4. CASE ReturnShort
  BY <1>2, <1>4 DEF RowsInv, OrderedRowsKept, Returned, ReturnShort, Return
<1>5. CASE Count
  <2>1. ordered' = <<>> /\ at' = "placing"
    BY <1>5 DEF Inv, Count
  <2> QED
    BY <2>1 DEF RowsInv, OrderedRowsKept, Returned
<1>6. CASE ReturnOrdered
  <2>1. /\ at = "placing" /\ at' = "returned"
        /\ tasks' = IF Len(ordered) # Cardinality(Tasks) THEN Rows ELSE ordered
    BY <1>6 DEF ReturnOrdered, Return
  <2>2. ASSUME InDependencyOrder(Rows), Len(ordered) = Cardinality(Tasks)
        PROVE  ordered = Rows
    <3>1. ordered \in [Tasks -> Tasks]
      BY <2>1, <2>2, AllPlaced
    <3>2. Len(ordered) = Len(depends_on)
      BY <1>1, <2>2, TasksFinite
    <3>3. \A i \in Tasks : ordered[i] = i
      BY <2>1, <2>2, <3>2 DEF RowsInv, Tasks
    <3> QED
      BY <3>1, <3>3 DEF Rows
  <2> QED
    BY <1>2, <2>1, <2>2 DEF RowsInv, OrderedRowsKept, Returned
<1> QED
  BY <1>3, <1>4, <1>5, <1>6, PlaceKeepsRows DEF SortNext

(***************************************************************************)
(* A list of rows that is in dependency order already is returned as it    *)
(* is, so that loading and saving a project again and again never shuffles *)
(* its tasks.                                                              *)
(***************************************************************************)
THEOREM OrderedRowsAreKept == SortSpec => []OrderedRowsKept
<1>1. SortInit => RowsInv
  BY DEF SortInit, RowsInv, OrderedRowsKept, Returned
<1>2. RowsInv => OrderedRowsKept
  BY DEF RowsInv
<1> QED
  BY <1>1, <1>2, InvStarts, InvKeeps, RowsInvKeeps, PTL DEF SortSpec

\* ------------------------------------------------------- the plan of a project

Plan == <<3, 2, 1, 5, 4>>

\* With the rows of the plan, the list so far is a beginning of the plan.
PlanInv ==
  /\ depends_on = PlanRows /\ at # "returned" =>
       Len(ordered) <= 5 /\ \A i \in 1..Len(ordered) : ordered[i] = Plan[i]
  /\ PlanComesBack

LEMMA PlanDependencies ==
  ASSUME depends_on = PlanRows
  PROVE  /\ Tasks = {1, 2, 3, 4, 5} /\ Len(depends_on) = 5
         /\ local_dependencies(1) = {2} /\ local_dependencies(2) = {3}
         /\ local_dependencies(3) = {} /\ local_dependencies(4) = {1, 5}
         /\ local_dependencies(5) = {2}
<1>1. /\ Len(depends_on) = 5
      /\ depends_on[1] = {2} /\ depends_on[2] = {3} /\ depends_on[3] = {}
      /\ depends_on[4] = {1, 5} /\ depends_on[5] = {2}
  BY DEF PlanRows
<1>2. Tasks = {1, 2, 3, 4, 5}
  BY <1>1 DEF Tasks
<1> QED
  BY <1>1, <1>2 DEF local_dependencies

\* What is ready after k tasks: the tie between build and trend is broken by position.
LEMMA PlanReady ==
  ASSUME Inv, PlanInv, depends_on = PlanRows, at = "placing"
  PROVE  /\ Len(ordered) \in 0..5
         /\ Len(ordered) = 0 => ready = {3}
         /\ Len(ordered) = 1 => ready = {2}
         /\ Len(ordered) = 2 => ready = {1, 5}
         /\ Len(ordered) = 3 => ready = {5}
         /\ Len(ordered) = 4 => ready = {4}
         /\ Len(ordered) = 5 => ready = {}
<1>1. ready = {t \in Tasks \ Placed : local_dependencies(t) \subseteq Placed}
  BY DEF Inv, SortInv
<1>2. /\ Plan[1] = 3 /\ Plan[2] = 2 /\ Plan[3] = 1 /\ Plan[4] = 5 /\ Plan[5] = 4
  BY DEF Plan
<1>3. Len(ordered) \in 0..5 /\ \A i \in 1..Len(ordered) : ordered[i] = Plan[i]
  <2>1. Len(ordered) \in Nat
    BY DEF Inv
  <2>2. Len(ordered) <= 5 /\ \A i \in 1..Len(ordered) : ordered[i] = Plan[i]
    BY DEF PlanInv
  <2>3. Len(ordered) <= 5
    BY <2>2
  <2>4. Len(ordered) \in 0..5
    <3>1. \A n \in Nat : n <= 5 => n \in 0..5
      OBVIOUS
    <3> QED
      BY <2>1, <2>3, <3>1, Zenon
  <2> QED
    BY <2>2, <2>4, Zenon
<1>4. Placed = {Plan[i] : i \in 1..Len(ordered)}
  BY <1>3 DEF Placed
<1>5. ASSUME Len(ordered) = 0 PROVE ready = {3}
  <2>1. 1..Len(ordered) = {}
    BY <1>5
  <2>2. Placed = {}
    BY <1>2, <1>4, <2>1
  <2> QED
    BY <1>1, <2>2, PlanDependencies
<1>6. ASSUME Len(ordered) = 1 PROVE ready = {2}
  <2>1. 1..Len(ordered) = {1}
    BY <1>6
  <2>2. Placed = {3}
    BY <1>2, <1>4, <2>1
  <2> QED
    BY <1>1, <2>2, PlanDependencies
<1>7. ASSUME Len(ordered) = 2 PROVE ready = {1, 5}
  <2>1. 1..Len(ordered) = {1, 2}
    BY <1>7
  <2>2. Placed = {3, 2}
    BY <1>2, <1>4, <2>1
  <2> QED
    BY <1>1, <2>2, PlanDependencies
<1>8. ASSUME Len(ordered) = 3 PROVE ready = {5}
  <2>1. 1..Len(ordered) = {1, 2, 3}
    BY <1>8
  <2>2. Placed = {3, 2, 1}
    BY <1>2, <1>4, <2>1
  <2> QED
    BY <1>1, <2>2, PlanDependencies
<1>9. ASSUME Len(ordered) = 4 PROVE ready = {4}
  <2>1. 1..Len(ordered) = {1, 2, 3, 4}
    BY <1>9
  <2>2. Placed = {3, 2, 1, 5}
    BY <1>2, <1>4, <2>1
  <2> QED
    BY <1>1, <2>2, PlanDependencies
<1>10. ASSUME Len(ordered) = 5 PROVE ready = {}
  <2>1. 1..Len(ordered) = {1, 2, 3, 4, 5}
    BY <1>10
  <2>2. Placed = {3, 2, 1, 5, 4}
    BY <1>2, <1>4, <2>1
  <2> QED
    BY <1>1, <2>2, PlanDependencies
<1> QED
  BY <1>3, <1>5, <1>6, <1>7, <1>8, <1>9, <1>10

\* The next task of the plan is the first that is ready.
LEMMA PlacePlan ==
  ASSUME Inv, PlanInv, depends_on = PlanRows, Place
  PROVE  Len(ordered') <= 5 /\ \A i \in 1..Len(ordered') : ordered'[i] = Plan[i]
<1> DEFINE k == Len(ordered)
<1>1. /\ ordered \in Seq(Tasks) /\ at = "placing" /\ ready # {}
      /\ ordered' = Append(ordered, First(ready))
      /\ \A i \in 1..k : ordered[i] = Plan[i]
  BY DEF Place, Inv, PlanInv
<1>2. /\ First({3}) = 3 /\ First({2}) = 2 /\ First({1, 5}) = 1
      /\ First({5}) = 5 /\ First({4}) = 4
  BY FirstIsLeast
<1>3. /\ Plan[1] = 3 /\ Plan[2] = 2 /\ Plan[3] = 1 /\ Plan[4] = 5 /\ Plan[5] = 4
  BY DEF Plan
<1>4. k \in 0..4 /\ First(ready) = Plan[k + 1]
  <2>1. k = 0 \/ k = 1 \/ k = 2 \/ k = 3 \/ k = 4
    BY <1>1, PlanReady
  <2> HIDE DEF k, Plan
  <2>2. k \in 0..4 /\ (k = 0 => k + 1 = 1) /\ (k = 1 => k + 1 = 2) /\ (k = 2 => k + 1 = 3)
        /\ (k = 3 => k + 1 = 4) /\ (k = 4 => k + 1 = 5)
    BY <2>1
  <2>3. /\ k = 0 => ready = {3}
        /\ k = 1 => ready = {2}
        /\ k = 2 => ready = {1, 5}
        /\ k = 3 => ready = {5}
        /\ k = 4 => ready = {4}
    BY <1>1, PlanReady DEF k
  <2> QED
    BY <1>2, <1>3, <2>1, <2>2, <2>3
<1> HIDE DEF Plan
<1>5. /\ Len(ordered') = k + 1 /\ ordered'[k + 1] = First(ready)
      /\ \A i \in 1..k : ordered'[i] = ordered[i]
  <2>1. First(ready) \in Tasks /\ k \in Nat
    BY <1>1, <1>3, <1>4, PlanDependencies
  <2> QED
    BY <1>1, <2>1
<1> QED
  BY <1>1, <1>4, <1>5

LEMMA PlanInvKeeps ==
  ASSUME Inv, PlanInv, [SortNext]_sortVars
  PROVE  PlanInv'
<1>1. depends_on' = depends_on
  BY DEF SortNext, ReturnShort, Count, Place, ReturnOrdered, sortVars
<1> SUFFICES ASSUME depends_on = PlanRows
             PROVE  PlanInv'
  BY <1>1 DEF PlanInv, PlanComesBack
<1>2. Cardinality(Tasks) = 5
  BY TasksFinite, PlanDependencies DEF Inv
<1>3. CASE Place
  <2>1. at' = "placing"
    BY <1>3 DEF Place
  <2> QED
    BY <1>3, <2>1, PlacePlan DEF PlanInv, PlanComesBack, Returned
<1>4. CASE ReturnOrdered
  <2>1. /\ at = "placing" /\ ready = {} /\ at' = "returned"
        /\ tasks' = IF Len(ordered) # 5 THEN Rows ELSE ordered
    BY <1>2, <1>4 DEF ReturnOrdered, Return
  <2>2. Len(ordered) = 5
    BY <2>1, PlanReady
  <2>3. /\ ordered \in Seq(Nat) /\ Plan \in Seq(Nat) /\ Len(Plan) = 5
    BY TasksFinite DEF Inv, Plan
  <2>4. \A i \in 1..5 : ordered[i] = Plan[i]
    BY <2>1, <2>2 DEF PlanInv
  <2> HIDE DEF Plan
  <2>5. ordered = Plan
    BY <2>2, <2>3, <2>4, SeqEqual
  <2> QED
    BY <2>1, <2>2, <2>5 DEF PlanInv, PlanComesBack, Plan
<1>5. CASE Count \/ ReturnShort \/ UNCHANGED sortVars
  BY <1>2, <1>5 DEF Count, ReturnShort, sortVars, PlanInv, PlanComesBack, Returned
<1> QED
  BY <1>3, <1>4, <1>5 DEF SortNext

\* The tasks of a project come back from Postgres in the order of _build_plan, the review
\* last, although their rows come back by id (_order_tasks_for_execution).
THEOREM ThePlanComesBack == SortSpec => []PlanComesBack
<1>1. SortInit => PlanInv
  BY DEF SortInit, PlanInv, PlanComesBack, Returned
<1>2. PlanInv => PlanComesBack
  BY DEF PlanInv
<1> QED
  BY <1>1, <1>2, InvStarts, InvKeeps, PlanInvKeeps, PTL DEF SortSpec
===============================================================================
