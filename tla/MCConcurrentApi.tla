---------------------------- MODULE MCConcurrentApi ----------------------------
(***************************************************************************)
(* Small instances of ConcurrentApi for TLC: one project, two threads, an  *)
(* approver, the default policy.                                           *)
(***************************************************************************)
EXTENDS ConcurrentApi, TLC

MCActors == {[id |-> "ann", role |-> "approver"]}

MCPolicies == {DefaultPolicy}

MCAllowLists == {<<>>}

MCActionSets == {{}, {EXT}}

\* Threads are interchangeable: sound, since no liveness is checked here.
ThreadSymmetry == Permutations(Workers)
===============================================================================
