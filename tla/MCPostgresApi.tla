---------------------------- MODULE MCPostgresApi -----------------------------
(***************************************************************************)
(* Small instances of PostgresApi for TLC: one project, an approver, the   *)
(* default policy, one thread followed statement by statement.             *)
(***************************************************************************)
EXTENDS PostgresApi

MCActors == {[id |-> "ann", role |-> "approver"]}

MCPolicies == {DefaultPolicy}

MCAllowLists == {<<>>}

MCActionSets == {{}, {EXT}}
===============================================================================
