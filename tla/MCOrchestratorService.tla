------------------------- MODULE MCOrchestratorService -------------------------
(***************************************************************************)
(* Small instances of OrchestratorService for TLC.                         *)
(***************************************************************************)
EXTENDS OrchestratorService, TLC

approver == [id |-> "ann", role |-> "approver"]
operator == [id |-> "oli", role |-> "operator"]

MCActors == {approver, operator}

\* The default policy, a strict one that leaves the send to its owner oli, and one whose
\* rule for the send lists nobody but a blank id.
MCPolicies ==
  {DefaultPolicy,
   [owner |-> "oli", strict |-> TRUE,
    rules |-> (EXT :> [roles |-> {"owner"}, ids |-> {}])],
   [owner |-> NoId, strict |-> FALSE, rules |-> (EXT :> [roles |-> {}, ids |-> {NoId}])]}

MCAllowLists == {<<>>}

MCActionSets == {{}, {EXT}, {"bulk_modify"}, {EXT, "bulk_modify"}, {"malformed"}}

MCManualActions == {"bulk_modify"}

\* For the ids: the project's rule leaves the send to ann, the caller's list to bob.
listed == [id |-> "bob", role |-> "approver"]

MCListedActors == {approver, listed}

MCListingPolicies ==
  {[owner |-> NoId, strict |-> FALSE, rules |-> (EXT :> [roles |-> {}, ids |-> {"ann"}])]}

MCListingAllowLists == {<<>>, EXT :> {"bob"}}
===============================================================================
