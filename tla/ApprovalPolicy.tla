---------------------------- MODULE ApprovalPolicy ----------------------------
(***************************************************************************)
(* app/services/approval.py: who may take which approval decision.         *)
(*                                                                         *)
(* A project policy is a record                                            *)
(*   [owner : Id, strict : BOOLEAN, rules : partial function               *)
(*      action -> [roles : SUBSET ActorRoles, ids : SUBSET Id]]            *)
(* and a runtime allow-list a partial function action -> SUBSET Id.  Ids   *)
(* are compared after str.strip; NoId stands for every id that strips to   *)
(* the empty string.  Mapping keys are action values in any spelling that  *)
(* normalises to the action, so a partial function on the actions is what  *)
(* _find_action_mapping_value sees.                                        *)
(***************************************************************************)

ActionTypes ==
  {"external_api_send", "destructive_change", "bulk_modify",
   "production_affecting_change"}

ActorRoles == {"owner", "operator", "approver", "admin", "viewer"}

NoId == ""

\* APPROVAL_REQUIRED_ACTIONS, asked through requires_human_approval.
requires_human_approval(action) == action \in ActionTypes

DEFAULT_ACTION_ROLE_RULES ==
  [a \in ActionTypes |->
     CASE a = "external_api_send"           -> {"owner", "approver", "admin"}
       [] a = "destructive_change"          -> {"approver", "admin"}
       [] a = "bulk_modify"                 -> {"operator", "approver", "admin"}
       [] a = "production_affecting_change" -> {"admin"}]

normalize_actor_ids(ids) == ids \ {NoId}

\* ProjectPolicy(): what a run request without a policy gets.
DefaultPolicy == [owner |-> NoId, strict |-> FALSE, rules |-> <<>>]

\* Mutant: an explicit rule adds to the default roles.
effective_roles_Added(action, policy) ==
  (IF action \in DOMAIN policy.rules THEN policy.rules[action].roles ELSE {})
  \union (IF policy.strict /\ action \notin DOMAIN policy.rules THEN {}
          ELSE DEFAULT_ACTION_ROLE_RULES[action])

\* Which roles decide about the action: an explicit rule replaces the default
\* roles only when it names some, and strict mode leaves no role without a rule.
effective_roles(action, policy) ==
  IF action \in DOMAIN policy.rules
  THEN IF policy.rules[action].roles # {}
       THEN policy.rules[action].roles
       ELSE DEFAULT_ACTION_ROLE_RULES[action]
  ELSE IF policy.strict THEN {} ELSE DEFAULT_ACTION_ROLE_RULES[action]

\* Whether actor ids are checked, and against which ids.  The runtime
\* allow-list is not consulted where strict mode has already returned.
StrictlyClosed(action, policy) == policy.strict /\ action \notin DOMAIN policy.rules

\* Mutant: an allow-list of blank ids counts as no allow-list.
actor_ids_checked_NonBlank(action, policy, allow) ==
  \/ StrictlyClosed(action, policy)
  \/ action \in DOMAIN allow /\ normalize_actor_ids(allow[action]) # {}
  \/ action \in DOMAIN policy.rules /\ normalize_actor_ids(policy.rules[action].ids) # {}

actor_ids_checked(action, policy, allow) ==
  \/ StrictlyClosed(action, policy)
  \/ action \in DOMAIN allow
  \/ action \in DOMAIN policy.rules /\ policy.rules[action].ids # {}

effective_actor_ids(action, policy, allow) ==
  IF StrictlyClosed(action, policy) THEN {}
  ELSE IF action \in DOMAIN allow THEN normalize_actor_ids(allow[action])
  ELSE normalize_actor_ids(policy.rules[action].ids)

override_applied(action, actor, policy, allow) ==
  /\ actor.role # "viewer"
  /\ \/ StrictlyClosed(action, policy)
     \/ action \in DOMAIN policy.rules
     \/ action \in DOMAIN allow

actor_roles(actor, policy) ==
  {actor.role} \union
  (IF policy.owner # NoId /\ policy.owner = actor.id THEN {"owner"} ELSE {})

authorize_action(action, actor, policy, allow) ==
  /\ actor.role # "viewer"
  /\ actor_roles(actor, policy) \intersect effective_roles(action, policy) # {}
  /\ actor_ids_checked(action, policy, allow)
       => actor.id \in effective_actor_ids(action, policy, allow)
===============================================================================
