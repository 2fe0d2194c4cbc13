---------------------------- MODULE DocumentedPolicy ----------------------------
(***************************************************************************)
(* Who may take which approval decision according to docs/architecture.md: *)
(* the role-to-action matrix and the policy model, as definitions of their *)
(* own by which the decisions of the code are judged.  Nothing here uses   *)
(* the tables or the steps of ApprovalPolicy.                              *)
(***************************************************************************)
EXTENDS ApprovalPolicy

\* The role-to-action matrix, row by row.
Matrix(action, role) ==
  CASE role = "owner"    -> action = "external_api_send"
    [] role = "operator" -> action = "bulk_modify"
    [] role = "approver" -> action # "production_affecting_change"
    [] role = "admin"    -> TRUE
    [] OTHER             -> FALSE

\* An actor is the owner of a project too if the policy names it as such.
ActsAs(actor, role, policy) ==
  \/ role = actor.role
  \/ role = "owner" /\ policy.owner = actor.id /\ policy.owner # NoId

NamesRoles(action, policy) ==
  action \in DOMAIN policy.rules /\ policy.rules[action].roles # {}

\* "strict mode + missing explicit action rule -> deny", "explicit action rule ->
\* override defaults for that action", "no explicit rule -> fallback to default RBAC".
HasRole(action, actor, policy) ==
  /\ actor.role # "viewer"
  /\ policy.strict => action \in DOMAIN policy.rules
  /\ \E role \in {actor.role, "owner"} :
       /\ ActsAs(actor, role, policy)
       /\ IF NamesRoles(action, policy) THEN role \in policy.rules[action].roles
          ELSE Matrix(action, role)

\* The actor is on the list of ids that the mapping has for the action, if it has one.
\* A list of blank ids names nobody.
Listed(action, actor, lists) ==
  action \in DOMAIN lists => actor.id \in lists[action] \ {NoId}

\* The lists of ids in the policy's own rules; a rule without ids has none.
RuleIds(policy) ==
  [a \in {b \in DOMAIN policy.rules : policy.rules[b].ids # {}} |-> policy.rules[a].ids]

\* A role for the action, and a match with the configured list of ids.  Where the
\* caller and the rule both configure one, this asks for the caller's: that the rule's
\* holds as well is DecidersAreListed, which the code does not satisfy.
Entitled(action, actor, policy, allow) ==
  /\ HasRole(action, actor, policy)
  /\ Listed(action, actor, IF action \in DOMAIN allow THEN allow ELSE RuleIds(policy))
===============================================================================
