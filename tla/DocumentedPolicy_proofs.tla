------------------------ MODULE DocumentedPolicy_proofs ------------------------
(***************************************************************************)
(* authorize_action gives the verdict of the documented rules for every    *)
(* actor, policy and allow-list, except that a runtime allow-list stands   *)
(* in the place of the ids of the project's rule instead of beside them.   *)
(***************************************************************************)
EXTENDS DocumentedPolicy, TLAPS

\* The matrix of the documentation is the table of the code.
LEMMA MatrixIsDefault ==
  ASSUME NEW action \in ActionTypes, NEW role
  PROVE  Matrix(action, role) <=> role \in DEFAULT_ACTION_ROLE_RULES[action]
<1>1. \/ action = "external_api_send" \/ action = "destructive_change"
      \/ action = "bulk_modify" \/ action = "production_affecting_change"
  BY DEF ActionTypes
<1> QED
  BY <1>1 DEF Matrix, DEFAULT_ACTION_ROLE_RULES, ActionTypes

\* The roles an actor acts as are those of actor_roles.
LEMMA RolesAgree ==
  ASSUME NEW actor, NEW policy, NEW role
  PROVE  role \in actor_roles(actor, policy)
           <=> role \in {actor.role, "owner"} /\ ActsAs(actor, role, policy)
<1>1. CASE policy.owner # NoId /\ policy.owner = actor.id
  BY <1>1, Zenon DEF actor_roles, ActsAs
<1>2. CASE ~(policy.owner # NoId /\ policy.owner = actor.id)
  BY <1>2, Zenon DEF actor_roles, ActsAs
<1> QED
  BY <1>1, <1>2

\* The role part: of the documentation, and of the code.
LEMMA RolePart ==
  ASSUME NEW action \in ActionTypes, NEW actor, NEW policy
  PROVE  HasRole(action, actor, policy)
           <=> /\ actor.role # "viewer"
               /\ actor_roles(actor, policy) \intersect effective_roles(action, policy) # {}
<1> DEFINE known == action \in DOMAIN policy.rules
           named == policy.rules[action].roles
<1>1. CASE known /\ named # {}
  BY <1>1, RolesAgree DEF HasRole, NamesRoles, effective_roles
<1>2. CASE known /\ named = {}
  BY <1>2, RolesAgree, MatrixIsDefault DEF HasRole, NamesRoles, effective_roles
<1>3. CASE ~known /\ policy.strict
  BY <1>3 DEF HasRole, effective_roles
<1>4. CASE ~known /\ ~policy.strict
  BY <1>4, RolesAgree, MatrixIsDefault DEF HasRole, NamesRoles, effective_roles
<1> QED
  BY <1>1, <1>2, <1>3, <1>4

\* The list part, where strict mode has not denied before.
LEMMA ListPart ==
  ASSUME NEW action, NEW actor, NEW policy, NEW allow, ~StrictlyClosed(action, policy)
  PROVE  Listed(action, actor, IF action \in DOMAIN allow THEN allow ELSE RuleIds(policy))
           <=> (actor_ids_checked(action, policy, allow)
                  => actor.id \in effective_actor_ids(action, policy, allow))
<1>1. CASE action \in DOMAIN allow
  BY <1>1 DEF Listed, actor_ids_checked, effective_actor_ids, normalize_actor_ids
<1>2. CASE action \notin DOMAIN allow /\ action \in DOMAIN RuleIds(policy)
  BY <1>2 DEF Listed, RuleIds, actor_ids_checked, effective_actor_ids, normalize_actor_ids
<1>3. CASE action \notin DOMAIN allow /\ action \notin DOMAIN RuleIds(policy)
  BY <1>3 DEF Listed, RuleIds, actor_ids_checked
<1> QED
  BY <1>1, <1>2, <1>3

\* For every actor, policy and allow-list authorize_action grants what the documented
\* rules entitle to: strict mode without a rule denies, a rule that names roles replaces
\* the matrix, the matrix decides otherwise, and the ids of the allow-list, or else
\* those of the rule, are matched in addition (authorize_action,
\* _resolve_effective_policy).
THEOREM AuthorizedIsEntitled ==
  ASSUME NEW action \in ActionTypes, NEW actor, NEW policy, NEW allow
  PROVE  authorize_action(action, actor, policy, allow)
           <=> Entitled(action, actor, policy, allow)
<1>1. CASE StrictlyClosed(action, policy)
  <2>1. effective_roles(action, policy) = {}
    BY <1>1 DEF StrictlyClosed, effective_roles
  <2>2. ~HasRole(action, actor, policy)
    BY <1>1 DEF StrictlyClosed, HasRole
  <2> QED
    BY <2>1, <2>2 DEF authorize_action, Entitled
<1>2. CASE ~StrictlyClosed(action, policy)
  BY <1>2, RolePart, ListPart DEF authorize_action, Entitled
<1> QED
  BY <1>1, <1>2

\* Giving the actor the project's ownership, or a rule that names roles more of them,
\* takes no decision away from the actor (actor_roles, effective_roles).
THEOREM MoreRolesKeepDecisions ==
  ASSUME NEW action \in ActionTypes, NEW actor, NEW allow, NEW policy, NEW policy1,
         policy1.strict = policy.strict,
         policy1.owner \in {policy.owner, actor.id},
         DOMAIN policy1.rules = DOMAIN policy.rules,
         \A a \in DOMAIN policy.rules :
           /\ policy1.rules[a].ids = policy.rules[a].ids
           /\ policy.rules[a].roles \subseteq policy1.rules[a].roles
           /\ policy.rules[a].roles = {} => policy1.rules[a].roles = {},
         authorize_action(action, actor, policy, allow)
  PROVE  authorize_action(action, actor, policy1, allow)
<1>1. HasRole(action, actor, policy) /\ Entitled(action, actor, policy, allow)
  BY AuthorizedIsEntitled DEF Entitled
<1>2. NamesRoles(action, policy1) <=> NamesRoles(action, policy)
  BY DEF NamesRoles
<1>3. \A role : ActsAs(actor, role, policy) => ActsAs(actor, role, policy1)
  BY DEF ActsAs
<1>4. HasRole(action, actor, policy1)
  <2>1. PICK role \in {actor.role, "owner"} :
          /\ ActsAs(actor, role, policy)
          /\ IF NamesRoles(action, policy) THEN role \in policy.rules[action].roles
             ELSE Matrix(action, role)
    BY <1>1 DEF HasRole
  <2>2. IF NamesRoles(action, policy1) THEN role \in policy1.rules[action].roles
        ELSE Matrix(action, role)
    BY <1>2, <2>1 DEF NamesRoles
  <2> QED
    BY <1>1, <1>3, <2>1, <2>2 DEF HasRole
<1>5. RuleIds(policy1) = RuleIds(policy)
  BY DEF RuleIds
<1>6. Entitled(action, actor, policy1, allow)
  BY <1>1, <1>4, <1>5 DEF Entitled
<1> QED
  BY <1>6, AuthorizedIsEntitled
===============================================================================
