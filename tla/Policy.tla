------------------------------- MODULE Policy -------------------------------
(***************************************************************************)
(* Decisions on a request: permission tokens (kernel/src/permission.rs) and  *)
(* the RBAC and ABAC rules (policy/src).  A permission is a sequence, whose  *)
(* last element may be a wildcard.                                           *)
(***************************************************************************)
EXTENDS Integers, Sequences, SequencesExt

permission_matches(g, required) ==
    \/ g = required
    \/ g # <<>> /\ g[Len(g)] = "*" /\ IsPrefix(SubSeq(g, 1, Len(g) - 1), required)

rbac_allows(perms, roles, action) ==
    \E r \in roles : r \in DOMAIN perms /\ \E p \in perms[r] : permission_matches(p, action)

\* The rule names the request's action exactly: no wildcard here.
Applies(rule, req) ==
    /\ rule.action = req.action
    /\ rule.key \in DOMAIN req.attributes /\ req.attributes[rule.key] = rule.value

\* A mutant of evaluate: the first rule that applies decides.
evaluate_first(perms, rules, req) ==
    LET hits == SelectSeq(rules, LAMBDA r : Applies(r, req))
    IN  IF hits # <<>> THEN ~hits[1].deny ELSE rbac_allows(perms, req.roles, req.action)

\* Deny rules first, then allow rules or a role; otherwise denied.
evaluate(perms, rules, req) ==
    LET hits == {r \in Range(rules) : Applies(r, req)}
    IN  /\ \A r \in hits : ~r.deny
        /\ hits # {} \/ rbac_allows(perms, req.roles, req.action)

\* identity.request(action).
request(identity, action) ==
    [subject |-> identity.subject, roles |-> identity.roles,
     attributes |-> identity.attributes, action |-> action]

\* Outcome of ToolRegistry::invoke.
invoke(ts, grants, name) ==
    CASE name \notin DOMAIN ts -> "NotFound"
      [] name \in DOMAIN ts /\ \E i \in DOMAIN ts[name].permissions :
             \A g \in grants : ~permission_matches(g, ts[name].permissions[i]) -> "PolicyDenied"
      [] OTHER -> IF ts[name].valid THEN "executed" ELSE "invalid"
=============================================================================
