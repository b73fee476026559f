------------------------------- MODULE Access -------------------------------
(***************************************************************************)
(* Who may do what, and with what: the policy engine and the identities     *)
(* (policy/src), the tool registry (plugins/src/lib.rs) and the runtime      *)
(* registry (runtime/src/lib.rs).  Each is filled by calls in any order.     *)
(***************************************************************************)
EXTENDS Policy, FiniteSets

CONSTANTS
    Role, Permission,
    Rule,            \* ABAC rules: [action, key, value, deny]
    Identity,        \* identities: [subject, roles, attributes], attributes a function
    Token,           \* credentials
    Tool,            \* tools: [name, permissions, valid]; valid: validate accepts
    RuntimeId, RuntimeKind, RuntimeCap,
    MaxRules

ASSUME AccessAssumption ==
    /\ MaxRules \in Nat
    /\ RuntimeKind \subseteq {"edge", "npu", "gpu", "cpu", "cloud"}

VARIABLES
    role_permissions, \* role -> permissions
    abac_rules,      \* sequence of rules
    tokens,          \* StaticTokenProvider: token -> identity
    tools, granted,  \* ToolRegistry
    runtimes, order  \* RuntimeRegistry: id -> [kind, caps], and ids as registered

accessVars == <<role_permissions, abac_rules, tokens, tools, granted, runtimes, order>>

\* authenticate, then evaluate: an unknown token is denied.
permitted(token, action) ==
    /\ token \in DOMAIN tokens
    /\ evaluate(role_permissions, abac_rules, request(tokens[token], action))

locality_rank(kind) ==
    CHOOSE i \in 0 .. 4 : <<"edge", "npu", "gpu", "cpu", "cloud">>[i + 1] = kind

\* RuntimeRegistry::select: the first of the least rank, or none.
select(rs, ord, cap) ==
    LET able    == {i \in DOMAIN ord : cap \in rs[ord[i]].caps}
        rank(i) == locality_rank(rs[ord[i]].kind)
        best    == {i \in able : \A j \in able : rank(i) < rank(j) \/ (rank(i) = rank(j) /\ i <= j)}
    IN  IF able = {} THEN "CapabilityUnavailable" ELSE ord[CHOOSE i \in best : TRUE]

list(rs, ord) == [i \in DOMAIN ord |-> rs[ord[i]]]

AccessInit ==
    /\ role_permissions = <<>> /\ abac_rules = <<>> /\ tokens = <<>>
    /\ tools = <<>> /\ granted = {} /\ runtimes = <<>> /\ order = <<>>

Put(f, x, v) == [y \in DOMAIN f \cup {x} |-> IF y = x THEN v ELSE f[y]]

Grant(role, p) ==
    /\ role_permissions' = Put(role_permissions, role,
         (IF role \in DOMAIN role_permissions THEN role_permissions[role] ELSE {}) \cup {p})
    /\ UNCHANGED <<abac_rules, tokens, tools, granted, runtimes, order>>

AddRule(rule) ==
    /\ abac_rules' = Append(abac_rules, rule)
    /\ UNCHANGED <<role_permissions, tokens, tools, granted, runtimes, order>>

\* A token given twice resolves to the later identity.
AddToken(t, identity) ==
    /\ tokens' = Put(tokens, t, identity)
    /\ UNCHANGED <<role_permissions, abac_rules, tools, granted, runtimes, order>>

GrantTool(p) == granted' = granted \cup {p}
                /\ UNCHANGED <<role_permissions, abac_rules, tokens, tools, runtimes, order>>

\* A tool under a name that is taken replaces the other.
RegisterTool(tool) ==
    /\ tools' = Put(tools, tool.name, tool)
    /\ UNCHANGED <<role_permissions, abac_rules, tokens, granted, runtimes, order>>

\* Only an id that is new is added to the order.
RegisterRuntime(id, kind, caps) ==
    /\ runtimes' = Put(runtimes, id, [kind |-> kind, caps |-> caps])
    /\ order' = IF id \in DOMAIN runtimes THEN order ELSE Append(order, id)
    /\ UNCHANGED <<role_permissions, abac_rules, tokens, tools, granted>>

Empty(f) == DOMAIN f = {}

\* Policy, tools and runtimes share nothing: a behaviour fills one of them.
AccessNext ==
    \/ /\ Empty(tools) /\ granted = {} /\ Empty(runtimes)
       /\ \/ \E r \in Role, p \in Permission : Grant(r, p)
          \/ \E r \in Rule : Len(abac_rules) < MaxRules /\ AddRule(r)
          \/ \E t \in Token, i \in Identity : AddToken(t, i)
    \/ /\ Empty(role_permissions) /\ abac_rules = <<>> /\ Empty(tokens) /\ Empty(runtimes)
       /\ (\E p \in Permission : GrantTool(p)) \/ (\E t \in Tool : RegisterTool(t))
    \/ /\ Empty(role_permissions) /\ abac_rules = <<>> /\ Empty(tokens) /\ Empty(tools) /\ granted = {}
       /\ \E id \in RuntimeId, k \in RuntimeKind, caps \in SUBSET RuntimeCap \ {{}} :
            RegisterRuntime(id, k, caps)

AccessSpec == AccessInit /\ [][AccessNext]_accessVars

-----------------------------------------------------------------------------
Permissive(rules) == \A i \in DOMAIN rules : ~rules[i].deny

\* Deny wins and the order of configuration does not matter: more roles,
\* tokens' permissions and allow rules never take a permission away, a deny
\* rule never gives one, and the same rules in another order decide the same
\* (policy/src/lib.rs:79-112); nor does a grant to the tools refuse one that
\* ran, wildcards included (plugins/src/lib.rs).
DecisionsAreMonotone ==
    [][/\ \A i \in Identity, a \in Permission :
            LET req    == request(i, a)
                before == evaluate(role_permissions, abac_rules, req)
                after  == evaluate(role_permissions', abac_rules', req)
            IN  /\ abac_rules' = abac_rules => (before => after)
                /\ (abac_rules' # abac_rules /\ ~abac_rules'[Len(abac_rules')].deny
                      /\ Permissive(abac_rules)) => (before => after)
                /\ (abac_rules' # abac_rules /\ abac_rules'[Len(abac_rules')].deny) => (after => before)
                /\ after <=> evaluate(role_permissions', Reverse(abac_rules'), req)
       /\ (tokens' = tokens /\ abac_rules' = abac_rules) =>
            \A t \in Token, a \in Permission : permitted(t, a) => permitted(t, a)'
       /\ tools' = tools => \A n \in DOMAIN tools :
            invoke(tools, granted, n) = "executed" => invoke(tools', granted', n) = "executed"]_accessVars

\* Every registered runtime is listed once, in the order it first came,
\* though it may be registered again, and the one selected for a capability
\* serves it, with none more local that does (runtime/src/lib.rs:150-205).
RuntimesAreFound ==
    /\ {order[i] : i \in DOMAIN order} = DOMAIN runtimes /\ Len(list(runtimes, order)) = Cardinality(DOMAIN runtimes)
    /\ \A c \in RuntimeCap :
         LET s == select(runtimes, order, c)
         IN  IF \A id \in DOMAIN runtimes : c \notin runtimes[id].caps THEN s = "CapabilityUnavailable"
             ELSE /\ c \in runtimes[s].caps
                  /\ \A id \in DOMAIN runtimes : c \in runtimes[id].caps =>
                       locality_rank(runtimes[s].kind) <= locality_rank(runtimes[id].kind)
=============================================================================
