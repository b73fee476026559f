------------------------------- MODULE Agents -------------------------------
(***************************************************************************)
(* Agent manifests, the agent lifecycle and the registry that finds agents   *)
(* by capability (sdk/src/agent.rs, kernel/src/capability.rs).               *)
(*                                                                         *)
(* A manifest text is a sequence of lines, each already told apart as the    *)
(* parser does: "skip" (blank or comment), "item" (`- x`), "pair"            *)
(* (`key: value`) or "other".  A value is a sequence of tokens, so that an   *)
(* inline list is "[", its items and commas, "]", and no value is <<>>.      *)
(***************************************************************************)
EXTENDS Lists, FiniteSets, Functions

CONSTANTS
    Fold,            \* Fold[s]: the token in lower case
    Manifests,       \* the texts agents are registered from
    MaxAgents

Line == [form : {"skip", "item", "pair", "other"}, key : STRING, value : Seq(STRING)]

\* A text is a list of lines, and an item is one token.
ASSUME AgentsAssumption ==
    /\ MaxAgents \in Nat
    /\ \A s \in DOMAIN Fold : Fold[s] \in DOMAIN Fold
    /\ Manifests \subseteq Seq(Line)
    /\ \A text \in Manifests : \A i \in DOMAIN text : text[i].form = "item" => Len(text[i].value) = 1

VARIABLES
    agents,          \* id -> [manifest, state]; ids are 1, 2, ... in minting order
    by_capability    \* token -> ids of the agents that declared it

agentVars == <<agents, by_capability>>

Builtin == {"planning", "reasoning", "coding", "translation", "embedding", "retrieval",
            "verification", "simulation", "vision", "speech", "robotics", "finance",
            "medical", "legal"}

\* Parsing a capability never fails: an unknown name becomes Custom.
from_str(s) == LET t == Fold[s]
               IN  [custom |-> t \notin Builtin, name |-> t]

\* Custom("planning"), which no parse makes, has the token of Planning.
as_token(cap) == cap.name

parse_priority(value) ==
    LET p == IF Len(value) = 1 THEN Fold[value[1]] ELSE "normal"
    IN  IF p \in {"low", "high", "critical"} THEN p ELSE "normal"

ListKeys == {"capabilities", "memory", "runtimes", "permissions"}

push_list_item(m, key, item) ==
    [m EXCEPT !.lists[key] = Append(@, IF key = "capabilities" THEN from_str(item) ELSE item)]

push_all(m, key, items) ==
    LET after[n \in 0 .. Len(items)] ==
            IF n = 0 THEN m ELSE push_list_item(after[n - 1], key, items[n])
    IN  after[Len(items)]

\* The items of `[a, b]`; a value that is neither empty nor bracketed has none.
Inline(value) ==
    IF Len(value) < 2 \/ value[1] # "[" \/ value[Len(value)] # "]" THEN <<>>
    ELSE Kept(SubSeq(value, 2, Len(value) - 1), Range(value) \ {","})

NoManifest == [id |-> <<>>, version |-> <<"0.1.0">>, description |-> <<>>, priority |-> "normal",
               lists |-> [k \in ListKeys |-> <<>>], current |-> "none"]

\* One `key: value` line.  It ends the list under way, whatever the key.
ParsePair(m, key, value) ==
    LET k == IF key = "runtime" THEN "runtimes" ELSE key
        n == [m EXCEPT !.current = "none"]
    IN  CASE k \in {"id", "version", "description"} -> [n EXCEPT ![k] = value]
          [] k = "priority" -> [n EXCEPT !.priority = parse_priority(value)]
          [] k \in ListKeys /\ value = <<>> -> [n EXCEPT !.current = k]
          [] k \in ListKeys /\ value # <<>> -> push_all(n, k, Inline(value))
          [] OTHER -> n

ParseLine(m, line) ==
    CASE line.form = "item" /\ m.current # "none" -> push_list_item(m, m.current, line.value[1])
      [] line.form = "pair" -> ParsePair(m, line.key, line.value)
      [] OTHER -> m

\* The manifest, or one without an id, which the caller refuses.
from_manifest(text) ==
    LET after[n \in 0 .. Len(text)] ==
            IF n = 0 THEN NoManifest ELSE ParseLine(after[n - 1], text[n])
    IN  after[Len(text)]

HasId(m) == m.id # <<>>

can_transition_to(from, to) ==
    <<from, to>> \in {<<"installed", "registered">>, <<"registered", "loaded">>,
                      <<"loaded", "ready">>, <<"ready", "running">>,
                      <<"running", "suspended">>, <<"running", "terminated">>,
                      <<"suspended", "ready">>, <<"suspended", "terminated">>,
                      <<"ready", "terminated">>}

AgentStates == {"installed", "registered", "loaded", "ready", "running", "suspended", "terminated"}

AgentsInit == agents = <<>> /\ by_capability = <<>>

\* Every capability of the manifest is indexed, one listed twice twice.
Register(text) ==
    LET m    == from_manifest(text)
        id   == Len(agents) + 1
        caps == m.lists.capabilities
        toks == {as_token(caps[i]) : i \in DOMAIN caps}
        Now(t)   == IF t \in DOMAIN by_capability THEN by_capability[t] ELSE <<>>
        Times(t) == Cardinality({i \in DOMAIN caps : as_token(caps[i]) = t})
    IN  /\ HasId(m)
        /\ by_capability' = [t \in DOMAIN by_capability \cup toks |->
                               Now(t) \o [i \in 1 .. Times(t) |-> id]]
        /\ agents' = Append(agents, [manifest |-> m, state |-> "registered"])

NotIn(states) == {id \in DOMAIN agents : agents[id].state \notin states}

\* A mutant of discover: a suspended agent is still handed out.
discover_suspended(cap) ==
    LET t == as_token(cap)
    IN  IF t \notin DOMAIN by_capability THEN <<>> ELSE Kept(by_capability[t], NotIn({"terminated"}))

discover(cap) ==
    LET t == as_token(cap)
    IN  IF t \notin DOMAIN by_capability THEN <<>>
        ELSE Kept(by_capability[t], NotIn({"suspended", "terminated"}))

\* A transition the lifecycle does not have is refused and changes nothing.
Transition(id, next) ==
    /\ can_transition_to(agents[id].state, next)
    /\ agents' = [agents EXCEPT ![id].state = next]
    /\ UNCHANGED by_capability

AgentsNext ==
    \/ \E text \in Manifests : Len(agents) < MaxAgents /\ Register(text)
    \/ \E id \in DOMAIN agents, next \in AgentStates : Transition(id, next)

AgentsSpec == AgentsInit /\ [][AgentsNext]_agentVars

-----------------------------------------------------------------------------
\* The capabilities a reader of the text sees in its line i: an item between a
\* `capabilities` key and the next key, or those in its brackets.
Declares(text, i) ==
    LET line   == text[i]
        begins(h) == text[h].form = "pair" /\ text[h].key = "capabilities" /\ text[h].value = <<>>
        listed == \E h \in 1 .. i - 1 : begins(h) /\ \A k \in h + 1 .. i - 1 : text[k].form # "pair"
        n      == Len(line.value)
        inside == {k \in 2 .. n - 1 : line.value[1] = "[" /\ line.value[n] = "]" /\ line.value[k] # ","}
    IN  CASE line.form = "item" -> IF listed THEN {Fold[line.value[1]]} ELSE {}
          [] line.form = "pair" /\ line.key = "capabilities" -> {Fold[line.value[k]] : k \in inside}
          [] OTHER -> {}

Declared(text) == UNION {Declares(text, i) : i \in DOMAIN text}

\* Discovery by capability (agent.rs:268) finds an agent exactly while it is
\* in service, whichever way and in whichever case its manifest's text lists
\* the capability, and lists agents in the order they were registered.
AgentsAreFound ==
    \A text \in Manifests, c \in Builtin \cup {"custom"} :
        LET found == discover([custom |-> c = "custom", name |-> c])
        IN  /\ \A id \in DOMAIN agents : agents[id].manifest = from_manifest(text) =>
                 ((\E i \in DOMAIN found : found[i] = id)
                    <=> /\ c \in Declared(text)
                        /\ agents[id].state \notin {"suspended", "terminated"})
            /\ \A i, j \in DOMAIN found : i < j => found[i] <= found[j]
=============================================================================
