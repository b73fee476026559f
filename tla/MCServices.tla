----------------------------- MODULE MCServices -----------------------------
(* An instance of the services. *)
EXTENDS Services

MCFold == [planning |-> "planning", Planning |-> "planning", coding |-> "coding",
           custom |-> "custom", high |-> "high", HIGH |-> "high", a |-> "a"]

Pair(k, v) == [form |-> "pair", key |-> k, value |-> v]
Item(v) == [form |-> "item", key |-> "", value |-> <<v>>]
Skip == [form |-> "skip", key |-> "", value |-> <<>>]

\* Items under a header with a comment between; an inline list; a list cut
\* short by another key; no capabilities; a bare value; no id.
MCManifests ==
    {<<Pair("id", <<"a">>), Pair("capabilities", <<>>), Item("Planning"), Skip, Item("coding")>>,
     <<Pair("capabilities", <<"[", "custom", ",", "planning", "]">>), Pair("id", <<"a">>),
       Pair("priority", <<"HIGH">>)>>,
     <<Pair("id", <<"a">>), Pair("capabilities", <<>>), Item("coding"),
       Pair("unknown", <<>>), Item("planning"), Pair("runtime", <<>>), Item("a")>>,
     <<Pair("id", <<"a">>), Pair("capabilities", <<"planning">>), Item("planning")>>,
     <<Pair("capabilities", <<>>), Item("planning")>>}

MCPermissions == {<<"g", ".", "r">>, <<"g", ".", "*">>, <<"s", ".", "r">>}
MCRules == [action : {<<"g", ".", "r">>}, key : {"env"}, value : {"prod", "dev"}, deny : BOOLEAN]
MCIdentities == {[subject |-> "alice", roles |-> {"dev"}, attributes |-> [env |-> "prod"]],
                 [subject |-> "bob", roles |-> {"dev", "ops"}, attributes |-> <<>>]}
MCTools == {[name |-> "t", permissions |-> <<<<"g", ".", "r">>, <<"s", ".", "r">>>>, valid |-> TRUE],
            [name |-> "t", permissions |-> <<>>, valid |-> FALSE],
            [name |-> "u", permissions |-> <<<<"g", ".", "r">>>>, valid |-> TRUE]}
MCFields == {<<"x">>, <<"y">>}

\* Two kinds with one identity for the labels below.
MCKindToken == [concept |-> <<"concept">>, other |-> <<"concept", ":", "b">>]

\* A commit adds a node, connects two, dates one, drops one or raises one; the
\* first may insert one with a confidence above 100.
MCFirst(g, id) ==
    {add_node(add_node(g, id, "concept", <<"a">>, 40), id + 1, "concept", l, 60) : l \in {<<"A">>, <<"b">>}}
    \cup {add_node(g, id, "concept", <<"b", ":", "a">>, 40), add_node(g, id, "other", <<"a">>, 60)}
    \cup {insert(g, id, [NewNode("concept", <<"A">>, 0) EXCEPT !.confidence = 200])}

MCEdits(g, id) ==
    {add_node(g, id, "concept", <<"a">>, 40)}
    \cup (IF Ids(g) = {} THEN MCFirst(g, id) ELSE {})
    \cup {connect(g, x, y, "depends_on") : x, y \in IF edges(g) = {} THEN Ids(g) ELSE {}}
    \cup {set_date(g, x, 1) : x \in Ids(g)}
    \cup {bump_confidence(g, x, 200) : x \in Ids(g)}
    \cup {remove_node(g, x) : x \in Ids(g)}

MCLower == [a |-> "a", A |-> "a", b |-> "b", B |-> "b", depends |-> "depends"] @@ (":" :> ":")
MCLabelLess(l, m) == <<l, m>> \in {<<<<"A">>, <<"B">>>>, <<<<"A">>, <<"a">>>>, <<<<"B">>, <<"a">>>>}
MCLabels == {<<"a">>}
MCEntityWords == {"A", "B"}
MCCue == [k \in EdgeKinds |-> IF k = "depends_on" THEN {<<"depends">>} ELSE {}]

\* A and B, and A again; and a longer one.
MCTexts == {<<<<"A", "depends", "B">>, <<"A">>>>}
MCProbe == {<<<<"A", "depends", "B">>, <<"B", "depends", "A", "depends", "A">>>>}
=============================================================================
