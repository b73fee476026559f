----------------------------- MODULE MCSessions -----------------------------
(***************************************************************************)
(* A session's files while processes index them (SessionStore), and the      *)
(* commands and requests one after the other (Commands): two parts of one    *)
(* run, which share no state.                                               *)
(***************************************************************************)
EXTENDS MCSessionStore, Commands

VARIABLE part        \* "files" or "commands"

MCRoot == <<"root">>
Paths == {<<"root">>, <<"root", "a">>, <<"root", "b">>, <<"b">>}
Directory == [w \in {"root/a", "b"} |-> IF w = "b" THEN <<"b">> ELSE <<"root", "a">>]

Concepts2 == {"Rust", "Tokio"}
Numbers == [w \in {"0", "1", "2", "50", "300"} |->
              CASE w = "0" -> 0 [] w = "1" -> 1 [] w = "2" -> 2 [] w = "50" -> 50 [] w = "300" -> 300]

\* A file of two sentences that may lose the second, and one that names a concept.
Files == [n |-> <<<<<<"Rust", "uses", "Tokio">>, <<"more">>>>, <<<<"Rust">>>>>>,
          m |-> <<<<<<"Tokio">>>>>>]

Workflows == [x \in {"care.wf", "bad.wf"} |->
                IF x = "bad.wf" THEN None ELSE <<"retrieval", "medical">>]

Queries == {<<"FIND", "Concept">>}

\* Two words or more make a research plan; one is echoed.
MCPlan(intent) == IF Len(intent) > 1 THEN <<<<<<"search">>>>, <<<<"report">>>>>> ELSE <<<<intent>>>>

\* A passage per sentence, or one.
MCChunks(text, target, overlap) == IF target < 10 THEN [i \in DOMAIN text |-> <<text[i]>>] ELSE <<text>>

MCShorten(text, n) == <<SubSeq(FlattenSeq(text), 1, n) \o <<"...">>>>

Lines == {
    <<>>, <<"version">>, <<"runtimes">>, <<"dance">>, <<"plan", "--dot">>, <<"plan", "Rust">>,
    <<"verify", "[9]">>, <<"verify", "see">>,
    <<"tool", "--list">>, <<"tool", "reverse", "x">>, <<"tool", "--role", "admin", "reverse", "x">>,
    <<"tool", "--token", "tok-admin-hq", "reverse", "x">>, <<"tool", "uppercase", "x">>, <<"tool", "sort", "x">>,
    <<"workflow", "care.wf">>, <<"workflow", "--role", "admin", "care.wf">>, <<"workflow", "bad.wf">>,
    <<"workflow", "--token", "tok-admin-restricted", "care.wf">>, <<"workflow", "--token", "x", "care.wf">>,
    <<"workflow", "--role", "admin", "--token", "tok-guest", "care.wf">>,
    <<"serve">>, <<"serve", "--port", "x">>, <<"serve", "--session-root", "b">>,
    <<"run", "-h">>, <<"run", "--session", "b">>, <<"run", "Rust", "--session">>,
    <<"run", "--session", "b", "Rust">>, <<"run", "Rust", "--session", "root/a", "Tokio">>,
    <<"run", "--session", "b", "[9]">>, <<"run", "Rust">>,
    <<"history", "b">>, <<"history", "b", "--k", "x">>,
    <<"search", "b", "Rust">>, <<"search", "--lambda", "300", "b", "Rust">>,
    <<"eval", "--relevant", "n", "b", "Rust">>, <<"eval", "--relevant", ",", "b", "Rust">>,
    <<"kql", "--session", "b", "FIND", "Concept">>, <<"kql", "FIND">>, <<"kql", "FIND", "Concept">>,
    <<"index", "b", "n">>, <<"index", "b", "n", "m", "--chunk", "1">>, <<"index", "b", "n", "gone">>,
    <<"index", "b">>,
    <<"graph", "Rust">>, <<"graph", "--session", "b">>, <<"graph">>,
    <<"gc", "b">>, <<"gc", "b", "--min-confidence", "50">>, <<"gc", "b", "--min-confidence", "300">>,
    <<"gc", "b", "--consolidate", "1">>, <<"gc", "b", "--now", "today">>}

Req(method, path, params) == [method |-> method, path |-> path, params |-> params]

Requests ==
    {Req("GET", "/api/status", <<>>), Req("GET", "/api/run", <<>>),
     Req("GET", "/api/plan", <<>>), Req("GET", "/api/verify", [text |-> <<"see">>]),
     Req("POST", "/api/run", [intent |-> <<"Rust">>]),
     Req("POST", "/api/run", [intent |-> <<"Rust">>, session |-> <<".", "a">>]),
     Req("POST", "/api/run", [intent |-> <<"Rust">>, session |-> <<"..", "b">>]),
     Req("POST", "/api/run", [intent |-> <<"[9]">>, session |-> <<"a">>]),
     Req("GET", "/api/history", [session |-> <<"a">>]), Req("GET", "/api/history", [session |-> <<"/", "b">>]),
     Req("GET", "/api/search", [session |-> <<".">>, q |-> <<"Rust">>]),
     Req("GET", "/api/search", [session |-> <<"a">>]),
     Req("POST", "/api/kql", [session |-> <<"a">>, query |-> <<"FIND", "Concept">>]),
     Req("POST", "/api/kql", [query |-> <<"FIND">>]), Req("POST", "/api/kql", [query |-> <<"FIND", "Concept">>]),
     Req("GET", "/api/graph", [session |-> <<"a">>]), Req("GET", "/api/graph", [text |-> <<"Rust">>]),
     Req("GET", "/api/graph", [session |-> <<"a", "..", "b">>])}

\* The first write and delete and the one after; everything else once.
Faults ==
    [op: {"mkdir", "scan", "lock", "load", "save", "bind", "cwd"}, at: {1}]
    \cup [op: {"write", "delete", "read"}, at: {1, 2, 3}]

mcVars == <<vars, commandVars, part>>

FilesIdle == UNCHANGED vars
CommandsIdle == UNCHANGED commandVars

MCInit == Init /\ CommandsInit /\ part \in {"files", "commands"}

MCNext ==
    /\ UNCHANGED part
    /\ \/ part = "files" /\ Next /\ CommandsIdle
       \/ part = "commands" /\ CommandsNext /\ FilesIdle
       \/ part = "commands" /\ commands = MaxCommands /\ CommandsIdle /\ FilesIdle

\* No action reads `last`; the property of the steps is checked on each of them.
AnswersApart == <<vars, made, sessions, disk, commands, part>>

MCSpec == MCInit /\ [][MCNext]_mcVars
=============================================================================
