------------------------------ MODULE Commands ------------------------------
(***************************************************************************)
(* The commands of `ckos` (cli/src/main.rs) and the handlers of its gateway  *)
(* (web/src/routes.rs), over session directories.  A command or a request is *)
(* one step here, in which at most one operation on the file system fails;   *)
(* how the steps of two of them interleave is GraphStore's and               *)
(* SessionStore's subject, the cached searches are SearchGateway's, what     *)
(* extraction, retrieval, KQL and the checks compute is Extract's,           *)
(* Retrieval's, Kql's and Checks'.                                           *)
(*                                                                         *)
(* A text is a sequence of sentences, a sentence one of words.  Two documents *)
(* of one content are one element of `docs`.                                 *)
(***************************************************************************)
EXTENDS Integers, Sequences, SequencesExt, FiniteSets, FiniteSetsExt, Policy

CONSTANTS
    Line,            \* command lines, sequences of words
    Request,         \* requests: [method, path, params]; a parameter is a sequence of words
    Fault,           \* [op, at]: the at-th use of an operation fails
    Path,            \* directories: sequences of names
    Root,            \* --session-root
    PathOf,          \* PathOf[w]: the directory a word names, of those where it matters which
    Content,         \* Content[file]: the texts a file may come to hold, first its first
    Concept,         \* the words extraction takes for entities
    Number,          \* Number[w]: the value of a word that parses as a number
    Ratio,           \* the words that parse as a number in 0.0..=1.0
    Date,            \* the words `validate_iso_date` accepts
    Query,           \* the queries `kql_parse` accepts
    Dangling,        \* citations of nothing, to which the verifier objects
    Definition,      \* Definition[file]: the capabilities of a workflow file's steps, or None
    Plan(_),         \* the descriptions of an intent's steps, each a text
    Chunks(_, _, _), \* `chunk_with_overlap`, the passages of a text
    Shorten(_, _),   \* `summarize`: a text cut to a length, marked by an ellipsis
    MaxCommands,     \* bound on the commands of a behaviour
    None

\* The confidence the commands give a document; a concept starts at 45.
Confidence == [execution |-> 100, reflection |-> 95, chunk |-> 100, graph_node |-> 45]

VARIABLES
    made,            \* the directories that exist
    sessions,        \* sessions[d]: the documents and the graph file of a directory
    disk,            \* disk[file]: the text of a file outside the sessions
    last,            \* the last command and its answer
    commands         \* how many there were

commandVars == <<made, sessions, disk, last, commands>>

Fresh == [docs |-> {}, saved |-> FALSE, nodes |-> {}, edges |-> {}]

\* What a command or request answers; `code` is its exit code or status.
Answer(name, code) ==
    [name |-> name, web |-> FALSE, dir |-> None, code |-> code, warned |-> FALSE,
     told |-> <<>>, by |-> None, ran |-> {}, audit |-> 0]

\* Its effect: on the directories, and on the one session it names.
Effect(answer) == [last |-> answer, made |-> made, session |-> Fresh]

Refused(name) == Effect(Answer(name, 1))
Done(name) == Effect(Answer(name, 0))

On(d, answer, dirs, s) == [last |-> [answer EXCEPT !.dir = d], made |-> dirs, session |-> s]

FailsAt(f, op, n) == f # None /\ f.op = op /\ f.at = n
Fails(f, op) == FailsAt(f, op, 1)

-----------------------------------------------------------------------------
(* Arguments.                                                              *)

wants_help(args) == args # <<>> /\ args[1] \in {"-h", "--help"}

take_flag(args, name) ==
    [present |-> name \in Range(args), rest |-> SelectSeq(args, LAMBDA a : a # name)]

TakeWord(s, a, name) ==
    IF s.want THEN [s EXCEPT !.value = a, !.want = FALSE]
    ELSE IF a = name THEN [s EXCEPT !.want = TRUE]
    ELSE [s EXCEPT !.rest = Append(@, a)]

\* The last value wins; when the flag is the last word, one is still wanted.
take_value_flag(args, name) ==
    LET after[n \in 0 .. Len(args)] ==
            IF n = 0 THEN [want |-> FALSE, value |-> None, rest |-> <<>>]
            ELSE TakeWord(after[n - 1], args[n], name)
    IN  after[Len(args)]

TakeValue(p, name) ==
    LET with(t) == [ok |-> p.ok /\ ~t.want, rest |-> t.rest, value |-> [p.value EXCEPT ![name] = t.value]]
    IN  with(take_value_flag(p.rest, name))

\* The value flags of a command, taken one after the other.
TakeAll(args, names) ==
    LET after[n \in 0 .. Len(names)] ==
            IF n = 0 THEN [ok |-> TRUE, rest |-> args, value |-> [name \in Range(names) |-> None]]
            ELSE TakeValue(after[n - 1], names[n])
    IN  after[Len(names)]

\* A number in lo .. hi, or the default when the flag is absent.
Parses(word, lo, hi) == word = None \/ (word \in DOMAIN Number /\ Number[word] \in lo .. hi)
NumberOr(word, default) == IF word = None THEN default ELSE Number[word]

-----------------------------------------------------------------------------
(* Identities, and what they may do.                                       *)

demo_policy ==
    [perms |-> [admin |-> {<<"text", "*">>, <<"capability", "*">>}],
     rules |-> <<[action |-> <<"capability", "medical">>, key |-> "region",
                  value |-> "restricted", deny |-> TRUE]>>]

Allowed(identity, action) ==
    evaluate(demo_policy.perms, demo_policy.rules, request(identity, action))

Identity(subject, role) == [subject |-> subject, roles |-> {role}, attributes |-> <<>>]

demo_identity_provider ==
    [t \in {"tok-admin-hq", "tok-admin-restricted", "tok-guest"} |->
       CASE t = "tok-admin-hq" -> Identity("admin-hq", "admin")
         [] t = "tok-admin-restricted" ->
              [Identity("admin-restricted", "admin") EXCEPT !.attributes = [region |-> "restricted"]]
         [] t = "tok-guest" -> Identity("guest-user", "guest")]

\* None when both flags are given, or the token is not known.
resolve_identity(role, token) ==
    CASE role # None /\ token # None -> None
      [] role # None /\ token = None -> Identity("cli-user", role)
      [] role = None /\ token # None ->
           IF token \in DOMAIN demo_identity_provider THEN demo_identity_provider[token] ELSE None
      [] OTHER -> Identity("cli-user", "guest")

SENSITIVE_CAPABILITIES == {"finance", "medical", "legal", "robotics"}

\* What the engine executes of a workflow's steps before the first denied one.
Executed(identity, capabilities) ==
    LET denied == {i \in DOMAIN capabilities :
                     /\ capabilities[i] \in SENSITIVE_CAPABILITIES
                     /\ ~Allowed(identity, <<"capability", capabilities[i]>>)}
    IN  {capabilities[i] : i \in {j \in DOMAIN capabilities : \A k \in denied : j < k}}

demo_tools ==
    [uppercase |-> [permissions |-> <<>>, valid |-> TRUE],
     reverse   |-> [permissions |-> <<<<"text", "transform">>>>, valid |-> TRUE]]

-----------------------------------------------------------------------------
(* A session's documents and graph.                                        *)

Words(text) == FlattenSeq(text)

Document(kind, source, text) == [kind |-> kind, source |-> source, text |-> text, cut |-> FALSE]

\* The directory a word of a command line names.
session_dir(w) == CHOOSE d \in Path : w \in DOMAIN PathOf => d = PathOf[w]

\* `FileStore::open` makes the directory and lists it.
Opens(f) == ~Fails(f, "mkdir") /\ ~Fails(f, "scan")
Made(d, f) == IF Fails(f, "mkdir") THEN made ELSE made \cup {p \in Path : IsPrefix(p, d)}

\* What is written of `docs` when `n` writes came before: all, or up to the
\* one that fails.
Written(f, docs, n) ==
    IF f # None /\ f.op = "write" /\ f.at - n \in DOMAIN docs
    THEN SubSeq(docs, 1, f.at - n - 1) ELSE docs

\* What an operation repeated over `docs`, in the order of a hash table, gets
\* done when `n` came before.
Reached(f, op, docs, n) ==
    IF f # None /\ f.op = op /\ f.at - n \in 1 .. Cardinality(docs)
    THEN {d \in docs : \E i \in 1 .. f.at - n - 1 : SetToSeq(docs)[i] = d} ELSE docs

Entities(sentence) == SelectSeq(sentence, LAMBDA w : w \in Concept)

Concepts(text) == {w \in Concept : w \in Range(Words(text))}

\* Every pair of a sentence is linked.
Relations(text) ==
    LET pairs(e) == {<<e[p[1]], e[p[2]]>> : p \in {q \in (DOMAIN e) \X (DOMAIN e) :
                        /\ q[1] < q[2] /\ e[q[1]] # e[q[2]]
                        /\ q[2] = q[1] + 1 \/ \A i \in 1 .. q[1] : e[i] # e[q[2]]}}
    IN  UNION {pairs(Entities(text[i])) : i \in DOMAIN text}

\* `extract_concepts_with_provenance`, of one text after the other.
learn(g, texts) ==
    [g EXCEPT !.nodes = @ \cup UNION {Concepts(t) : t \in texts},
              !.edges = @ \cup UNION {Relations(t) : t \in texts}]

remove_orphans(g) ==
    [g EXCEPT !.nodes = {n \in g.nodes : \E e \in g.edges : n \in {e[1], e[2]}}]

\* A graph file that is not there is an empty graph.
Loads(s, f) == ~s.saved \/ ~Fails(f, "load")

\* `GraphStore::update`; None when it fails.  The lock is a file of the directory.
update(s, changed, dirs, d, f) ==
    IF d \notin dirs \/ Fails(f, "lock") \/ ~Loads(s, f) \/ Fails(f, "save") THEN None
    ELSE [changed EXCEPT !.saved = TRUE]

\* `Session::record_run`, then `record_reflections`.
record_run(results) ==
    [i \in DOMAIN results |-> Document("execution", None, results[i])]
    \o [i \in DOMAIN results |-> Document("reflection", None, <<<<"accepted">>>>)]

Verified(results) ==
    \A i \in DOMAIN results : Words(results[i]) # <<>> /\ Range(Words(results[i])) \cap Dangling = {}

-----------------------------------------------------------------------------
(* Commands that touch no session.                                         *)

cmd_plan(args) ==
    IF wants_help(args) \/ take_flag(args, "--dot").rest # <<>> THEN Done("plan") ELSE Refused("plan")

\* The step of a workflow file that the policy denies ends it.
StartWorkflow(p, id, file, f) ==
    LET answer(ran) == [Answer("workflow", IF ran = Range(Definition[file]) THEN 0 ELSE 1) EXCEPT
                          !.told = <<p.value["--role"], p.value["--token"]>>, !.by = id, !.ran = ran]
    IN  IF \/ ~p.ok \/ id = None \/ file \notin DOMAIN Definition
           \/ Fails(f, "read") \/ Definition[file] = None
        THEN Refused("workflow") ELSE Effect(answer(Executed(id, Definition[file])))

cmd_workflow(args, f) ==
    LET given(p) == StartWorkflow(p, resolve_identity(p.value["--role"], p.value["--token"]),
                             IF p.rest = <<>> THEN None ELSE p.rest[1], f)
    IN  IF wants_help(args) THEN Done("workflow") ELSE given(TakeAll(args, <<"--role", "--token">>))

cmd_verify(args) ==
    IF wants_help(args) \/ (args # <<>> /\ Range(args) \cap Dangling = {})
    THEN Done("verify") ELSE Refused("verify")

\* Each permission the tool requires is granted by the policy, or the attempt
\* is denied; either way it leaves one audit record.
InvokeTool(p, id, name) ==
    LET needs  == Range(demo_tools[name].permissions)
        answer(ran) == [Answer("tool", IF ran THEN 0 ELSE 1) EXCEPT
                          !.told = <<p.value["--role"], p.value["--token"]>>, !.by = id,
                          !.ran = IF ran THEN {name} ELSE {}, !.audit = 1]
        runs(granted) == granted = needs /\ invoke(demo_tools, granted, name) = "executed"
    IN  IF ~p.ok \/ id = None \/ Len(p.rest) < 2 \/ name \notin DOMAIN demo_tools THEN Refused("tool")
        ELSE Effect(answer(runs({g \in needs : Allowed(id, g)})))

cmd_tool(args) ==
    LET given(p) == InvokeTool(p, resolve_identity(p.value["--role"], p.value["--token"]), p.rest[1])
    IN  IF wants_help(args) \/ args = <<>> \/ (args # <<>> /\ args[1] = "--list") THEN Done("tool")
        ELSE given(TakeAll(args, <<"--role", "--token">>))

cmd_serve(args, f) ==
    LET given(p) == IF \/ ~p.ok \/ ~Parses(p.value["--port"], 0, 65535) \/ Fails(f, "bind")
                       \/ p.value["--session-root"] = None /\ Fails(f, "cwd")
                    THEN Refused("serve") ELSE Done("serve")
    IN  IF wants_help(args) THEN Done("serve") ELSE given(TakeAll(args, <<"--host", "--port", "--session-root">>))

-----------------------------------------------------------------------------
(* Commands that read a session.                                           *)

\* The directory is made by opening it, also by a command that only reads.
ShowHistory(p, d, f) ==
    IF ~p.ok \/ ~Parses(p.value["--k"], 0, 1000) \/ p.rest = <<>> THEN Refused("history")
    ELSE On(d, Answer("history", IF Opens(f) THEN 0 ELSE 1), Made(d, f), sessions[d])

cmd_history(args, f) ==
    LET given(p) == ShowHistory(p, session_dir(p.rest[1]), f)
    IN  IF wants_help(args) THEN Done("history") ELSE given(TakeAll(args, <<"--k">>))

\* A graph that cannot be loaded is left out, with a warning.
SearchSession(p, d, f) ==
    IF ~p.ok \/ p.value["--lambda"] \notin Ratio \cup {None} \/ Len(p.rest) < 2 THEN Refused("search")
    ELSE On(d, [Answer("search", IF Opens(f) THEN 0 ELSE 1) EXCEPT !.warned = ~Loads(sessions[d], f)],
            Made(d, f), sessions[d])

cmd_search(args, f) ==
    LET given(p) == SearchSession(p, session_dir(p.rest[1]), f)
        plain == take_flag(take_flag(take_flag(args, "--synonyms").rest, "--expand").rest, "--diverse").rest
    IN  IF wants_help(args) THEN Done("search") ELSE given(TakeAll(plain, <<"--lambda">>))

\* "," lists no title.
EvalSession(p, d, f) ==
    IF \/ ~p.ok \/ p.value["--relevant"] \in {None, ","}
       \/ ~Parses(p.value["--k"], 1, 1000) \/ Len(p.rest) < 2
    THEN Refused("eval")
    ELSE On(d, Answer("eval", IF Opens(f) /\ Loads(sessions[d], f) THEN 0 ELSE 1), Made(d, f), sessions[d])

cmd_eval(args, f) ==
    LET given(p) == EvalSession(p, session_dir(p.rest[1]), f)
    IN  IF wants_help(args) THEN Done("eval") ELSE given(TakeAll(args, <<"--relevant", "--k">>))

\* Opens no store: the directory need not exist.
QuerySession(p, d, f) ==
    IF ~p.ok \/ p.rest \notin Query THEN Refused("kql")
    ELSE IF p.value["--session"] = None THEN Done("kql")
    ELSE On(d, Answer("kql", IF Loads(sessions[d], f) THEN 0 ELSE 1), made, sessions[d])

cmd_kql(args, f) ==
    LET given(p) == QuerySession(p, session_dir(p.value["--session"]), f)
    IN  IF wants_help(args) THEN Done("kql") ELSE given(TakeAll(args, <<"--session">>))

-----------------------------------------------------------------------------
(* Commands that change a session.                                         *)

\* The graph grows by a text, with a warning if it does not; `stored` is the
\* session with what was recorded, `whole` whether that was all.
Grow(d, answer, stored, text, whole, f) ==
    LET end(grown) == On(d, [answer EXCEPT !.warned = ~whole \/ grown = None], Made(d, f),
                         IF grown = None THEN stored ELSE grown)
    IN  end(update(stored, learn(stored, {text}), Made(d, f), d, f))

Remember(d, answer, intent, results, opened, f) ==
    LET kept(records) == Grow(d, answer, [sessions[d] EXCEPT !.docs = @ \cup Range(records)],
                              <<intent>> \o FlattenSeq(results), records = record_run(results), f)
    IN  kept(IF opened THEN Written(f, record_run(results), 0) ELSE <<>>)

\* The records, then the graph, each with its own warning: a store that does
\* not open does not keep the graph from growing.
RunIntent(p, intent, results, f) ==
    IF \/ ~p.ok \/ resolve_identity(p.value["--role"], p.value["--token"]) = None
       \/ intent = <<>> \/ ~Verified(results)
    THEN Refused("run")
    ELSE IF p.value["--session"] = None THEN Done("run")
    ELSE Remember(session_dir(p.value["--session"]), [Answer("run", 0) EXCEPT !.told = intent], intent, results, Opens(f), f)

cmd_run(args, f) ==
    LET given(p) == RunIntent(p, p.rest, Plan(p.rest), f)
    IN  IF wants_help(args) THEN Done("run") ELSE given(TakeAll(args, <<"--session", "--role", "--token">>))

\* One file: its old passages are deleted, the new ones written, its concepts
\* go into the graph in memory.
ReplaceChunks(a, file, stale, docs, wrote) ==
    [s       |-> [a.s EXCEPT !.docs = (@ \ stale) \cup Range(wrote)],
     graph   |-> IF wrote = docs THEN learn(a.graph, {disk[file]}) ELSE a.graph,
     failed  |-> wrote # docs,
     files   |-> a.files + 1,
     writes  |-> a.writes + Len(docs),
     deletes |-> a.deletes + Cardinality(stale)]

IndexFile(a, file, f, target, overlap) ==
    LET docs == [i \in DOMAIN Chunks(disk[file], target, overlap) |->
                   Document("chunk", file, Chunks(disk[file], target, overlap)[i])]
        stale == {d \in a.s.docs : d.kind = "chunk" /\ d.source = file}
        deleted(gone) == IF gone # stale THEN [a EXCEPT !.failed = TRUE, !.s.docs = @ \ gone]
                         ELSE ReplaceChunks(a, file, stale, docs, Written(f, docs, a.writes))
    IN  IF a.failed \/ file \notin DOMAIN disk \/ FailsAt(f, "read", a.files + 1)
        THEN [a EXCEPT !.failed = TRUE]
        ELSE deleted(Reached(f, "delete", stale, a.deletes))

\* The document of a concept: its label and what it is related to.
NodeDoc(g, c) ==
    Document("graph_node", c, <<<<c>> \o SetToSeq({e[2] : e \in {x \in g.edges : x[1] = c}})>>)

\* The documents of the new concepts; `Reindexer` passes over one it cannot write.
WithNodes(end, new, f) ==
    LET missed == {c \in new : /\ f # None /\ f.op = "write"
                               /\ f.at - end.writes \in 1 .. Cardinality(new)
                               /\ c = CHOOSE n \in new : TRUE}
    IN  [end.s EXCEPT !.docs = @ \cup {NodeDoc(end.graph, c) : c \in new \ missed}]

\* The graph is saved last: passages and the documents of new concepts are
\* there before it.
SaveIndex(d, answer, end, f) ==
    LET saved(s) == IF Fails(f, "save") THEN On(d, answer, Made(d, f), s)
                    ELSE On(d, [answer EXCEPT !.code = 0], Made(d, f),
                            [s EXCEPT !.saved = TRUE, !.nodes = end.graph.nodes, !.edges = end.graph.edges])
    IN  IF end.failed THEN On(d, answer, Made(d, f), end.s)
        ELSE saved(WithNodes(end, end.graph.nodes \ sessions[d].nodes, f))

\* What the session s is left as by the files one after the other.
IndexAll(s, files, target, overlap, f) ==
    LET after[n \in 0 .. Len(files)] ==
            IF n = 0
            THEN [s |-> s, graph |-> s, failed |-> FALSE, files |-> 0, writes |-> 0, deletes |-> 0]
            ELSE IndexFile(after[n - 1], files[n], f, target, overlap)
    IN  after[Len(files)]

IndexFiles(d, files, target, overlap, f) ==
    LET answer == [Answer("index", 1) EXCEPT
                     !.told = [files |-> files, target |-> target, overlap |-> overlap]]
    IN  IF ~Opens(f) \/ Fails(f, "lock") \/ ~Loads(sessions[d], f)
        THEN On(d, answer, Made(d, f), sessions[d])
        ELSE SaveIndex(d, answer, IndexAll(sessions[d], files, target, overlap, f), f)

cmd_index(args, f) ==
    LET given(p) ==
          IF \/ ~p.ok \/ ~Parses(p.value["--chunk"], 0, 1000) \/ ~Parses(p.value["--overlap"], 0, 1000)
             \/ Len(p.rest) < 2
          THEN Refused("index")
          ELSE IndexFiles(session_dir(p.rest[1]), Tail(p.rest), NumberOr(p.value["--chunk"], 800),
                     NumberOr(p.value["--overlap"], 80), f)
    IN  IF wants_help(args) THEN Done("index") ELSE given(TakeAll(args, <<"--chunk", "--overlap">>))

\* With --session the documents' text goes into the session's graph; a graph
\* that cannot be loaded is replaced by a fresh one, with a warning.
GraphSession(d, s, f) ==
    LET loaded == IF Loads(s, f) THEN s ELSE [s EXCEPT !.nodes = {}, !.edges = {}]
        grown  == learn(loaded, {doc.text : doc \in s.docs})
        answer == [Answer("graph", 0) EXCEPT !.warned = ~Loads(s, f) \/ Fails(f, "save")]
    IN  IF ~Opens(f) \/ Fails(f, "lock") THEN On(d, [answer EXCEPT !.code = 1], Made(d, f), s)
        ELSE On(d, answer, Made(d, f), IF Fails(f, "save") THEN s ELSE [grown EXCEPT !.saved = TRUE])

cmd_graph(args, f) ==
    LET given(p) == IF ~p.ok \/ (p.value["--session"] = None /\ p.rest = <<>>) THEN Refused("graph")
                    ELSE IF p.value["--session"] = None THEN Done("graph")
                    ELSE GraphSession(session_dir(p.value["--session"]), sessions[session_dir(p.value["--session"])], f)
    IN  IF wants_help(args) THEN Done("graph") ELSE given(TakeAll(take_flag(args, "--dot").rest, <<"--session">>))

\* `compress_document`.
compress_document(doc, n) == [doc EXCEPT !.text = Shorten(@, n), !.cut = TRUE]

\* The documents after a pass over `todo`, and whether it went through.
ShortenAll(docs, todo, n, f) ==
    LET end(cut) == [docs |-> (docs \ cut) \cup {compress_document(x, n) : x \in cut}, ok |-> cut = todo]
    IN  end(Reached(f, "write", todo, 0))

DropPoor(docs, todo, f) ==
    LET end(gone) == [docs |-> docs \ gone, ok |-> gone = todo] IN end(Reached(f, "delete", todo, 0))

\* Long documents are cut, the ones of little confidence deleted, and nodes
\* without an edge swept from the graph, in this order; no document a command
\* writes carries an expiry date.
CollectGarbage(d, s, least, length, f) ==
    LET long     == {x \in s.docs : length # None /\ ~x.cut /\ Len(Words(x.text)) > length}
        drop(st) == IF st.ok THEN DropPoor(st.docs, {x \in st.docs : Confidence[x.kind] < least}, f) ELSE st
        answer(code) == [Answer("gc", code) EXCEPT !.told = <<least>>]
        end(left, swept) == IF swept = None THEN On(d, answer(1), Made(d, f), left)
                            ELSE On(d, answer(0), Made(d, f), swept)
        sweep(left) == end(left, IF s.saved THEN update(left, remove_orphans(left), Made(d, f), d, f) ELSE left)
        after(st) == IF st.ok THEN sweep([s EXCEPT !.docs = st.docs])
                     ELSE On(d, answer(1), Made(d, f), [s EXCEPT !.docs = st.docs])
    IN  IF ~Opens(f) THEN On(d, answer(1), Made(d, f), s)
        ELSE after(drop(ShortenAll(s.docs, long, length, f)))

cmd_gc(args, f) ==
    LET given(p) ==
          IF \/ ~p.ok \/ p.value["--now"] \notin Date \cup {None}
             \/ ~Parses(p.value["--min-confidence"], 0, 255) \/ ~Parses(p.value["--consolidate"], 0, 1000)
             \/ p.rest = <<>>
          THEN Refused("gc")
          ELSE CollectGarbage(session_dir(p.rest[1]), sessions[session_dir(p.rest[1])], NumberOr(p.value["--min-confidence"], 0),
                  NumberOr(p.value["--consolidate"], None), f)
    IN  IF wants_help(args) THEN Done("gc") ELSE given(TakeAll(args, <<"--now", "--min-confidence", "--consolidate">>))

main(line, f) ==
    LET args == Tail(line)
    IN  IF line = <<>> THEN Done("help")
        ELSE CASE line[1] = "plan"     -> cmd_plan(args)
               [] line[1] = "run"      -> cmd_run(args, f)
               [] line[1] = "history"  -> cmd_history(args, f)
               [] line[1] = "search"   -> cmd_search(args, f)
               [] line[1] = "workflow" -> cmd_workflow(args, f)
               [] line[1] = "kql"      -> cmd_kql(args, f)
               [] line[1] = "eval"     -> cmd_eval(args, f)
               [] line[1] = "graph"    -> cmd_graph(args, f)
               [] line[1] = "index"    -> cmd_index(args, f)
               [] line[1] = "gc"       -> cmd_gc(args, f)
               [] line[1] = "verify"   -> cmd_verify(args)
               [] line[1] = "tool"     -> cmd_tool(args)
               [] line[1] = "serve"    -> cmd_serve(args, f)
               [] line[1] \in {"capabilities", "runtimes", "version", "help"} -> Done(line[1])
               [] OTHER -> Refused("unknown")

-----------------------------------------------------------------------------
(* The gateway.                                                            *)

param(req, key) == IF key \in DOMAIN req.params THEN req.params[key] ELSE None
param_or_empty(req, key) == IF param(req, key) = None THEN <<>> ELSE param(req, key)

Responds(name, code) == Effect([Answer(name, code) EXCEPT !.web = TRUE])

\* Mutant: the name is joined to the root as the file system would.
resolve_session_joined(name) ==
    FoldLeft(LAMBDA path, part : CASE part = ".." -> Front(path)
                                   [] part = "/" -> <<>>
                                   [] part = "." -> path
                                   [] OTHER -> Append(path, part), Root, name)

AddPart(path, part) == IF part = "." THEN path ELSE Append(path, part)

\* None for a name with a component that is neither `.` nor plain.
resolve_session(name) ==
    LET plain[n \in 0 .. Len(name)] ==
            IF n = 0 THEN <<>> ELSE AddPart(plain[n - 1], name[n])
    IN  IF Range(name) \cap {"..", "/"} # {} THEN None ELSE Root \o plain[Len(name)]

HasSession(req) == param_or_empty(req, "session") # <<>>

\* The session a handler needs, or may have; None when it is missing or rejected.
required_session(req) == IF HasSession(req) THEN resolve_session(req.params["session"]) ELSE None
Rejects(req) == HasSession(req) /\ required_session(req) = None

web_plan(req) == Responds("plan", IF param_or_empty(req, "intent") = <<>> THEN 400 ELSE 200)

verify(req) == Responds("verify", IF param_or_empty(req, "text") = <<>> THEN 400 ELSE 200)

\* A store that does not open keeps the graph as it is, too.
run(req, f) ==
    LET intent  == param_or_empty(req, "intent")
        results == Plan(intent)
        d       == required_session(req)
        answer  == [Answer("run", 200) EXCEPT !.web = TRUE, !.told = intent]
    IN  IF intent = <<>> \/ Rejects(req) THEN Responds("run", 400)
        ELSE IF ~Verified(results) THEN Responds("run", 500)
        ELSE IF ~HasSession(req) THEN Responds("run", 200)
        ELSE IF ~Opens(f) THEN On(d, [answer EXCEPT !.warned = TRUE], Made(d, f), sessions[d])
        ELSE Remember(d, answer, intent, results, TRUE, f)

history(req, f) ==
    LET d == required_session(req)
    IN  IF d = None THEN Responds("history", 400)
        ELSE On(d, [Answer("history", IF Opens(f) THEN 200 ELSE 400) EXCEPT !.web = TRUE],
                Made(d, f), sessions[d])

\* A search whose answer is not cached.
search(req, f) ==
    LET d == required_session(req)
        code == IF ~Opens(f) THEN 400 ELSE IF Loads(sessions[d], f) THEN 200 ELSE 500
    IN  IF d = None \/ param_or_empty(req, "q") = <<>> THEN Responds("search", 400)
        ELSE On(d, [Answer("search", code) EXCEPT !.web = TRUE], Made(d, f), sessions[d])

\* The graph of a session, whether or not its directory exists.
ReadsGraph(name, d, f) ==
    On(d, [Answer(name, IF Loads(sessions[d], f) THEN 200 ELSE 500) EXCEPT !.web = TRUE],
       made, sessions[d])

kql(req, f) ==
    IF param_or_empty(req, "query") \notin Query \/ Rejects(req) THEN Responds("kql", 400)
    ELSE IF HasSession(req) THEN ReadsGraph("kql", required_session(req), f)
    ELSE Responds("kql", 200)

graph(req, f) ==
    IF Rejects(req) THEN Responds("graph", 400)
    ELSE IF HasSession(req) THEN ReadsGraph("graph", required_session(req), f)
    ELSE Responds("graph", IF param_or_empty(req, "text") = <<>> THEN 400 ELSE 200)

route(req, f) ==
    CASE req.method = "GET" /\ req.path \in {"/", "/api/capabilities", "/api/runtimes", "/api/status"} ->
           Responds(req.path, 200)
      [] req.method = "GET" /\ req.path = "/api/plan" -> web_plan(req)
      [] req.method = "POST" /\ req.path = "/api/run" -> run(req, f)
      [] req.method = "GET" /\ req.path = "/api/history" -> history(req, f)
      [] req.method = "GET" /\ req.path = "/api/search" -> search(req, f)
      [] req.method = "POST" /\ req.path = "/api/kql" -> kql(req, f)
      [] req.method = "GET" /\ req.path = "/api/graph" -> graph(req, f)
      [] req.method = "GET" /\ req.path = "/api/verify" -> verify(req)
      [] OTHER -> Responds("none", 404)

-----------------------------------------------------------------------------
\* What `ckos run` and `/api/run` are asked.
Intents ==
    {TakeAll(Tail(line), <<"--session", "--role", "--token">>).rest : line \in Line \ {<<>>}}
    \cup {param_or_empty(req, "intent") : req \in Request}

IsList(s) == s \in Seq(Range(s))

ASSUME CommandsAssumption ==
    /\ None \notin Path /\ None # "tok-admin-restricted" /\ IsList(Root)
    /\ \E d \in Path : TRUE
    /\ \A w \in DOMAIN PathOf : PathOf[w] \in Path
    /\ \A line \in Line : IsList(line)
    /\ \A req \in Request : /\ "session" \in DOMAIN req.params => IsList(req.params["session"])
                            /\ required_session(req) \in Path \cup {None}
    /\ \A file \in DOMAIN Definition : Definition[file] # None => IsList(Definition[file])
    /\ \A w \in DOMAIN Number : Number[w] \in Nat
    /\ \A intent \in Intents : IsList(Plan(intent))
    /\ \A file \in DOMAIN Content : 1 \in DOMAIN Content[file]
    /\ \A file \in DOMAIN Content : \A text \in Range(Content[file]) :
         \A target, overlap \in {Number[w] : w \in DOMAIN Number} \cup {800, 80} :
           IsList(Chunks(text, target, overlap))

CommandsInit ==
    /\ made = {}
    /\ sessions = [d \in Path |-> Fresh]
    /\ disk = [file \in DOMAIN Content |-> Content[file][1]]
    /\ last = Answer("none", 0)
    /\ commands = 0

Happens(effect) ==
    /\ commands < MaxCommands
    /\ commands' = commands + 1
    /\ last' = effect.last
    /\ made' = effect.made
    /\ sessions' = [d \in Path |-> IF d = effect.last.dir THEN effect.session ELSE sessions[d]]
    /\ UNCHANGED disk

Command(line, f) == Happens(main(line, f))

Serve(req, f) == Happens(route(req, f))

\* Somebody changes a file that may be indexed, between two commands.
EditFile(file, text) ==
    /\ commands < MaxCommands /\ text # disk[file]
    /\ disk' = [disk EXCEPT ![file] = text]
    /\ UNCHANGED <<made, sessions, last, commands>>

CommandsNext ==
    \/ \E line \in Line, f \in Fault \cup {None} : Command(line, f)
    \/ \E req \in Request, f \in Fault \cup {None} : Serve(req, f)
    \/ \E file \in DOMAIN Content : \E text \in Range(Content[file]) : EditFile(file, text)

CommandsSpec == CommandsInit /\ [][CommandsNext]_commandVars

-----------------------------------------------------------------------------
(* What a user may rely on, whatever failed before: `before` and `after` are *)
(* the session that the answer `a` is about.                                 *)

Succeeded(a) == a.code \in {0, 200}

ChunksOf(s, file) == {d \in s.docs : d.kind = "chunk" /\ d.source = file}

\* What goes missing was asked to go, or there is a warning.
NothingLost(a, before, after) ==
    /\ before.nodes \ after.nodes # {} =>
         \/ a.name = "graph" /\ a.warned
         \/ a.name = "gc" /\ \A n \in before.nodes \ after.nodes :
                                \A e \in before.edges : n \notin {e[1], e[2]}
    /\ \A d \in before.docs \ after.docs :
         \/ a.name = "index" /\ d.kind = "chunk" /\ d.source \in Range(a.told.files)
         \/ a.name = "gc" /\ \/ Confidence[d.kind] < a.told[1]
                             \/ \E e \in after.docs : e.cut /\ e.kind = d.kind /\ e.source = d.source

\* A failure leaves the graph as it was, and the documents too, except where
\* the command is a sequence of replacements.
FailureIsHarmless(a, before, after) ==
    /\ [after EXCEPT !.docs = {}] = [before EXCEPT !.docs = {}]
    /\ a.name \notin {"index", "gc"} => after.docs = before.docs

\* A success without a warning did all it was asked, also after failures.
SuccessIsComplete(a, before, after) ==
    CASE a.name = "run" ->
           /\ Range(record_run(Plan(a.told))) \subseteq after.docs
           /\ Concepts(<<a.told>> \o FlattenSeq(Plan(a.told))) \subseteq after.nodes
      [] a.name = "index" ->
           \A file \in Range(a.told.files) :
             /\ ChunksOf(after, file) =
                  {Document("chunk", file, t) : t \in Range(Chunks(disk[file], a.told.target, a.told.overlap))}
             /\ Concepts(disk[file]) \subseteq after.nodes
      [] a.name = "gc" ->
           /\ \A d \in after.docs : Confidence[d.kind] >= a.told[1]
           /\ \A n \in after.nodes : \E e \in after.edges : n \in {e[1], e[2]}
      [] a.name = "graph" /\ ~a.web -> \A d \in after.docs : Concepts(d.text) \subseteq after.nodes
      [] OTHER -> after = before

\* Who names no administrator runs nothing that needs one; and an
\* administrator of a restricted region no medical step.
NoPrivilegeByDefault(a) ==
    /\ a.ran \cap SENSITIVE_CAPABILITIES # {} \/ (a.name = "tool" /\ "reverse" \in a.ran) =>
         Range(a.told) \cap {"admin", "tok-admin-hq", "tok-admin-restricted"} # {}
    /\ "medical" \in a.ran => "tok-admin-restricted" \notin Range(a.told)

\* A command touches the session it names and no other, a request only one
\* under the session root; commands and requests that read change no document
\* and no graph; nothing is lost unasked, a failure leaves the graph alone, a
\* success without a warning is complete whatever failed before, and the
\* policy applies to who gives no identity (main.rs, routes.rs).
CommandsKeepTheirWord ==
    [][commands' # commands =>
         LET a == last'
         IN  /\ \A d \in Path : sessions'[d] # sessions[d] => d = a.dir
             /\ \A d \in made' \ made : a.dir # None /\ IsPrefix(d, a.dir)
             /\ a.web /\ a.dir # None => IsPrefix(Root, a.dir)
             /\ NoPrivilegeByDefault(a)
             /\ a.dir # None =>
                  LET before == sessions[a.dir]
                      after  == sessions'[a.dir]
                  IN  /\ NothingLost(a, before, after)
                      /\ ~Succeeded(a) => FailureIsHarmless(a, before, after)
                      /\ Succeeded(a) /\ ~a.warned => SuccessIsComplete(a, before, after)]_commandVars
=============================================================================
