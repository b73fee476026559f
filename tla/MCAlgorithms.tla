---------------------------- MODULE MCAlgorithms ----------------------------
(***************************************************************************)
(* The algorithms that keep no state, on every input of small families.  A   *)
(* behaviour picks one case; `case.kind` says of which family it is.         *)
(***************************************************************************)
EXTENDS Ranking, Kql, Checks, Decisions, Codec

VARIABLE case

Up(S, n) == UNION {[1 .. k -> S] : k \in 0 .. n}

CasesInit == case = [kind |-> "start"]

-----------------------------------------------------------------------------
(* Texts and words.                                                        *)

MCLetters == {"x", "a", "b", "c", "d", "e", "i", "o", "r", "s", "u", "y", "A", "B", "kanji", "kana",
              "0", "1", "2", "3", "4"}
MCSmall == [A |-> "a", B |-> "b"]

TextCase == \E t \in Up({"x", " ", ".", "\n"}, 5) : case' = [kind |-> "text", text |-> t]
WordCase == \E w \in Up({"i", "e", "s", "a", "u", "o", "kanji"}, 4) : case' = [kind |-> "word", word |-> w]

StripSpace(s) == SelectSeq(s, LAMBDA c : c \notin Whitespace)

\* Chunking loses, doubles and reorders no text, whatever the strategy and
\* the size; fixed and recursive chunks are not longer than asked for; an
\* overlap puts in front of a chunk nothing but an end of the chunk before
\* it, of at most twice the size asked for; a summary is a beginning of the
\* text, one character over the size at most, and is not summarised again;
\* and stemming a stem changes nothing, so that a query may be tokenized again.
TextIsKept ==
    /\ case.kind = "text" => \A n \in 1 .. 3, strategy \in {"paragraph", "fixed", "adaptive", "recursive"} :
         \A base \in {chunk(case.text, strategy, n)} :
           /\ StripSpace(FlattenSeq(base)) = StripSpace(case.text)
           /\ strategy \in {"fixed", "recursive"} => \A i \in DOMAIN base : Len(base[i]) <= n
           /\ \A o \in 0 .. 2 : \A over \in {chunk_with_overlap(case.text, strategy, n, o)} :
                /\ Len(over) = Len(base)
                /\ \A i \in DOMAIN base : over[i] # base[i] =>
                     LET front == Prefix(over[i], Len(over[i]) - Len(base[i]) - 1)
                     IN  /\ i > 1 /\ over[i] = front \o <<" ">> \o base[i]
                         /\ IsSuffix(front, base[i - 1]) /\ Len(front) <= 2 * o
    /\ case.kind = "text" => \A n \in 0 .. 3 :
         \A doc \in {compress_document([body |-> case.text, compressed |-> FALSE], n)} :
           doc.compressed =>
             /\ Len(doc.body) <= n + 1 /\ IsPrefix(SelectSeq(doc.body, LAMBDA c : c # "ellipsis"), trim(case.text))
             /\ compress_document(doc, n) = doc
    /\ case.kind = "word" =>
         /\ s_stem(s_stem(case.word)) = s_stem(case.word)
         /\ \A t \in Range(tokens(case.word)) : tokens(t) # <<>> => t \in Range(tokens(t))

-----------------------------------------------------------------------------
(* Graphs.                                                                 *)

\* Three nodes of two labels and up to three edges, doubled ones, loops and
\* edges to a node that is missing among them.
Drawn(es) ==
    LET label(i) == IF i = 2 THEN <<"B">> ELSE <<"a">>
        bare == FoldLeft(LAMBDA g, i : add_node(g, i, "concept", label(i), 30 * i), empty_graph, <<1, 2, 3>>)
        dated == set_date(bare, 1, 1)
    IN  FoldLeft(LAMBDA g, e : connect(g, e[1], e[2], e[3]), dated, es)

MCEdges == {<<1, 1>>, <<1, 2>>, <<2, 3>>, <<3, 1>>, <<3, 4>>, <<2, 1>>} \X {"depends_on"}
           \cup {<<1, 2>>, <<3, 3>>} \X {"references"}

GraphCase == \E es \in Up(MCEdges, 3) :
    case' = [kind |-> "graph", graph |-> Drawn([i \in DOMAIN es |-> <<es[i][1][1], es[i][1][2], es[i][2]>>])]

\* traverse_with_hops finds each existing node other than the start that a
\* path of at most max_hops edges reaches, once, nearest first, at the length
\* of its shortest path.  PageRank gives no mass where no path leads from a
\* seed; uniform or personalised it neither loses nor creates any, as the
\* code's comment says, as long as no seed is listed twice: then the restart
\* has less than the whole mass, and so have the ranks.  Through doubled edges,
\* loops, cycles, dead ends, and edges and seeds that are missing.
GraphSearchIsExact ==
    case.kind = "graph" =>
        LET g == case.graph
            r == pagerank(g, 1, 2, 2)
        IN  /\ \A x \in Ids(g), h \in 0 .. 3 : TraversalIsExact(g, x, h)
            /\ SumFunction(r.rank) = r.scale * Cardinality(Ids(g))
            /\ \A seeds \in {s \in Up(1 .. 4, 2) : Range(s) \cap Ids(g) # {}} :
                 LET p       == personalized_pagerank(g, seeds, 1, 2, 2)
                     present == SelectSeq(seeds, LAMBDA x : x \in Ids(g))
                     mass    == SumFunction(p.rank)
                 IN  /\ mass <= p.scale * Cardinality(Range(present))
                     /\ IsInjective(present) => mass = p.scale * Len(present)
                     /\ \A x \in Ids(g) : p.rank[x] > 0 => x \in Range(seeds) \/ \E s \in Range(present) : x \in Within(g, s, 2)

-----------------------------------------------------------------------------
(* Queries.                                                                *)

MCLower == [a |-> "a", b |-> "b", A |-> "a", B |-> "b", c |-> "c", d |-> "d", r |-> "r"]
MCAlphabet == <<"A", "B", "a", "b">>
MCNumbers == ("1" :> 1) @@ ("50" :> 50) @@ ("300" :> 300)
MCDates == ("y1" :> [month |-> 12, day |-> 31, at |-> 2]) @@ ("y2" :> [month |-> 13, day |-> 1, at |-> 3])

\* The clauses of the queries below as text, one good form and some bad ones.
MCClauses == {<<"RELATED", " ", "*", " ", "VIA", " ", "DependsOn">>, <<"RELATED", " ", "concept">>,
              <<"BEFORE", " ", "y1">>, <<"BEFORE", " ", "y2">>,
              <<"FILTER", " ", "NOT", "(", "CONFIDENCE", ">", "=", "50", " ", "OR", " ", "CONFIDENCE", "<", "1", ")">>,
              <<"FILTER", " ", "CONFIDENCE", ">", "300">>, <<"FILTER", "(", "CONFIDENCE", "=", "1">>,
              <<"ORDER", " ", "BY", " ", "CONFIDENCE", " ", "ASC">>, <<"LIMIT", " ", "1">>, <<"LIMIT", " ", "*">>,
              <<"RETURN", " ", "GRAPH", "+", "SOURCES">>}
MCFinds == {<<"FIND", " ", "*">>, <<"FIND", " ", "concept", "\"", "A", "\"">>, <<"FIND">>, <<"FIND", "\"", "a">>}

BadClause == {<<"BEFORE", " ", "y2">>, <<"FILTER", " ", "CONFIDENCE", ">", "300">>,
              <<"FILTER", "(", "CONFIDENCE", "=", "1">>, <<"LIMIT", " ", "*">>}
BadFind == {<<"FIND">>, <<"FIND", "\"", "a">>}

QueryCase == \E f \in MCFinds, cs \in Up(MCClauses, 2) :
    case' = [kind |-> "query", bad |-> f \in BadFind \/ \E i \in DOMAIN cs : cs[i] \in BadClause,
             text |-> f \o FlattenSeq([i \in DOMAIN cs |-> <<" ">> \o cs[i]])]

MCGraph == Drawn(<<<<1, 2, "depends_on">>, <<1, 1, "depends_on">>, <<3, 1, "references">>, <<2, 4, "depends_on">>>>)

\* A query is an error exactly if one of its parts is, wherever that part is.
\* What RELATED finds is what it finds VIA each kind of edge, together: nodes
\* that an edge leads to from another node that matched.  Undated nodes are
\* in no period, and LIMIT keeps a best part of the answer.
AnswerIsSound(q, g, primary, found) ==
    LET via(k) == RelatedNodes([q EXCEPT !.via = <<k>>], g)
    IN  /\ found = IF q.via = <<>> THEN UNION {via(k) : k \in EdgeKinds} ELSE via("depends_on")
        /\ \A n \in found : \E e \in edges(g) : e[1] \in primary \ {n} /\ e[2] = n
        /\ q.before # None => \A n \in primary \cup found : g.nodes[n].date # None /\ g.nodes[n].date < q.before
        /\ \A s \in execute(q, g).primary :
             /\ Len(s) = Least(Cardinality(primary), IF q.limit = None THEN 3 ELSE q.limit)
             /\ \A kept \in Range(s), out \in primary \ Range(s) : ~Precedes(q, g.nodes[out], g.nodes[kept])

QueriesAreSound ==
    case.kind = "query" =>
        \A toks \in {tokenize(case.text)} : \A ast \in {IF toks.ok THEN parse(toks.toks) ELSE Err} :
            /\ ast.ok = ~case.bad
            /\ ast.ok => AnswerIsSound(ast.val, MCGraph, PrimaryNodes(ast.val, MCGraph), RelatedNodes(ast.val, MCGraph))

-----------------------------------------------------------------------------
(* Searches.                                                               *)

MCCode == ("a" :> 1) @@ ("b" :> 2) @@ ("c" :> 3) @@ ("d" :> 4) @@ ("r" :> 5) @@ ("s" :> 6) @@ ("x" :> 7) @@ ("A" :> -1) @@ ("B" :> 0)
MCIdf == <<[d \in 0 .. 1 |-> <<1386, 288>>[d + 1]], [d \in 0 .. 2 |-> <<1792, 693, 182>>[d + 1]]>>
ab == <<"a", "b">>
cd == <<"c", "d">>
rr == <<"r", "r">>
cdc == <<"c", "d", "c">>
\* Two terms share a bucket with opposite signs.
MCHash == (ab :> [bucket |-> 1, sign |-> 1]) @@ (cd :> [bucket |-> 2, sign |-> 1])
          @@ (rr :> [bucket |-> 1, sign |-> -1]) @@ (cdc :> [bucket |-> 3, sign |-> 1])
MCRelational == {rr}
MCKindText == <<"k">>
MCGain == <<27720, 17489, 13860, 11938>>
MCDecay == [i \in 0 .. 4 |-> <<27720, 24948, 22453, 20208, 18187>>[i + 1]]
MCForbidden == {<<"x", "x">>}
MCThresholds == [max_run |-> 2, min_tokens |-> 4, min_diversity |-> 50]

MCSearchDocs ==
    LET doc(t, b, c, e) == [title |-> t, body |-> b, confidence |-> c, embedded |-> e]
        bodies == {ab, cd \o <<" ">> \o cdc}
    IN  {doc(t, b, 100, TRUE) : t \in {ab, cd}, b \in bodies} \cup {doc(ab, b, 50, TRUE) : b \in bodies}
          \cup {doc(ab, ab, 100, FALSE)}

\* Labels that differ in case only, a node two hops away, a doubled edge.
MCSearchGraphs ==
    LET node(g, i, label) == add_node(g, i, "concept", label, 50 * i)
        two == node(node(empty_graph, 1, ab), 2, cd)
        abs == node(two, 3, <<"A", "B">>)
        ccc == node(two, 3, <<"c", "c">>)
    IN  {empty_graph, connect(connect(two, 1, 2, "references"), 1, 2, "references"),
         connect(abs, 3, 2, "references"), connect(connect(ccc, 1, 2, "references"), 2, 3, "references")}

StoreCase == \E n \in 0 .. 2 : \E docs \in [1 .. n -> MCSearchDocs] : case' = [kind |-> "store", docs |-> docs]
SearchCase == \E g \in MCSearchGraphs, q \in {cdc, ab \o <<" ">> \o cd, ab \o <<" ">> \o rr} :
    case' = [kind |-> "search", db |-> [docs |-> case.docs, graph |-> g, embedder |-> TRUE], question |-> q]

RecallCase == \E docs \in [1 .. 2 -> [seq : 0 .. 1, confidence : {50, 100}, body : {ab, rr}]], s \in 1 .. 2, n \in 0 .. 2 :
    LET third == [seq |-> n, confidence |-> 50, body |-> ab]
        doc(d, of) == [embedded |-> TRUE, session |-> of] @@ d
    IN  case' = [kind |-> "recall", docs |-> <<doc(docs[1], 1), doc(docs[2], 1), doc(third, s)>>]

SynonymCase == \E gs \in Up(Up({ab, cd, ab \o <<"s">>}, 2), 2), q \in {ab, ab \o <<" ">> \o cd, ab \o <<"s">>} :
    case' = [kind |-> "synonyms", table |-> FoldLeft(insert_group, <<>>, gs), query |-> q]

\* An expansion keeps the query and adds at most n terms, none of them twice
\* and none the query has.
ExpandsBy(query, expanded, n) ==
    LET adds(old, all) == \A new \in {SubSeq(all, Len(old) + 1, Len(all))} :
                             Len(new) <= n /\ IsInjective(new) /\ Range(new) \cap Range(old) = {}
    IN  IsPrefix(query, expanded) /\ adds(tokens(query), tokens(expanded))

\* What one of the fused lists owes to its legs: `by` has the documents that
\* each leg found, `lens` the lengths of the legs.
FusionIsFair(r, by, lens) ==
    LET part(n) == MapThenSumSet(LAMBDA i : Scale \div (RRF_K + i), 1 .. n)
        docs    == {j \in DOMAIN r : r[j].id # None}
    IN  /\ \A i, j \in DOMAIN r : i < j => identity(r[i]) # identity(r[j]) /\ r[i].score >= r[j].score
        /\ {r[i].id : i \in docs} = by.Keyword \cup by.Vector
        /\ MapThenSumSet(LAMBDA i : r[i].score, DOMAIN r) = MapThenSumSet(LAMBDA l : part(lens[l]), DOMAIN lens)
        /\ \A i \in DOMAIN r :
             /\ r[i].id = None => Cardinality({j \in docs : lowercase(r[j].title) = lowercase(r[i].title)}) # 1
             /\ r[i].sources # {} /\ \A l \in DOMAIN by \cap r[i].sources : r[i].id \in by[l]

\* MMR drops and doubles nothing, and without a price on likeness keeps the order.
RerankIsFair(r) ==
    \A k \in {1, 3}, l \in {0, 5, None} : \A m \in {mmr_rerank(r, l, k)} :
        /\ Len(m) = Least(k, Len(r)) /\ IsInjective(m) /\ Range(m) \subseteq Range(r)
        /\ l = None => m = Prefix(r, k)

\* Fusion gives every document that a leg found once, loses and doubles no
\* leg's contribution, folds a node into a document only if that document is
\* the only one of its name, and credits no leg that did not find it.  Nodes
\* found by a hop stay below the direct matches.  An expansion keeps the
\* query and adds at most the terms asked for, none it had.  MMR drops and
\* doubles nothing, so that without a price on likeness the diverse search is
\* the plain one, as is the expanded one without terms.  A recall ranks no
\* record above one that is better in every signal.
SearchIsSound ==
    /\ case.kind = "search" => \A legs \in {Legs(case.db, case.question)} :
         LET ids(l)  == {h.id : h \in UNION {Range(s) : s \in legs[l]}}
             by      == [Keyword |-> ids(1), Vector |-> ids(2)]
             lens    == [l \in 1 .. 3 |-> Len(CHOOSE s \in legs[l] : TRUE)]
             plain   == search_diverse(case.db, case.question, 1, None)
         IN  /\ \A r \in search(case.db, case.question, 99) : FusionIsFair(r, by, lens) /\ RerankIsFair(r)
             /\ \A s \in legs[3] : \A x, y \in DOMAIN s : s[x].sources = {"Graph"} /\ s[y].sources = {"GraphHop"} =>
                  s[x].score > s[y].score
             /\ \A n \in 0 .. 2 : \A e \in Expanded(case.db, case.question, 2, n) : ExpandsBy(case.question, e, n)
             /\ search_expanded(case.db, case.question, 1, 2, 0) = plain
    /\ case.kind = "synonyms" => \A n \in 0 .. 2 :
         ExpandsBy(case.query, expand_query_with_synonyms(case.query, case.table, n), n)
    /\ case.kind = "recall" => \A r \in {recall(case.docs, 1, ab, 3)} :
         LET docs   == case.docs
             sim(d) == Greatest(0, cosine(embed(ab), embed(docs[d].body)))
         IN  /\ Range(r) = {d \in DOMAIN docs : docs[d].session = 1} /\ IsInjective(r)
             /\ recall(docs, 1, ab, 1) = Prefix(r, 1)
             /\ \A i, j \in DOMAIN r :
                  /\ docs[r[i]].seq >= docs[r[j]].seq /\ docs[r[i]].confidence >= docs[r[j]].confidence
                  /\ sim(r[i]) > sim(r[j])
                  => i < j

\* The fusion's promise about what corroborated an item: "it must survive the
\* representative being swapped out".
SourcesSurvive ==
    case.kind = "search" =>
        \A r \in search(case.db, case.question, 99), h \in keyword_hits(case.db.docs, tokens(case.question))
                                                        \cup vector_hits(case.db.docs, embed(case.question)) :
            \A i \in DOMAIN r : h.id = r[i].id => h.sources \subseteq r[i].sources

-----------------------------------------------------------------------------
(* What is written and read back.                                          *)

DocCase == \E t \in Up({"\\", "n", "\n", ":", " ", "c", "\r"}, 3), n \in 0 .. 2 : case' = [kind |-> "doc", text |-> t, dim |-> n]
LineCase == \E t \in Up({"\t", "\n", "\r", " ", "A"}, 3), c \in {0, 100, 101, 255} :
    case' = [kind |-> "line", text |-> t, confidence |-> c]
JsonCase == \E t \in Up({"\"", "\\", "{", "]", "n", "nul"}, 3) : case' = [kind |-> "json", text |-> t]
FormCase == \E k, v \in Up({"%", "&", "=", "+", " ", "a"}, 2) : case' = [kind |-> "form", key |-> k, val |-> v]

\* How a reader of JSON and a writer of forms see it.
JsonRead(s) ==
    LET read == [n |-> "\n", r |-> "\r", t |-> "\t", u |-> "nul"] @@ ("\"" :> "\"") @@ ("\\" :> "\\")
        step(st, c) == CASE st.skip > 0 -> [st EXCEPT !.skip = @ - 1]
                         [] st.skip = 0 /\ st.esc ->
                              [out |-> Append(st.out, read[c]), esc |-> FALSE, skip |-> IF c = "u" THEN 4 ELSE 0]
                         [] st.skip = 0 /\ ~st.esc /\ c = "\\" -> [st EXCEPT !.esc = TRUE]
                         [] OTHER -> [st EXCEPT !.out = Append(@, c)]
    IN  FoldLeft(step, [out |-> <<>>, esc |-> FALSE, skip |-> 0], s).out
FormWrite(s) ==
    Replace(s, ("%" :> <<"%", "2", "5">>) @@ ("&" :> <<"%", "2", "6">>) @@ ("=" :> <<"%", "3", "d">>)
               @@ ("+" :> <<"%", "2", "b">>) @@ (" " :> <<"+">>))

\* A document that is stored is read back the same, whatever its fields hold.
\* A graph is read back with its tabs and line ends as spaces, its kinds in
\* lower case, no confidence above 100, and an empty date or provenance as
\* none; of two nodes whose ids are one then, the one written last is left,
\* and saving what was read changes nothing more.  A reader of JSON gets the
\* text that was written and the brackets of a response balance; a form's
\* pairs arrive as they were.
RoundTrips ==
    /\ case.kind = "doc" =>
         LET t   == case.text
             doc == [doc_type |-> t, title |-> t, author |-> <<t>>, confidence |-> "3", body |-> t,
                     embedding |-> IF t = <<>> THEN <<>> ELSE <<[i \in 1 .. case.dim |-> "1"]>>,
                     metadata |-> (t :> t) @@ (<<"x">> :> t)]
             read == deserialize(serialize(doc, <<t, <<"x">>>>))
         IN  read = doc /\ StoreMatches(<<read>>, t, t) = {1}
    /\ case.kind = "line" =>
         LET t    == case.text
             text == sanitize(t)
             most == IF case.confidence < 100 THEN case.confidence ELSE 100
             node(dated, label) ==
                [id |-> t, kind |-> t, confidence |-> case.confidence, date |-> <<t>>,
                 provenance |-> IF dated THEN <<>> ELSE <<t>>, label |-> label]
             twin == [node(TRUE, <<"x">>) EXCEPT !.id = text]
             edge == [from |-> t, to |-> t, kind |-> t]
             kept(sourced, label) ==
                [kind |-> lowercase(text), confidence |-> most, date |-> IF t = <<>> THEN <<>> ELSE <<text>>,
                 provenance |-> IF t # <<>> /\ sourced THEN <<text>> ELSE <<>>, label |-> label]
             read(nodes) == load(save(nodes, <<edge>>))
             back  == read(<<node(FALSE, t)>>)
             again == load(save(<<back.nodes[text] @@ [id |-> text]>>, back.edges))
         IN  /\ back = [nodes |-> text :> kept(TRUE, text),
                        edges |-> <<[from |-> text, to |-> text, kind |-> lowercase(text)]>>]
             /\ read(<<node(FALSE, t), twin>>).nodes = text :> kept(FALSE, <<"x">>)
             /\ again = back
    /\ case.kind = "json" =>
         LET t == case.text
             body == render([t |-> "object", v |-> <<<<t, [t |-> "string", v |-> t]>>,
                              <<<<"n">>, [t |-> "array", v |-> <<[t |-> "atom", v |-> "NaN"], [t |-> "null", v |-> 0]>>]>>>>])
         IN  JsonRead(SubSeq(escape(t), 2, Len(escape(t)) - 1)) = t /\ JsonBalanceCheck(body) = "pass"
    /\ case.kind = "form" =>
         LET k == case.key
             v == case.val
             form == FormWrite(v) \o <<"=", "x", "&">> \o FormWrite(k) \o <<"=">> \o FormWrite(v)
         IN  parse_form(form) = (k :> v) @@ (v :> <<"x">>)

-----------------------------------------------------------------------------
(* Checks, orders, metrics and consensus.                                  *)

BracketCase == \E t \in Up({"{", "}", "[", "]", "\""}, 4) : case' = [kind |-> "brackets", text |-> t]
CitedCase == \E t \in Up({"[", "1", "]", "\n", "x"}, 4) : case' = [kind |-> "cited", text |-> t]
SumCase == \E a, b \in 0 .. 2, c \in -2 .. 4, op \in Operator, pre \in {<<>>, <<"1", " ", "+", " ">>, <<"x">>},
              post \in {<<>>, <<".">>, <<" ", "*", " ", "2">>, <<",", "0">>} :
    LET d(n) == <<<<"0", "1", "2", "3", "4">>[n + 1]>>
    IN  case' = [kind |-> "sum", plain |-> pre = <<>> /\ post \in {<<>>, <<".">>},
                 wrong |-> Evaluable(a, op, b) /\ Apply(a, op, b) # c,
                 text |-> pre \o d(a) \o <<" ", op>> \o d(b) \o <<" ", "=">> \o
                          (IF c < 0 THEN <<"-">> \o d(-c) ELSE d(c)) \o post]
DagCase == \E d1 \in Up(1 .. 3, 2) \cup {<<4>>}, d2, d3 \in Up(1 .. 3, 2) :
    case' = [kind |-> "dag", dag |-> <<Step("a", "c", d1), Step("b", "c", d2), Step("d", "c", d3)>>]
DefinitionCase ==
    LET line(f, n, ds) == [form |-> f, name |-> n, capability |-> "c", deps |-> ds]
    IN  \E ls \in Up({line("step", "a", <<>>), line("step", "a", <<"b">>), line("step", "b", <<"", "a", "a">>),
                      line("blank", "", <<>>), line("step", "b", <<>>), line("junk", "", <<>>)}, 3) :
          case' = [kind |-> "definition", lines |-> ls]
PlanCase == \E i \in SUBSET {"research", "coding", "translation", "question"} : case' = [kind |-> "plan", intent |-> i]
RunCase == \E ids \in Up(1 .. 3, 4), rel \in SUBSET (1 .. 3) : case' = [kind |-> "run", ids |-> ids, relevant |-> rel]
OpinionCase == \E rs \in Up([score : {0, 69, 139}, hint : {"x", "y"}], 3) : case' = [kind |-> "opinions", rs |-> rs]
SampleCase == \E ss \in Up([tokens : {0, 6}, ns : {0, 2, 3}, runtime : {"x", "y"}], 2), s \in [tokens : {5}, ns : {1}, runtime : {"x"}] :
    case' = [kind |-> "samples", old |-> ss, new |-> s]

\* Brackets matched by removing adjacent pairs.
RECURSIVE Reduced(_)
Reduced(b) ==
    LET at == {i \in 1 .. Len(b) - 1 : <<b[i], b[i + 1]>> \in {<<"{", "}">>, <<"[", "]">>}}
    IN  IF at = {} THEN b ELSE Reduced(RemoveAt(RemoveAt(b, Min(at) + 1), Min(at)))
Unquoted(t) ==
    LET quotes(i) == Cardinality({j \in 1 .. i : t[j] = "\""})
    IN  FlattenSeq([i \in DOMAIN t |-> IF quotes(i) % 2 = 0 /\ t[i] # "\"" THEN <<t[i]>> ELSE <<>>])

Failing(t) == LET f == failures(verify(t)) IN {f[i].name : i \in DOMAIN f}

\* The verifier's checks against independent definitions: brackets fail
\* exactly if they do not reduce to nothing, an equation exactly if it stands
\* alone and is wrong, citations never once each number has a definition.  A
\* workflow has an order, a legal one, exactly if one exists; a definition
\* that is accepted and every plan have one.  Metrics stay between 0 and 1
\* and a hit listed again raises none.  The majority has the most weight, the
\* first of equals, and a mean lies between what it is the mean of.
JudgementsAreRight ==
    /\ case.kind = "brackets" => JsonBalanceCheck(case.text) =
         IF case.text = <<>> \/ case.text[1] \notin {"{", "["} THEN "skip"
         ELSE IF Reduced(Unquoted(case.text)) = <<>> THEN "pass" ELSE "fail"
    /\ case.kind = "cited" => CitationCheck(case.text \o <<"\n", "[", "1", "]", "\n", "[", "1", "1", "]">>) = "pass"
    /\ case.kind = "sum" => /\ ("arithmetic" \in Failing(case.text)) = (case.plain /\ case.wrong)
                              /\ passed(verify(case.text)) => ~(case.plain /\ case.wrong)
    /\ case.kind = "dag" => OrderIsRight(case.dag)
    /\ case.kind = "definition" =>
         LET d == from_definition(case.lines) IN d.ok => Legal(d.dag, topological_order(d.dag))
    /\ case.kind = "plan" =>
         LET dag == plan(decompose(case.intent)) IN Len(dag) > 0 /\ Legal(dag, topological_order(dag))
    /\ case.kind = "run" => \A k \in 0 .. 3 :
         LET of(ids) == evaluate(ids, case.relevant, k)
             again   == {i \in DOMAIN case.ids : i \notin first_occurrences(case.ids)}
             run     == [ids |-> case.ids, relevant |-> case.relevant]
             none    == [run EXCEPT !.ids = <<>>]
         IN  /\ \A f \in DOMAIN of(case.ids) : of(case.ids)[f] \in 0 .. Whole
             /\ evaluate_hits([i \in DOMAIN case.ids |-> [title |-> case.ids[i]]], case.relevant, k) = of(case.ids)
             /\ mean_average_precision(<<run, none>>) = of(case.ids).average_precision \div 2
             /\ mean_reciprocal_rank(<<none, run>>) = of(case.ids).reciprocal_rank \div 2
             /\ \A i \in again, f \in DOMAIN of(case.ids) : of(case.ids)[f] <= of(RemoveAt(case.ids, i))[f]
    /\ case.kind = "opinions" /\ case.rs # <<>> =>
         LET c == consensus(case.rs)
             weight(h) == Weight(case.rs, h)
             at(h) == Min({i \in DOMAIN case.rs : case.rs[i].hint = h})
         IN  /\ c.score <= 100 /\ c.agreement \in 1 .. 100
             /\ \A h \in Range(c.hints) : \/ weight(h) < weight(c.majority)
                                          \/ weight(h) = weight(c.majority) /\ at(c.majority) <= at(h)
    /\ case.kind = "samples" =>
         LET all  == record(case.old, case.new, 2)
             mine == SelectSeq(all, LAMBDA s : s.runtime = "x")
             ns   == {mine[i].ns : i \in DOMAIN mine}
             rate == {tokens_per_sec(all[i]) : i \in DOMAIN all}
         IN  /\ Last(all) = case.new /\ Len(all) <= 2 /\ mean_latency_ns_for(all, "x") \in Min(ns) .. Max(ns)
             /\ -1 \notin rate => mean_tokens_per_sec(all) \in Min(rate) .. Max(rate)

-----------------------------------------------------------------------------
CasesNext ==
    \/ /\ case.kind = "start"
       /\ \/ TextCase \/ WordCase \/ GraphCase \/ QueryCase
          \/ DocCase \/ LineCase \/ JsonCase \/ FormCase
          \/ BracketCase \/ CitedCase \/ SumCase \/ DagCase \/ DefinitionCase
          \/ PlanCase \/ RunCase \/ OpinionCase \/ SampleCase
          \/ SynonymCase \/ RecallCase \/ StoreCase
    \/ case.kind = "store" /\ SearchCase

CasesSpec == CasesInit /\ [][CasesNext]_case
=============================================================================
