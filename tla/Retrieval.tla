----------------------------- MODULE Retrieval -----------------------------
(***************************************************************************)
(* Hybrid search (sdk/src/retrieval.rs) over a document store and a graph:   *)
(* BM25+, vector and graph hits, reciprocal rank fusion, query expansion and *)
(* MMR.  Scores are integers: thousandths for the hits of a leg, parts of    *)
(* Scale for fused ones.  What the code leaves to the order of a HashMap is  *)
(* a set of possible results.  The two PageRank passes run Rounds rounds     *)
(* with damping 1/2 instead of 20 and 30 with 0.85.                          *)
(***************************************************************************)
EXTENDS TextUnits, GraphAlgorithms

CONSTANTS
    Idf,             \* Idf[n][df]: ln((n - df + 0.5) / (df + 0.5) + 1) in thousandths
    Hash,            \* Hash[term]: the bucket and the sign fnv1a gives it
    Relational,      \* the words that ask for a second hop
    ExpansionStop,   \* EXPANSION_STOPWORDS
    KindText,        \* the text a node's kind is shown as
    Rounds           \* bound on power iterations

Scale == 61 * 62 * 63
RRF_K == 60
VECTOR_WEIGHT == 5
VECTOR_THRESHOLD == 200       \* thousandths

\* The square root, cut to an integer.
Root(n) == CHOOSE k \in 0 .. n : k * k <= n /\ n < (k + 1) * (k + 1)

-----------------------------------------------------------------------------
(* Embeddings (memory/src/embedding.rs).                                   *)

\* Signed counts per bucket; normalising them changes no cosine.
embed(text) ==
    LET none == [b \in {Hash[t].bucket : t \in DOMAIN Hash} |-> 0]
    IN  FoldLeft(LAMBDA v, t : [v EXCEPT ![Hash[t].bucket] = @ + Hash[t].sign], none, index_tokens(text))

\* In thousandths; 0 for a zero vector.
cosine(a, b) ==
    LET dot(x, y)      == MapThenSumSet(LAMBDA i : x[i] * y[i], DOMAIN x)
        of(ab_, norms) == IF norms = 0 THEN 0 ELSE Root((ab_ * ab_ * 1000000) \div norms)
        signed(ab_, n) == IF ab_ < 0 THEN -n ELSE n
    IN  signed(dot(a, b), of(dot(a, b), dot(a, a) * dot(b, b)))

-----------------------------------------------------------------------------
(* Query planning and expansion.                                           *)

plan_retrieval(question) ==
    [keyword |-> TRUE, vector |-> TRUE, graph |-> TRUE,
     max_hops |-> IF \E k \in Relational : Infix(k, lowercase(question)) THEN 2 ELSE 1]

\* The informative terms of the feedback that the query has not, with their
\* frequencies.
Frequencies(ts, known) ==
    [t \in {u \in Range(ts) : Len(u) > 2 /\ u \notin known} |-> Occurrences(ts, t)]

expansion_candidates(query, feedback) ==
    Frequencies(FlatMap(tokens, feedback), Range(tokens(query)) \cup {s_stem(w) : w \in ExpansionStop})

\* By weight, then by spelling.
rank_candidates(weight) ==
    SetToSortSeq(DOMAIN weight, LAMBDA a, b :
        weight[a] > weight[b] \/ (weight[a] = weight[b] /\ Before(a, b)))

append_terms(query, terms, max_terms) ==
    FoldLeft(LAMBDA q, t : q \o <<" ">> \o t, query, Prefix(terms, max_terms))

expand_query(query, feedback, max_terms) ==
    append_terms(query, rank_candidates(expansion_candidates(query, feedback)), max_terms)

\* Frequency times rarity in the corpus, given the terms of its texts.
TfIdf(tfs, corpus) ==
    [t \in DOMAIN tfs |-> tfs[t] * Idf[Len(corpus)][Cardinality({i \in DOMAIN corpus : t \in corpus[i]})]]

expand_query_with_corpus(query, feedback, corpus, max_terms) ==
    IF corpus = <<>> THEN expand_query(query, feedback, max_terms)
    ELSE append_terms(query,
           rank_candidates(TfIdf(expansion_candidates(query, feedback), MapSeq(LAMBDA x : Range(tokens(x)), corpus))),
           max_terms)

-----------------------------------------------------------------------------
(* The three legs.  A hit has the id of its document, or None for a node.  *)

RetrievedHit(id, title, snippet, score, source) ==
    [id |-> id, title |-> title, snippet |-> snippet, score |-> score, sources |-> {source}]

tf(ts, term) == Occurrences(ts, term)

\* BM25+ with k1 = 3/2, b = 3/4, delta = 1 and a title that counts twice.  All
\* lengths are over avgdl = max(total / n, 1), which is `mean / n`.  `idx` has
\* the terms of each document's title and body.
Bm25(idx, d, terms) ==
    LET n      == Cardinality(DOMAIN idx)
        eff(x, t) == 2 * tf(idx[x].title, t) + tf(idx[x].body, t)
        len(x) == Len(idx[x].title) + Len(idx[x].body)
        mean   == Greatest(MapThenSumSet(len, DOMAIN idx), n)
        of(e, idf, avg) == IF e = 0 THEN 0 ELSE idf + (idf * 20 * avg * e) \div (8 * avg * e + 3 * avg + 9 * len(d) * n)
        df(t)  == Cardinality({x \in DOMAIN idx : eff(x, t) > 0})
    IN  FoldLeft(LAMBDA sum, t : sum + of(eff(d, t), Idf[n][df(t)], mean), 0, terms)

DocHit(docs, d, score, source) ==
    RetrievedHit(d, docs[d].title, Prefix(docs[d].body, 80), (score * docs[d].confidence) \div 100, source)

DocHits(docs, score, source) == {DocHit(docs, d, score[d], source) : d \in {x \in DOMAIN score : score[x] > 0}}

keyword_hits(docs, terms) ==
    LET scores(idx) == [d \in DOMAIN docs |-> Bm25(idx, d, terms)]
    IN  DocHits(docs, scores([d \in DOMAIN docs |-> [title |-> tokens(docs[d].title), body |-> tokens(docs[d].body)]]),
                "Keyword")

vector_hits(docs, query) ==
    LET worth(sim) == IF sim >= VECTOR_THRESHOLD THEN sim * VECTOR_WEIGHT ELSE 0
    IN  DocHits(docs, [d \in DOMAIN docs |->
                         IF docs[d].embedded THEN worth(cosine(query, embed(docs[d].body))) ELSE 0], "Vector")

Matches(g, id, terms) == FoldLeft(LAMBDA n, t : n + tf(tokens(g.nodes[id].label), t), 0, terms)

NodeHit(g, x, score, source) == RetrievedHit(None, g.nodes[x].label, KindText, score, source)

\* Direct matches, worth up to twice as much for the most central node.
DirectHits(g, matches, rank) ==
    LET top == Max({1} \cup Range(rank))
    IN  [x \in {y \in Ids(g) : matches[y] > 0} |->
           NodeHit(g, x, (matches[x] * g.nodes[x].confidence * 3 * (1000 + (1000 * rank[x]) \div top)) \div 100, "Graph")]

\* The other nodes that the mass of the matches reaches, the best of them at
\* nine tenths of the weakest match.
HopHits(g, direct, mass) ==
    LET reached == {y \in Ids(g) \ DOMAIN direct : mass[y] > 0}
        most    == Max({mass[y] : y \in reached})
        ceiling == (Min({direct[x].score : x \in DOMAIN direct}) * 9) \div 10
    IN  [x \in reached |-> NodeHit(g, x, (((mass[x] * 1000) \div most) * ceiling) \div 1000, "GraphHop")]

WithHops(g, direct, max_hops) ==
    IF max_hops > 1 /\ DOMAIN direct # {}
    THEN direct @@ HopHits(g, direct, personalized_pagerank(g, SetToSeq(DOMAIN direct), 1, 2, Rounds).rank) ELSE direct

graph_hits(g, terms, max_hops) ==
    WithHops(g, DirectHits(g, [x \in Ids(g) |-> Matches(g, x, terms)], pagerank(g, 1, 2, Rounds).rank), max_hops)

-----------------------------------------------------------------------------
(* Fusion.                                                                 *)

BetterHit(a, b) == a.score > b.score \/ (a.score = b.score /\ Before(a.title, b.title))

\* Every order in which no hit comes after one it is better than; equal ones
\* keep the order the HashMap gave them.  `hits` is a function, as two nodes may
\* give equal hits; @@ has TLC evaluate it once.
ranked(hits) ==
    LET all    == hits @@ <<>>
        orders == {s \in SetToSeqs(DOMAIN all) :
                     \A i, j \in DOMAIN s : i < j => ~BetterHit(all[s[j]], all[s[i]])}
    IN  {[i \in DOMAIN s |-> all[s[i]]] : s \in orders}

ById(hits) == [d \in {h.id : h \in hits} |-> CHOOSE h \in hits : h.id = d]

\* Mutant: documents are told apart by their titles.
identity_by_title(hit) == <<"name", lowercase(hit.title)>>

identity(hit) == IF hit.id # None THEN <<"doc", hit.id>> ELSE <<"name", lowercase(hit.title)>>

\* One hit of a list.  A better representative replaces the one there, and
\* with it the sources it had; what is merged are the new hit's own.
Merged(old, hit, contrib) ==
    [rrf |-> old.rrf + contrib,
     hit |-> [(IF hit.score > old.hit.score THEN hit ELSE old.hit) EXCEPT !.sources = @ \cup hit.sources]]

FuseHit(acc, hit, contrib) ==
    LET put(key) == (key :> Merged(IF key \in DOMAIN acc THEN acc[key] ELSE [rrf |-> 0, hit |-> hit], hit, contrib)) @@ acc
    IN  put(identity(hit))

FuseList(acc, list) ==
    FoldLeftDomain(LAMBDA a, i : FuseHit(a, list[i], Scale \div (RRF_K + i)), acc, list)

\* The documents a graph entry may stand for.
Targets(acc, key) ==
    {k \in DOMAIN acc : acc[k].hit.id # None /\ lowercase(acc[k].hit.title) = lowercase(acc[key].hit.title)}

\* A graph entry folds into the only document of its name.
FoldNames(acc) ==
    LET folding == {k \in DOMAIN acc : acc[k].hit.id = None /\ Cardinality(Targets(acc, k)) = 1}
        into(t) == {k \in folding : Targets(acc, k) = {t}}
    IN  [t \in DOMAIN acc \ folding |->
           [rrf |-> acc[t].rrf + MapThenSumSet(LAMBDA k : acc[k].rrf, into(t)),
            hit |-> [acc[t].hit EXCEPT !.sources = @ \cup UNION {acc[k].hit.sources : k \in into(t)}]]]

fuse_rrf(lists, limit) ==
    LET scored(acc) == [k \in DOMAIN acc |-> [acc[k].hit EXCEPT !.score = acc[k].rrf]]
    IN  {Prefix(s, limit) : s \in ranked(scored(FoldNames(FoldLeft(FuseList, <<>>, lists))))}

-----------------------------------------------------------------------------
(* The retriever.  `db` is its store, graph and whether it has an embedder. *)

Legs(db, question) ==
    LET of(terms) == <<ranked(ById(keyword_hits(db.docs, terms))),
                       IF db.embedder THEN ranked(ById(vector_hits(db.docs, embed(question)))) ELSE {<<>>},
                       ranked(graph_hits(db.graph, terms, plan_retrieval(question).max_hops))>>
    IN  of(tokens(question))

FuseLegs(legs, limit) ==
    UNION {fuse_rrf(<<k, v, g>>, limit) : k \in legs[1], v \in legs[2], g \in legs[3]}

search(db, question, limit) == FuseLegs(Legs(db, question), limit)

FullText(d) == d.title \o <<" ">> \o d.body

\* `Storage::search` for a text: any `limit` of the documents that hold it.
StoreSearch(docs, text, limit) ==
    LET found == {d \in DOMAIN docs : \/ Infix(lowercase(text), lowercase(docs[d].title))
                                      \/ Infix(lowercase(text), lowercase(docs[d].body))}
    IN  IF limit = 0 THEN {found} ELSE kSubset(Least(limit, Cardinality(found)), found)

\* Every query the first pass may lead to.
Expanded(db, question, feedback_docs, max_terms) ==
    LET texts(ds) == MapSeq(LAMBDA d : FullText(db.docs[d]), SetToSeq(ds))
        all       == texts(DOMAIN db.docs)
    IN  {expand_query_with_corpus(question, texts(ds), all, max_terms) :
           ds \in StoreSearch(db.docs, question, feedback_docs)}

search_expanded(db, question, limit, feedback_docs, max_terms) ==
    UNION {search(db, q, limit) : q \in Expanded(db, question, feedback_docs, max_terms)}

\* In thousandths.
Jaccard(A, B) == IF A = {} \/ B = {} THEN 0 ELSE (1000 * Cardinality(A \cap B)) \div Cardinality(A \cup B)

hit_similarity(a, b) ==
    LET of(h) == Range(tokens(h.title \o <<" ">> \o h.snippet)) IN Jaccard(of(a), of(b))

\* What a hit is worth next; lambda is in tenths.
Marginal(hits, selected, h, lambda) ==
    LET top        == Max({1} \cup {hits[i].score : i \in DOMAIN hits})
        redundancy == Max({0} \cup {hit_similarity(h, selected[i]) : i \in DOMAIN selected})
    IN  lambda * ((1000 * h.score) \div top) - (10 - lambda) * redundancy

FirstOfBest(val) == Min({j \in DOMAIN val : \A m \in DOMAIN val : val[m] <= val[j]})

\* The first of the best is taken, until there are k.
mmr_rerank(hits, lambda, k) ==
    LET l == IF lambda = None THEN 10 ELSE Greatest(0, Least(lambda, 10))
        take(s, best) == [out |-> Append(s.out, s.rest[best]), rest |-> RemoveAt(s.rest, best)]
        step(s, i) == IF s.rest = <<>> THEN s
                      ELSE take(s, FirstOfBest(MapSeq(LAMBDA h : Marginal(hits, s.out, h, l), s.rest) @@ <<>>))
    IN  FoldLeft(step, [out |-> <<>>, rest |-> hits], [i \in 1 .. k |-> i]).out

search_diverse(db, question, limit, lambda) ==
    {mmr_rerank(pool, lambda, limit) : pool \in search(db, question, Greatest(limit * 4, limit))}
=============================================================================
