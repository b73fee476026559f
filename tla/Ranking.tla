------------------------------ MODULE Ranking ------------------------------
(***************************************************************************)
(* Around the search: synonym expansion (sdk/src/synonyms.rs), the metrics   *)
(* that judge a ranking (sdk/src/eval.rs), the memory score                  *)
(* (memory/src/memory_score.rs) and a session's recall (sdk/src/session.rs). *)
(* Fractions are in parts of Whole.                                          *)
(***************************************************************************)
EXTENDS Retrieval

CONSTANTS
    Gain,            \* Gain[i]: 1 / log2(i + 1) in parts of Whole
    Decay            \* Decay[age]: 0.9 ^ age in parts of Whole

Whole == 27720       \* divided by every number up to 12

-----------------------------------------------------------------------------
(* Synonyms.  A table maps stems to terms in the order they were added.    *)

\* Each term of the group, under its stem, gets all the others.
insert_group(table, group) ==
    LET terms == MapSeq(lowercase, group)
        others(i) == SelectSeq([j \in DOMAIN terms |-> IF i = j THEN <<>> ELSE terms[j]], LAMBDA t : t # <<>>)
        add(list, t) == IF t \in Range(list) THEN list ELSE Append(list, t)
        one(m, i) == LET key == s_stem(terms[i])
                         old == IF key \in DOMAIN m THEN m[key] ELSE <<>>
                     IN  (key :> FoldLeft(add, old, others(i))) @@ m
    IN  FoldLeftDomain(one, table, terms)

related(table, term) ==
    LET key == s_stem(lowercase(term)) IN IF key \in DOMAIN table THEN table[key] ELSE <<>>

\* The synonyms of the query's terms in their order, alphabetically for each,
\* unless their stem is there, up to max_terms.
expand_query_with_synonyms(query, table, max_terms) ==
    LET stems == SelectSeq(MapSeq(s_stem, alphanumeric_runs(lowercase(query))), LAMBDA t : Len(t) > 1)
        all   == FlatMap(LAMBDA t : SetToSortSeq(Range(related(table, t)), Before), stems)
        add(s, t) == IF s_stem(t) \in s.seen THEN s
                     ELSE [out |-> Append(s.out, t), seen |-> s.seen \cup {s_stem(t)}]
    IN  append_terms(query, FoldLeft(add, [out |-> <<>>, seen |-> Range(stems)], all).out, max_terms)

-----------------------------------------------------------------------------
(* Metrics of a ranking (a sequence of ids) against the relevant ids.      *)

\* The ranks at which an id appears first.
first_occurrences(ids) == {i \in DOMAIN ids : \A j \in 1 .. i - 1 : ids[j] # ids[i]}

RelevantRanks(ids, relevant, k) == {i \in first_occurrences(ids) : i <= k /\ ids[i] \in relevant}

distinct_relevant_in_top_k(ids, relevant, k) == Cardinality(RelevantRanks(ids, relevant, k))

precision_at_k(ids, relevant, k) ==
    IF k = 0 THEN 0 ELSE (distinct_relevant_in_top_k(ids, relevant, k) * Whole) \div k

recall_at_k(ids, relevant, k) ==
    IF relevant = {} THEN 0
    ELSE (distinct_relevant_in_top_k(ids, relevant, k) * Whole) \div Cardinality(relevant)

reciprocal_rank(ids, relevant) ==
    LET good == {i \in DOMAIN ids : ids[i] \in relevant}
    IN  IF good = {} THEN 0 ELSE Whole \div Min(good)

ndcg_at_k(ids, relevant, k) ==
    LET gains(ranks) == MapThenSumSet(LAMBDA i : Gain[i], ranks)
        ideal == gains(1 .. Least(Cardinality(relevant), k))
    IN  IF ideal = 0 THEN 0 ELSE (gains(RelevantRanks(ids, relevant, k)) * 1000) \div ideal

\* The sum over the ranks of relevant items of the precision there.
average_precision(ids, relevant) ==
    LET good == RelevantRanks(ids, relevant, Len(ids))
    IN  IF relevant = {} THEN 0
        ELSE MapThenSumSet(LAMBDA i : (Cardinality({j \in good : j <= i}) * Whole) \div i, good)
               \div Cardinality(relevant)

Mean(values) == IF values = <<>> THEN 0 ELSE FoldLeft(+, 0, values) \div Len(values)

mean_average_precision(runs) ==
    Mean([i \in DOMAIN runs |-> average_precision(runs[i].ids, runs[i].relevant)])

mean_reciprocal_rank(runs) ==
    Mean([i \in DOMAIN runs |-> reciprocal_rank(runs[i].ids, runs[i].relevant)])

evaluate(ids, relevant, k) ==
    [precision |-> precision_at_k(ids, relevant, k), recall |-> recall_at_k(ids, relevant, k),
     reciprocal_rank |-> reciprocal_rank(ids, relevant), ndcg |-> ndcg_at_k(ids, relevant, k),
     average_precision |-> average_precision(ids, relevant)]

\* A hit counts under its title.
evaluate_hits(hits, relevant, k) == evaluate([i \in DOMAIN hits |-> hits[i].title], relevant, k)

-----------------------------------------------------------------------------
(* The memory score.                                                       *)

recency_decay(age) == Decay[Greatest(age, 0)]

\* To 0 .. Whole; all to Whole when they are equal.
normalize(values) ==
    LET lo == Min(Range(values))
        hi == Max(Range(values))
    IN  [i \in DOMAIN values |-> IF hi = lo THEN Whole ELSE ((values[i] - lo) * Whole) \div (hi - lo)]

\* Indices by the sum of the three normalized signals, ties in their order.
rank_memories(items) ==
    IF items = <<>> THEN <<>>
    ELSE LET sig(f) == normalize([i \in DOMAIN items |-> items[i][f]])
             score  == [i \in DOMAIN items |-> sig("recency")[i] + sig("importance")[i] + sig("relevance")[i]]
         IN  SetToSortSeq(DOMAIN items, LAMBDA i, j : score[i] > score[j] \/ (score[i] = score[j] /\ i < j))

\* The documents of the session, by id.
all_owned(docs, session) ==
    SetToSortSeq({d \in DOMAIN docs : docs[d].session = session}, LAMBDA a, b : a < b)

\* A document without a number is as old as number 0.
recall(docs, session, query, k) ==
    LET owned  == all_owned(docs, session)
        latest == Max({0} \cup {docs[owned[i]].seq : i \in DOMAIN owned})
        signals == [i \in DOMAIN owned |->
                      LET d == docs[owned[i]]
                      IN  [recency    |-> recency_decay(latest - d.seq),
                           importance |-> d.confidence,
                           relevance  |-> IF d.embedded THEN Greatest(0, cosine(embed(query), embed(d.body))) ELSE 0]]
    IN  Prefix(MapSeq(LAMBDA i : owned[i], rank_memories(signals)), k)
=============================================================================
