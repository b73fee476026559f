-------------------------- MODULE GraphAlgorithms --------------------------
(***************************************************************************)
(* The iterative algorithms of graph/src/lib.rs: breadth-first traversal    *)
(* with its queue, and PageRank.  Ranks are exact: an f32 share of the mass  *)
(* is an integer over a scale that every iteration multiplies, so that what  *)
(* the code loses or creates, beyond rounding, is visible.                   *)
(***************************************************************************)
EXTENDS KnowledgeGraph, SequencesExt, FiniteSetsExt

-----------------------------------------------------------------------------
(* traverse_with_hops: `visited`, `out` and the queue of (id, hops).       *)

\* The edges of one dequeued node, in order.
VisitEdge(g, hops, s, e) ==
    IF e.to \in s.visited THEN s
    ELSE [visited |-> s.visited \cup {e.to},
          out     |-> IF e.to \in Ids(g) THEN Append(s.out, <<e.to, hops + 1>>) ELSE s.out,
          queue   |-> Append(s.queue, <<e.to, hops + 1>>)]

VisitEdges(g, hops, s, out) ==
    LET after[i \in 0 .. Len(out)] == IF i = 0 THEN s ELSE VisitEdge(g, hops, after[i - 1], out[i])
    IN  after[Len(out)]

\* One turn of the loop, that ends when the queue is empty.
Dequeue(g, max_hops, s) ==
    LET id   == Head(s.queue)[1]
        hops == Head(s.queue)[2]
        rest == [s EXCEPT !.queue = Tail(@)]
    IN  IF s.queue = <<>> THEN s
        ELSE IF hops >= max_hops THEN rest ELSE VisitEdges(g, hops, rest, OutEdges(g, id))

\* No id is enqueued twice, and none but the start that no edge points at.
Dequeues(g) == 1 + Cardinality({e[2] : e \in edges(g)})

traverse_with_hops(g, start, max_hops) ==
    LET turn[n \in 0 .. Dequeues(g)] ==
            IF n = 0 THEN [visited |-> {start}, out |-> <<>>, queue |-> <<<<start, 0>>>>]
            ELSE Dequeue(g, max_hops, turn[n - 1])
    IN  turn[Dequeues(g)].out

traverse(g, start, max_hops) ==
    LET found == traverse_with_hops(g, start, max_hops)
    IN  [i \in DOMAIN found |-> found[i][1]]

\* The ids some path of one to n edges leads to from `start`.
Spread(g, start, ids) == ids \cup {e[2] : e \in {f \in edges(g) : f[1] = start \/ f[1] \in ids}}

Within(g, start, n) ==
    LET upTo[k \in 0 .. n] == IF k = 0 THEN {} ELSE Spread(g, start, upTo[k - 1])
    IN  upTo[n]

\* What is asked of `traverse_with_hops`: each existing node other than the
\* start that a path of at most max_hops edges reaches, once, nearest first, at
\* the length of its shortest path.
TraversalIsExact(g, start, max_hops) ==
    LET found == traverse_with_hops(g, start, max_hops)
    IN  /\ {found[i][1] : i \in DOMAIN found} = (Within(g, start, max_hops) \cap Ids(g)) \ {start}
        /\ \A i, j \in DOMAIN found : i < j => found[i][2] <= found[j][2] /\ found[i][1] # found[j][1]
        /\ \A i \in DOMAIN found :
             found[i][1] \in Within(g, start, found[i][2]) \ Within(g, start, found[i][2] - 1)

-----------------------------------------------------------------------------
(* PageRank.  `tp` gives each node its weight in the restart distribution, *)
(* of n; damping is p / q.                                                 *)

\* Mutant: an edge to a missing node counts in the divisor.
live_or_dead(g, id) == Len(OutEdges(g, id))

\* The edges of id whose target exists, and how often they reach `to`.
Live(g, id) == Len(neighbors(g, id))
Reaching(g, id, to) == Len(SelectSeq(neighbors(g, id), LAMBDA x : x = to))

\* A common multiple of every number of live edges.
Multiple(g) == ProductSet(1 .. Max({1} \cup {Live(g, id) : id \in Ids(g)}))

\* One power iteration; `rank` is over `scale` times n.
Iterate(g, tp, n, p, q, r) ==
    LET m        == Multiple(g)
        dangling == SumFunctionOnSet(r.rank, {id \in Ids(g) : Live(g, id) = 0})
        inflow(id) == MapThenSumSet(
                        LAMBDA src : IF Live(g, src) = 0 THEN 0
                                     ELSE Reaching(g, src, id) * (m \div Live(g, src)) * r.rank[src],
                        Ids(g))
    IN  [rank  |-> [id \in Ids(g) |-> (q - p) * m * n * r.scale * tp[id]
                                      + p * n * inflow(id) + p * m * dangling * tp[id]],
         scale |-> r.scale * q * m * n]

pagerank_core(g, tp, n, p, q, iterations) ==
    FoldLeft(LAMBDA r, i : Iterate(g, tp, n, p, q, r), [rank |-> tp, scale |-> 1], [i \in 1 .. iterations |-> i])

\* Uniform restart.
pagerank(g, p, q, iterations) ==
    pagerank_core(g, [id \in Ids(g) |-> 1], Cardinality(Ids(g)), p, q, iterations)

\* Restart at the listed seeds that are in the graph; nothing without any.  A
\* seed's share is one of the list's length, and a seed listed twice has one.
personalized_pagerank(g, seeds, p, q, iterations) ==
    LET present == SelectSeq(seeds, LAMBDA x : x \in Ids(g))
        share   == [id \in Ids(g) |-> IF id \in Range(present) THEN 1 ELSE 0]
    IN  IF present = <<>> THEN [rank |-> <<>>, scale |-> 1]
        ELSE pagerank_core(g, share, Len(present), p, q, iterations)
=============================================================================
