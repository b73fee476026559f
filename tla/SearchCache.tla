---------------------------- MODULE SearchCache ----------------------------
(***************************************************************************)
(* The LRU cache of query results (sdk/src/retrieval.rs, `SearchCache`): a  *)
(* map from queries to hits and the queue of its keys, least recently used  *)
(* first.                                                                   *)
(***************************************************************************)
EXTENDS SequencesExt

CONSTANTS Query, Capacity, NoEntry

\* The capacity is at least one (`capacity.max(1)`), and there is something to ask.
ASSUME CacheAssumption == Capacity \in Nat \ {0} /\ Query # {}

EmptyCache == [order |-> <<>>, entries |-> [q \in Query |-> NoEntry]]

Keys(cache) == {q \in Query : cache.entries[q] # NoEntry}

\* Mutant of Touch that forgets to remove the old position.
TouchKeepsOld(order, q) == Append(order, q)

\* `touch`: the query becomes the most recently used.
Touch(order, q) == Append(RemoveFirst(order, q), q)

\* What `get` leaves behind when it finds the query.
Get(cache, q) == [cache EXCEPT !.order = Touch(@, q)]

\* How many entries the loop of `put` pops, with size entries in the map.
Excess(size) == IF size > Capacity THEN size - Capacity ELSE 0

\* The queries popped: the least recently used.
Evicted(order, n) == {order[i] : i \in 1 .. n}

\* `put`: insert, touch, then evict the least recently used beyond capacity.
Put(cache, q, hits) ==
    LET order == Touch(cache.order, q)
        n     == Excess(Cardinality(Keys(cache) \cup {q}))
        gone  == Evicted(order, n)
    IN  [order   |-> SubSeq(order, n + 1, Len(order)),
         entries |-> [x \in Query |-> IF x \in gone THEN NoEntry
                                      ELSE IF x = q THEN hits ELSE cache.entries[x]]]
==============================================================================
