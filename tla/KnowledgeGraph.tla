--------------------------- MODULE KnowledgeGraph ---------------------------
(***************************************************************************)
(* The in-memory knowledge graph (graph/src/lib.rs) as a value: nodes by id  *)
(* and, for each source id, the edges leaving it in insertion order.  As in  *)
(* the code, an edge may be doubled, may be a loop, and may leave from or    *)
(* point at an id without a node: `connect` checks nothing.                  *)
(*                                                                         *)
(* A label is a sequence of words, a word has a lower-case form and a place *)
(* in the alphabet; dates are numbers in the order of their ISO text.        *)
(***************************************************************************)
EXTENDS Lists, FiniteSets, Functions

CONSTANTS
    Lower,           \* Lower[w]: the word in lower case
    None             \* an absent date or provenance

ASSUME LowerAssumption ==
    \A w \in DOMAIN Lower : Lower[w] \in DOMAIN Lower /\ Lower[Lower[w]] = Lower[w]

\* `label.to_lowercase()`.
to_lowercase(label) == [i \in DOMAIN label |-> Lower[label[i]]]

\* The words of t occur in label, side by side.
Infix(t, label) == \E i \in 1 .. Len(label) - Len(t) + 1 : SubSeq(label, i, i + Len(t) - 1) = t

EdgeKinds == {"depends_on", "implements", "references", "created_by", "related_to"}

Least(a, b) == IF a < b THEN a ELSE b
Greatest(a, b) == IF a < b THEN b ELSE a

Edge(to, kind) == [to |-> to, kind |-> kind]

empty_graph == [nodes |-> <<>>, adjacency |-> <<>>]

Ids(g) == DOMAIN g.nodes

\* `entry(id).or_default()`.
or_default(adjacency, id) ==
    [x \in DOMAIN adjacency \cup {id} |-> IF x \in DOMAIN adjacency THEN adjacency[x] ELSE <<>>]

insert(g, id, node) ==
    [nodes |-> [x \in Ids(g) \cup {id} |-> IF x = id THEN node ELSE g.nodes[x]],
     adjacency |-> or_default(g.adjacency, id)]

NewNode(kind, label, confidence) ==
    [kind |-> kind, label |-> label, confidence |-> Least(confidence, 100),
     date |-> None, provenance |-> None]

add_node(g, id, kind, label, confidence) == insert(g, id, NewNode(kind, label, confidence))

Raised(node, floor) == [node EXCEPT !.confidence = Greatest(@, Least(floor, 100))]

bump_confidence(g, id, floor) ==
    IF id \in Ids(g) THEN [g EXCEPT !.nodes[id] = Raised(@, floor)] ELSE g

set_date(g, id, date) == IF id \in Ids(g) THEN [g EXCEPT !.nodes[id].date = date] ELSE g

set_provenance(g, id, source) ==
    IF id \in Ids(g) THEN [g EXCEPT !.nodes[id].provenance = source] ELSE g

OutEdges(g, id) == IF id \in DOMAIN g.adjacency THEN g.adjacency[id] ELSE <<>>

connect(g, from, to, kind) ==
    [nodes     |-> g.nodes,
     adjacency |-> [x \in DOMAIN g.adjacency \cup {from} |->
        IF x = from THEN Append(OutEdges(g, from), Edge(to, kind)) ELSE g.adjacency[x]]]

Without(f, ids) == [x \in DOMAIN f \ ids |-> f[x]]

\* The node, the edges that leave it and those that point at it.
remove_node(g, id) ==
    LET others(es) == Kept(es, {e \in Range(es) : e.to # id})
    IN  [nodes |-> Without(g.nodes, {id}),
         adjacency |-> [x \in DOMAIN g.adjacency \ {id} |-> others(g.adjacency[x])]]

\* Every copy of the edge.
remove_edge(g, from, to, kind) ==
    IF from \notin DOMAIN g.adjacency THEN g
    ELSE [g EXCEPT !.adjacency[from] = Kept(@, Range(@) \ {Edge(to, kind)})]

\* The edges as triples, doubled ones once.
edges(g) ==
    UNION {{<<x, g.adjacency[x][i].to, g.adjacency[x][i].kind>> : i \in DOMAIN g.adjacency[x]} :
             x \in DOMAIN g.adjacency}

\* Nodes that no edge leaves and none points at.
remove_orphans(g) ==
    LET referenced == UNION {{e[1], e[2]} : e \in edges(g)}
        orphans    == Ids(g) \ referenced
    IN  [nodes |-> Without(g.nodes, orphans), adjacency |-> Without(g.adjacency, orphans)]

\* The ids of the outgoing neighbours, in edge order, a doubled edge twice.
neighbors(g, id) ==
    LET out  == OutEdges(g, id)
        live == Kept(out, {e \in Range(out) : e.to \in Ids(g)})
    IN  [i \in DOMAIN live |-> live[i].to]

neighbors_via(g, id, kind) ==
    LET out  == OutEdges(g, id)
        live == Kept(out, {e \in Range(out) : e.to \in Ids(g) /\ e.kind = kind})
    IN  [i \in DOMAIN live |-> live[i].to]
=============================================================================
