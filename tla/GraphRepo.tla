------------------------------ MODULE GraphRepo ------------------------------
(***************************************************************************)
(* Versions and branches of the knowledge graph (graph/src/versioning.rs).   *)
(* A client commits changed clones of the head.                              *)
(***************************************************************************)
EXTENDS KnowledgeGraph, SequencesExt

CONSTANTS
    Branch,          \* names; "main" among them
    KindToken,       \* KindToken[kind]: the words of the token of a kind, in lower case
    Edits(_, _),     \* Edits(g, id): the changes of g a client may commit, id being fresh
    MaxVersions      \* bound on the commits

VARIABLES
    versions,        \* versions[i + 1]: the parent and the graph of version i
    branches,        \* branches[name]: its tip
    current,
    minted,          \* how many node ids were minted
    merged           \* what the last merge was of and what it reported

repoVars == <<versions, branches, current, minted, merged>>

NoMerge == [ours |-> 0, theirs |-> 0, result |-> 0, strategy |-> "none",
            conflicts |-> <<>>, added_from_theirs |-> 0]

RepoInit ==
    /\ versions = <<[parent |-> None, graph |-> empty_graph]>>
    /\ branches = [name \in {"main"} |-> 0]
    /\ current = "main"
    /\ minted = 0
    /\ merged = NoMerge

-----------------------------------------------------------------------------
ASSUME GraphRepoAssumption == None \notin Nat

\* What a client can have built with the operations of a graph.
IsGraph(g) ==
    /\ IsFiniteSet(Ids(g)) /\ IsFiniteSet(DOMAIN g.adjacency)
    /\ \A id \in Ids(g) :
         /\ DOMAIN g.nodes[id] = {"kind", "label", "confidence", "date", "provenance"}
         /\ g.nodes[id].confidence \in 0 .. 255
    /\ \A id \in DOMAIN g.adjacency : IsFiniteSet(DOMAIN g.adjacency[id])

head_id == branches[current]
GraphAt(v) == versions[v + 1].graph

CommitGraph(g) ==
    /\ Len(versions) <= MaxVersions
    /\ versions' = Append(versions, [parent |-> head_id, graph |-> g])
    /\ branches' = [branches EXCEPT ![current] = Len(versions)]
    /\ UNCHANGED current

Commit ==
    /\ \E g \in {g \in Edits(GraphAt(head_id), minted + 1) : IsGraph(g)} :
         /\ CommitGraph(g)
         /\ minted' = minted + Cardinality(DOMAIN g.nodes \ DOMAIN GraphAt(head_id).nodes)
    /\ UNCHANGED merged

\* An existing branch of that name is moved.
CreateBranch(name) ==
    /\ branches' = [b \in DOMAIN branches \cup {name} |-> IF b = name THEN head_id ELSE branches[b]]
    /\ UNCHANGED <<versions, current, minted, merged>>

\* An unknown branch is refused.
Checkout(name) ==
    /\ name \in DOMAIN branches \ {current}
    /\ current' = name
    /\ UNCHANGED <<versions, branches, minted, merged>>

\* The version numbers of the ancestry, newest first.
Log(tip) ==
    LET chain[i \in 0 .. Len(versions) - 1] ==
            IF versions[i + 1].parent = None THEN <<i>> ELSE <<i>> \o chain[versions[i + 1].parent]
    IN  chain[tip]

\* The semantic identity of a node: the token of its kind and its label in
\* lower case with a colon between, that either may hold itself.
identity(node) == KindToken[node.kind] \o <<":">> \o to_lowercase(node.label)

Identities(g) == {identity(g.nodes[id]) : id \in Ids(g)}

\* The edges by the identities of their ends, where both exist.
Facts(g) ==
    {<<identity(g.nodes[e[1]]), identity(g.nodes[e[2]]), e[3]>> :
       e \in {e \in edges(g) : e[1] \in Ids(g) /\ e[2] \in Ids(g)}}

\* The node that stands for each identity: of several, the hash map's last.
Picks(g) ==
    {f \in [Identities(g) -> Ids(g)] : \A x \in Identities(g) : identity(g.nodes[f[x]]) = x}

\* Whether the strategy takes theirs.
PickTheirs(strategy, o, t) ==
    \/ strategy = "PreferTheirs"
    \/ strategy = "HigherConfidence" /\ t.confidence > o.confidence

\* Mutant: the attributes of ours are kept whatever was chosen.
chosen_ours(strategy, o, t) == o

Chosen(strategy, o, t) == IF PickTheirs(strategy, o, t) THEN t ELSE o

Differ(o, t) ==
    o.confidence # t.confidence \/ o.date # t.date \/ o.provenance # t.provenance

\* The merge of two graphs, each identity standing for its pick, new nodes
\* with the ids after `base`.  A node is added (`add_node`) with the chosen
\* confidence, that is told as it is.
MergeGraphs(ours, theirs, po, pt, strategy, base) ==
    LET all      == SetToSeq(DOMAIN po \cup DOMAIN pt)
        id(x)    == base + (CHOOSE i \in DOMAIN all : all[i] = x)
        both     == DOMAIN po \cap DOMAIN pt
        node(x)  == IF x \in DOMAIN po THEN ours.nodes[po[x]] ELSE theirs.nodes[pt[x]]
        kept(x)  == IF x \in both THEN Chosen(strategy, ours.nodes[po[x]], theirs.nodes[pt[x]])
                    ELSE node(x)
        out(x)   == {f \in Facts(ours) \cup Facts(theirs) : f[1] = x}
        edge(f)  == Edge(id(f[2]), f[3])
        clashing == {x \in both : Differ(ours.nodes[po[x]], theirs.nodes[pt[x]])}
        added(x) == [NewNode(node(x).kind, node(x).label, kept(x).confidence)
                       EXCEPT !.date = kept(x).date, !.provenance = kept(x).provenance]
    IN  [graph |-> [nodes |-> [n \in base + 1 .. base + Len(all) |-> added(all[n - base])],
                    adjacency |-> [n \in base + 1 .. base + Len(all) |->
                                     LET fs == SetToSeq(out(all[n - base]))
                                     IN  [i \in DOMAIN fs |-> edge(fs[i])]]],
         conflicts |-> [x \in clashing |-> [ours |-> ours.nodes[po[x]].confidence,
                                            theirs |-> theirs.nodes[pt[x]].confidence,
                                            resolved |-> kept(x).confidence]],
         added_from_theirs |-> Cardinality(DOMAIN pt \ DOMAIN po)]

\* Merge `other` into the current branch and commit the result.
Merge(other, strategy) ==
    /\ other \in DOMAIN branches
    /\ LET ours   == GraphAt(head_id)
           theirs == GraphAt(branches[other])
       IN  \E po \in Picks(ours), pt \in Picks(theirs) :
             LET m == MergeGraphs(ours, theirs, po, pt, strategy, minted)
             IN  /\ minted' = minted + Cardinality(Ids(m.graph))
                 /\ CommitGraph(m.graph)
                 /\ merged' = [ours |-> head_id, theirs |-> branches[other],
                               result |-> Len(versions), strategy |-> strategy,
                               conflicts |-> m.conflicts,
                               added_from_theirs |-> m.added_from_theirs]

Strategy == {"PreferOurs", "PreferTheirs", "HigherConfidence"}

RepoNext ==
    \/ Commit
    \/ \E b \in Branch : CreateBranch(b) \/ Checkout(b)
    \/ \E b \in Branch, s \in Strategy : Merge(b, s)

RepoSpec == RepoInit /\ [][RepoNext]_repoVars

-----------------------------------------------------------------------------
(* Properties.                                                             *)

\* r has each identity of o and t exactly once, and the edges of both, each
\* once and between nodes it has.
IsUnion(o, t, r) ==
    /\ Identities(r) = Identities(o) \cup Identities(t)
    /\ \A x, y \in Ids(r) : identity(r.nodes[x]) = identity(r.nodes[y]) => x = y
    /\ Facts(r) = Facts(o) \cup Facts(t)
    /\ \A e \in edges(r) : e[1] \in Ids(r) /\ e[2] \in Ids(r)
    /\ \A x \in DOMAIN r.adjacency : \A i, j \in DOMAIN r.adjacency[x] :
         r.adjacency[x][i] = r.adjacency[x][j] => i = j

\* The node d has the attributes that a node of its identity has in g, the
\* confidence cut to 100.
TakenFrom(g, d) ==
    \E n \in Ids(g) :
        /\ identity(g.nodes[n]) = identity(d)
        /\ d.confidence = Least(g.nodes[n].confidence, 100)
        /\ d.date = g.nodes[n].date /\ d.provenance = g.nodes[n].provenance

AttributesTaken(o, t, r) == \A id \in Ids(r) : TakenFrom(o, r.nodes[id]) \/ TakenFrom(t, r.nodes[id])

\* Each conflict tells the confidence that the strategy calls for, and that is,
\* cut to 100, what the node of r has.
ConflictsTold(conflicts, strategy, r) ==
    \A x \in DOMAIN conflicts :
        LET c == conflicts[x]
        IN  /\ \E id \in Ids(r) : /\ identity(r.nodes[id]) = x
                                  /\ r.nodes[id].confidence = Least(c.resolved, 100)
            /\ c.resolved = CASE strategy = "PreferOurs"   -> c.ours
                              [] strategy = "PreferTheirs" -> c.theirs
                              [] OTHER -> Greatest(c.ours, c.theirs)

\* A merge (versioning.rs) loses nothing and invents nothing, as far as
\* identities tell nodes apart and whatever was committed since; it mixes the
\* attributes of no two nodes; every disagreement is reported with the
\* confidence that was chosen, which the merged node has unless it is above
\* 100; and the ancestry of the branch is the old one with the merge on top.
MergeIsUnion ==
    merged # NoMerge =>
        LET o == GraphAt(merged.ours)  t == GraphAt(merged.theirs)  r == GraphAt(merged.result)
        IN  /\ IsUnion(o, t, r)
            /\ AttributesTaken(o, t, r)
            /\ ConflictsTold(merged.conflicts, merged.strategy, r)
            /\ \A x \in Identities(o) \cap Identities(t) : x \notin DOMAIN merged.conflicts =>
                 \E n \in Ids(o), m \in Ids(t) :
                   identity(o.nodes[n]) = x /\ identity(t.nodes[m]) = x /\ ~Differ(o.nodes[n], t.nodes[m])
            /\ Log(merged.result) = <<merged.result>> \o Log(merged.ours)

=============================================================================
