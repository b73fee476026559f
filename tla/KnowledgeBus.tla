---------------------------- MODULE KnowledgeBus ----------------------------
(***************************************************************************)
(* The knowledge bus (sdk/src/knowledge_bus.rs): a graph whose mutations     *)
(* announce the nodes they change to a queue, which the reindexer drains     *)
(* into documents.  A graph pruned by its owner is wrapped in a new bus      *)
(* (`from_graph`); the queue and the store outlive the bus.  The store is    *)
(* any `Storage`: its search and its write may fail, each call for itself.   *)
(***************************************************************************)
EXTENDS Extract

CONSTANTS
    Label, Kind,
    Confidences,     \* what add_node is given
    Text,            \* what ingest_text_from is given
    Probe,           \* texts only looked at: what reading them would do
    Source,          \* its provenance
    LabelLess(_, _), \* the byte order of labels
    MAX_SUMMARIZED_NEIGHBOURS,
    MaxNodes,        \* bound on the ids handed out
    MaxEdges,        \* bound on the edges of the graph
    MaxQueue,        \* bound on the queue
    MaxPrunes,       \* bound on the prunings
    MaxDocs          \* bound on the documents

\* A text is a list of sentences, a sentence a list of words; a confidence is a u8.
ASSUME BusAssumption ==
    /\ Text \cup Probe \subseteq Seq(Seq(DOMAIN Lower))
    /\ Confidences \subseteq 0 .. 255

VARIABLES
    graph,           \* the bus's graph
    ids,             \* how many node ids were minted
    queue,           \* ReindexQueue
    docs,            \* the graph_node documents, in the order of their first writes: each
                     \* has the node of its metadata and the body
    quiet,           \* nodes that changed without an event, or failed to be stored, since
    unsearched,      \* nodes stored though the search for their document failed
    pruned           \* how often the graph was pruned

busVars == <<graph, ids, queue, docs, quiet, unsearched, pruned>>

BusInit ==
    /\ graph = empty_graph
    /\ ids = 0
    /\ queue = <<>> /\ docs = <<>> /\ quiet = {} /\ unsearched = {}
    /\ pruned = 0

-----------------------------------------------------------------------------
(* KnowledgeBus.                                                           *)

\* The first labels in their order.
Truncated(labels) ==
    {l \in labels : Cardinality({m \in labels : LabelLess(m, l)}) < MAX_SUMMARIZED_NEIGHBOURS}

\* The searchable body of a node's document: the node and the first labels of
\* its neighbours, each once.
summarize(g, id) ==
    [node |-> g.nodes[id], related |-> Truncated({g.nodes[n].label : n \in Range(neighbors(g, id))})]

\* The nodes of g whose summary is not what it was in the bus's graph.
Changed(g) ==
    {id \in Ids(g) : id \notin Ids(graph) \/ summarize(g, id) # summarize(graph, id)}

\* The graph changes, and `changed` is published as GraphChanged events, which
\* the one subscriber queues; the nodes `silently` changed are not.
Announce(g, changed, silently) ==
    /\ Len(queue) + Len(changed) <= MaxQueue
    /\ graph' = g
    /\ queue' = queue \o changed
    /\ quiet' = (quiet \cup silently) \ Range(changed)
    /\ UNCHANGED <<docs, unsearched, pruned>>

BusAddNode(kind, label, confidence) ==
    /\ ids < MaxNodes
    /\ ids' = ids + 1
    /\ Announce(add_node(graph, ids + 1, kind, label, confidence), <<ids + 1>>, {})

EdgeCount(g) == SumFunction([x \in DOMAIN g.adjacency |-> Len(g.adjacency[x])])

BusConnect(from, to, kind) ==
    /\ EdgeCount(graph) < MaxEdges
    /\ Announce(connect(graph, from, to, kind), <<from>>, {})
    /\ UNCHANGED ids

\* `ingest_text_from`: nodes it reinforces or connects are not announced.
Ingest(text, source, index) ==
    LET g   == extract_concepts_with_provenance(graph, text, source, ids + 1, index)
        new == Ids(g) \ Ids(graph)
    IN  /\ ids + Cardinality(new) <= MaxNodes
        /\ EdgeCount(g) <= MaxEdges
        /\ ids' = ids + Cardinality(new)
        /\ Announce(g, SetToSeq(new), Changed(g) \ new)

\* A graph the client has changed behind the bus's back, in a new bus:
\* nothing is announced.
Rewrap(g) ==
    /\ g # graph
    /\ graph' = g
    /\ quiet' = (quiet \cup Changed(g)) \cap Ids(g)
    /\ UNCHANGED <<ids, queue, docs, unsearched>>

Prune ==
    /\ pruned < MaxPrunes
    /\ pruned' = pruned + 1
    /\ \/ \E id \in Ids(graph) : Rewrap(remove_node(graph, id))
       \/ \E e \in edges(graph) : Rewrap(remove_edge(graph, e[1], e[2], e[3]))
       \/ Rewrap(remove_orphans(graph))

-----------------------------------------------------------------------------
(* Reindexer.                                                              *)

\* Mutant: a document keeps the id that was minted for it.
fresh_place(d, id, searched) == {Len(d) + 1}

\* Where the document of a node is written: in the place of one of its
\* documents (`doc.id = prev.id`), whichever the search finds first, or in a
\* place of its own if there is none or the search for it failed.
PlacesFor(d, id, searched) ==
    LET found == {i \in DOMAIN d : d[i].node = id}
    IN  IF searched /\ found # {} THEN found ELSE {Len(d) + 1}

WriteAt(d, i, doc) == IF i \in DOMAIN d THEN [d EXCEPT ![i] = doc] ELSE Append(d, doc)

NodeDoc(id) == [node |-> id, body |-> summarize(graph, id)]

\* What the documents may be after one id of the queue, skipped if its node was
\* deleted meanwhile: a call tells the id and whether its search and its write do
\* not fail.
StoreDoc(d, call) ==
    IF call.id \notin Ids(graph) \/ ~call.written THEN {d}
    ELSE {WriteAt(d, i, NodeDoc(call.id)) : i \in PlacesFor(d, call.id, call.searched)}

StoreEach(ds, call) == UNION {StoreDoc(d, call) : d \in ds}

\* And after all of them.
StoreAll(d, calls) ==
    LET after[n \in 0 .. Len(calls)] == IF n = 0 THEN {d} ELSE StoreEach(after[n - 1], calls[n])
    IN  after[Len(calls)]

\* The queue, when the searches at the places in `blind` and the writes at those
\* in `lost` fail.
Calls(blind, lost) ==
    [i \in DOMAIN queue |-> [id |-> queue[i], searched |-> i \notin blind, written |-> i \notin lost]]

\* The ids of the queue at places that are not in `lost`.
Written(lost) == {queue[i] : i \in DOMAIN queue \ lost}

\* `Reindexer::process`: drain and store.  What cannot be stored is forgotten.
Process(blind, lost) ==
    /\ queue # <<>>
    /\ queue' = <<>>
    /\ docs' \in StoreAll(docs, Calls(blind, lost))
    /\ Len(docs') <= MaxDocs
    /\ quiet' = (quiet \cup (Range(queue) \cap Ids(graph))) \ Written(lost)
    /\ unsearched' = unsearched \cup {queue[i] : i \in blind \ lost}
    /\ UNCHANGED <<graph, ids, pruned>>

BusNext ==
    \/ \E k \in Kind, l \in Label, c \in Confidences : BusAddNode(k, l, c)
    \/ \E x \in Ids(graph), y \in 1 .. ids : BusConnect(x, y, "depends_on")
    \/ \E t \in Text, s \in Source, index \in Indexes(graph) : Ingest(t, s, index)
    \/ Prune
    \/ \E blind, lost \in SUBSET DOMAIN queue : Process(blind, lost)

BusSpec == BusInit /\ [][BusNext]_busVars

-----------------------------------------------------------------------------
(* Properties.                                                             *)

\* The index follows the bus (`Reindexer`): a node has at most one document,
\* as its comment promises, unless one was written though the search for the
\* one before failed; and unless it is still queued, or changed without an
\* event (by ingestion that reinforced it, or outside the bus), or failed to
\* be stored, a node has a document that says what the graph says.
IndexFollowsBus ==
    /\ \A i, j \in DOMAIN docs : docs[i].node = docs[j].node => i = j \/ docs[i].node \in unsearched
    /\ \A id \in Ids(graph) \ (Range(queue) \cup quiet) :
         \E i \in DOMAIN docs : docs[i] = NodeDoc(id)

\* The edges of x grew from `old` to `new`: what was added is at the end, no
\* loop, and no edge to where another goes.
Grown(old, new, x) ==
    /\ IsPrefix(old, new)
    /\ \A i \in Len(old) + 1 .. Len(new) :
         new[i].to # x /\ \A j \in DOMAIN new : new[j].to = new[i].to => j = i

\* Reading a text again changes nothing, if of several nodes with one label the
\* same stands for it both times: no entity is added twice, whatever its case,
\* and no edge is drawn twice, nor drawn as a loop; and reading a text loses no
\* edge and lowers no confidence (extract_concepts_with_provenance).  The empty
\* graph a bus starts with is met again when its nodes were pruned.
ExtractionIsIdempotent ==
    ids > 0 => \A t \in Text \cup Probe, index \in Indexes(graph) :
        LET once  == extract_concepts_with_provenance(graph, t, None, ids + 1, index)
            next  == ids + Cardinality(Ids(once) \ Ids(graph)) + 1
            same  == {again \in Indexes(once) : \A e \in Labels(graph) : again[e] = index[e]}
        IN  /\ same # {}
            /\ \A again \in same : extract_concepts_with_provenance(once, t, "again", next, again) = once
            /\ \A id \in Ids(graph) : once.nodes[id].confidence >= graph.nodes[id].confidence
            /\ \A x \in DOMAIN once.adjacency : Grown(OutEdges(graph, x), OutEdges(once, x), x)
=============================================================================
