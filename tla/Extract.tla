------------------------------ MODULE Extract ------------------------------
(***************************************************************************)
(* Heuristic concept extraction (graph/src/extract.rs).  A text is a         *)
(* sequence of sentences, a sentence a sequence of trimmed words; a word     *)
(* looks like an entity (it begins with a capital or is katakana) or not,    *)
(* and may be a stop word or the suffix of an organisation's name.           *)
(***************************************************************************)
EXTENDS KnowledgeGraph, SequencesExt

CONSTANTS
    EntityWord,      \* words `is_entity_token` accepts
    StopWord,        \* STOP_WORDS
    OrgSuffix,       \* ORG_SUFFIXES, in lower case
    Cue              \* Cue[kind]: the phrases of a gap that tell the kind of relation

\* `finish_entity`: the phrase without the stop words at its beginning.
finish_entity(current) ==
    LET last == CHOOSE n \in 0 .. Len(current) :
                  /\ \A i \in 1 .. n : current[i] \in StopWord
                  /\ n < Len(current) => current[n + 1] \notin StopWord
    IN  SubSeq(current, last + 1, Len(current))

\* The entity collected so far is complete: the words since the one before
\* it are the gap between the two.
Finish(s) ==
    LET e == finish_entity(s.current)
    IN  IF e = <<>> THEN [s EXCEPT !.current = <<>>]
        ELSE [entities |-> Append(s.entities, e),
              gaps     |-> IF s.entities = <<>> THEN s.gaps ELSE Append(s.gaps, s.gap),
              gap      |-> IF s.entities = <<>> THEN s.gap ELSE <<>>,
              current  |-> <<>>]

\* One word of `parse_sentence`.
ParseWord(s, w) ==
    IF w \in EntityWord THEN [s EXCEPT !.current = Append(@, w)]
    ELSE LET t == Finish(s)
         IN  IF t.entities = <<>> THEN t ELSE [t EXCEPT !.gap = Append(@, Lower[w])]

parse_sentence(sentence) ==
    LET after[n \in 0 .. Len(sentence)] ==
            IF n = 0 THEN [entities |-> <<>>, gaps |-> <<>>, gap |-> <<>>, current |-> <<>>]
            ELSE ParseWord(after[n - 1], sentence[n])
    IN  Finish(after[Len(sentence)])

\* The first kind, in this order, one of whose cues the gap holds.
relation_for(gap) ==
    LET order == <<"created_by", "depends_on", "implements", "references">>
        told  == {i \in DOMAIN order : \E c \in Cue[order[i]] : Infix(c, gap)}
    IN  IF told = {} THEN "related_to" ELSE order[CHOOSE i \in told : \A j \in told : i <= j]

confidence_for(count) == Least(45 + (count - 1) * 15, 100)

classify(label) == IF Lower[Last(label)] \in OrgSuffix THEN "organization" ELSE "concept"

-----------------------------------------------------------------------------
(* extract_concepts_with_provenance.                                       *)

\* Where the parsed sentences mention an entity: sentence and place in it.
Mentions(parsed, lower) ==
    UNION {{<<i, j>> : j \in {k \in DOMAIN parsed[i].entities :
                               to_lowercase(parsed[i].entities[k]) = lower}} : i \in DOMAIN parsed}

Count(parsed, lower) == Cardinality(Mentions(parsed, lower))

Mentioned(parsed) ==
    UNION {{to_lowercase(e) : e \in Range(parsed[i].entities)} : i \in DOMAIN parsed}

\* The casing seen first.
Display(parsed, lower) ==
    LET m == Mentions(parsed, lower)
        p == CHOOSE p \in m : \A q \in m : p[1] < q[1] \/ (p[1] = q[1] /\ p[2] <= q[2])
    IN  parsed[p[1]].entities[p[2]]

LabelOf(g, id) == to_lowercase(g.nodes[id].label)
Labels(g) == {LabelOf(g, id) : id \in Ids(g)}

\* What `index` may be: for each label a node that has it, of several the one
\* the map gave last.
Indexes(g) == {f \in [Labels(g) -> Ids(g)] : \A e \in Labels(g) : LabelOf(g, f[e]) = e}

\* Entities that have a node raise its confidence.
Reinforce(g, parsed, index) ==
    LET seen(id) == LabelOf(g, id) \in Mentioned(parsed) /\ index[LabelOf(g, id)] = id
        raised(id) == Raised(g.nodes[id], confidence_for(Count(parsed, LabelOf(g, id))))
    IN  [nodes     |-> [id \in Ids(g) |-> IF seen(id) THEN raised(id) ELSE g.nodes[id]],
         adjacency |-> g.adjacency]

\* Those that have none get one, with the ids from `fresh` on.
NewEntity(parsed, lower, provenance) ==
    LET display == Display(parsed, lower)
    IN  [NewNode(classify(display), display, confidence_for(Count(parsed, lower)))
           EXCEPT !.provenance = provenance]

AddEntities(g, parsed, new, fresh, provenance) ==
    LET ids == fresh .. fresh + Len(new) - 1
    IN  [nodes     |-> [id \in Ids(g) \cup ids |->
                          IF id \in Ids(g) THEN g.nodes[id]
                          ELSE NewEntity(parsed, new[id - fresh + 1], provenance)],
         adjacency |-> [id \in DOMAIN g.adjacency \cup ids |-> OutEdges(g, id)]]

\* An edge unless the pair has one, of whatever kind.
Link(s, l) ==
    IF <<l.from, l.to>> \in s.seen THEN s
    ELSE [g |-> connect(s.g, l.from, l.to, l.kind), seen |-> s.seen \cup {<<l.from, l.to>>}]

LinkAll(s, links) ==
    LET after[n \in 0 .. Len(links)] == IF n = 0 THEN s ELSE Link(after[n - 1], links[n])
    IN  after[Len(links)]

\* The ids in order of first mention.
Unique(ordered) ==
    LET unique[n \in 0 .. Len(ordered)] ==
            IF n = 0 THEN <<>>
            ELSE IF ordered[n] \in Range(unique[n - 1]) THEN unique[n - 1]
            ELSE Append(unique[n - 1], ordered[n])
    IN  unique[Len(ordered)]

\* The pairs of a sentence: neighbours with the relation their gap tells,
\* then every pair in order of first mention.
SentenceLinks(ordered, gaps) ==
    LET adjacent == [i \in 1 .. Len(ordered) - 1 |->
                       [from |-> ordered[i], to |-> ordered[i + 1], kind |-> relation_for(gaps[i])]]
        unique   == Unique(ordered)
        after(i) == [k \in 1 .. Len(unique) - i |->
                       [from |-> unique[i], to |-> unique[i + k], kind |-> "related_to"]]
    IN  Kept(adjacent, {l \in Range(adjacent) : l.from # l.to})
        \o FlattenSeq([i \in DOMAIN unique |-> after(i)])

\* Mutant: edges of earlier extractions are not looked at.
seen_here_only(g) == {}

\* The pairs that have an edge before the text is read.
SeenPairs(g) == {<<e[1], e[2]>> : e \in edges(g)}

\* All links of a text in a graph that has its entities, `node` telling which.
TextLinks(parsed, node) ==
    LET ordered(p) == [i \in DOMAIN p.entities |-> node[to_lowercase(p.entities[i])]]
    IN  FlattenSeq([i \in DOMAIN parsed |-> SentenceLinks(ordered(parsed[i]), parsed[i].gaps)])

\* `index` is that of g; a new entity is the one node with its label.
extract_concepts_with_provenance(g, text, provenance, fresh, index) ==
    LET parsed == [i \in DOMAIN text |-> parse_sentence(text[i])]
        new    == SetToSeq(Mentioned(parsed) \ Labels(g))
        nodes  == AddEntities(Reinforce(g, parsed, index), parsed, new, fresh, provenance)
        label_for == [e \in Mentioned(parsed) |->
                        IF e \in Labels(g) THEN index[e]
                        ELSE fresh - 1 + (CHOOSE i \in DOMAIN new : new[i] = e)]
    IN  LinkAll([g |-> nodes, seen |-> SeenPairs(g)], TextLinks(parsed, label_for)).g
=============================================================================
