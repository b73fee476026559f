-------------------------------- MODULE Kql --------------------------------
(***************************************************************************)
(* The query language (sdk/src/kql.rs): `parse` over the tokens of a query,  *)
(* and `execute` against a knowledge graph.  Words are compared as the code  *)
(* does once cases are folded; a quoted text is a sequence of words.         *)
(***************************************************************************)
EXTENDS GraphAlgorithms

CONSTANTS
    Number,          \* Number[w]: the value of a word that is a decimal number
    Date,            \* Date[w]: of a word shaped dddd-dd-dd, its month, day and place in time
    Alphabet         \* the words in byte order

Word(w) == [t |-> "word", v |-> w]
Str(s) == [t |-> "str", v |-> s]
Op(o) == [t |-> "op", v |-> o]
Sym(s) == [t |-> s, v |-> s]         \* plus, lparen, rparen
End == Sym("end")

Ok(pos, val) == [ok |-> TRUE, pos |-> pos, val |-> val]
Err == [ok |-> FALSE]

Clause == {"RELATED", "FILTER", "BEFORE", "AFTER", "ORDER", "LIMIT", "RETURN"}

-----------------------------------------------------------------------------
(* The tokenizer.  A run of letters that makes a known word is one        *)
(* character of the input; several side by side make an unknown word.      *)

Delimiter == {" ", "\n", "\"", "+", ">", "<", "=", "(", ")"}
OrEqual == (">" :> ">=") @@ ("<" :> "<=")
Symbol == ("+" :> "plus") @@ ("(" :> "lparen") @@ (")" :> "rparen")

\* The place after a token of one character, or of two if the second is "=".
AfterOp(s) == IF Len(s) >= 2 /\ s[2] = "=" THEN 3 ELSE 2

Prepend(tok, more) == IF more.ok THEN [more EXCEPT !.toks = <<tok>> \o @] ELSE Err

RECURSIVE tokenize(_)
tokenize(s) ==
    LET from(tok, i) == Prepend(tok, tokenize(SubSeq(s, i, Len(s))))
        quoted(i) == IF i > Len(s) THEN Err ELSE from(Str(SubSeq(s, 2, i - 1)), i + 1)
        word(i)   == from(Word(IF i = 2 THEN s[1] ELSE "unknown"), i)
    IN  IF s = <<>> THEN [ok |-> TRUE, toks |-> <<>>]
        ELSE CASE s[1] \in {" ", "\n"} -> tokenize(Tail(s))
               [] s[1] = "\"" -> quoted(Min({i \in 2 .. Len(s) : s[i] = "\""} \cup {Len(s) + 1}))
               [] s[1] \in DOMAIN Symbol -> from(Sym(Symbol[s[1]]), 2)
               [] s[1] \in {"=", "<", ">"} ->
                    from(Op(IF s[1] = "=" \/ AfterOp(s) = 2 THEN s[1] ELSE OrEqual[s[1]]), AfterOp(s))
               [] OTHER -> word(Min({i \in 1 .. Len(s) : s[i] \in Delimiter} \cup {Len(s) + 1}))

-----------------------------------------------------------------------------
(* The parser: a position in the tokens.                                   *)

peek(toks, pos) == IF pos <= Len(toks) THEN toks[pos] ELSE End

eat_keyword(toks, pos, kw) == IF peek(toks, pos) = Word(kw) THEN pos + 1 ELSE pos

next_word(toks, pos) ==
    IF peek(toks, pos).t = "word" THEN Ok(pos + 1, peek(toks, pos).v) ELSE Err

Leaf(op, value) == [f |-> "cmp", op |-> op, value |-> value, args |-> <<>>]
Node(f, args) == [f |-> f, op |-> ">", value |-> 0, args |-> args]

\* One term stands for itself.
Combine(f, terms) == IF Len(terms) = 1 THEN terms[1] ELSE Node(f, terms)

\* A term that was read, as a list and added to one; and a list as a term.
First(t) == IF t.ok THEN [t EXCEPT !.val = <<@>>] ELSE Err
More(acc, t) == IF t.ok THEN [t EXCEPT !.val = Append(acc.val, @)] ELSE Err
Combined(f, r) == IF r.ok THEN [r EXCEPT !.val = Combine(f, @)] ELSE Err

RECURSIVE parse_filter_or(_, _), parse_filter_and(_, _), parse_filter_not(_, _), OrTail(_, _), AndTail(_, _)

parse_filter_atom(toks, pos) ==
    LET closed(inner) == IF ~inner.ok \/ peek(toks, inner.pos) # Sym("rparen") THEN Err ELSE [inner EXCEPT !.pos = @ + 1]
        value == peek(toks, pos + 2)
    IN  IF peek(toks, pos) = Sym("lparen") THEN closed(parse_filter_or(toks, pos + 1))
        ELSE IF /\ peek(toks, pos) = Word("CONFIDENCE")
                /\ peek(toks, pos + 1).t = "op"
                /\ value.t = "word" /\ value.v \in DOMAIN Number /\ Number[value.v] <= 255
             THEN Ok(pos + 3, Leaf(toks[pos + 1].v, Number[value.v])) ELSE Err

parse_filter_not(toks, pos) ==
    LET negated(inner) == IF inner.ok THEN [inner EXCEPT !.val = Node("not", <<@>>)] ELSE Err
    IN  IF peek(toks, pos) # Word("NOT") THEN parse_filter_atom(toks, pos)
        ELSE negated(parse_filter_not(toks, pos + 1))

\* The terms after the first, `acc` holding those read so far.
AndTail(toks, acc) ==
    IF ~acc.ok \/ peek(toks, acc.pos) # Word("AND") THEN acc
    ELSE AndTail(toks, More(acc, parse_filter_not(toks, acc.pos + 1)))

parse_filter_and(toks, pos) == Combined("and", AndTail(toks, First(parse_filter_not(toks, pos))))

OrTail(toks, acc) ==
    IF ~acc.ok \/ peek(toks, acc.pos) # Word("OR") THEN acc
    ELSE OrTail(toks, More(acc, parse_filter_and(toks, acc.pos + 1)))

parse_filter_or(toks, pos) == Combined("or", OrTail(toks, First(parse_filter_and(toks, pos))))

parse_filter(toks, pos) == parse_filter_or(toks, pos)

\* BY, ASC and DESC are optional.
parse_order(toks, pos) ==
    LET field == eat_keyword(toks, pos, "BY")
    IN  IF peek(toks, field) # Word("CONFIDENCE") THEN Err
        ELSE IF peek(toks, field + 1) = Word("ASC") THEN Ok(field + 2, "asc")
        ELSE Ok(eat_keyword(toks, field + 1, "DESC"), "desc")

\* `validate_iso_date` looks at the shape, the month and the day.
validate_iso_date(w) ==
    w \in DOMAIN Date /\ Date[w].month \in 1 .. 12 /\ Date[w].day \in 1 .. 31

\* `next_word` with its value read by `read`, if it is in `good`.
ReadWord(w, good, read(_)) == IF w.ok /\ w.val \in good THEN [w EXCEPT !.val = read(@)] ELSE Err

parse_date(toks, pos) ==
    ReadWord(next_word(toks, pos), {w \in DOMAIN Date : validate_iso_date(w)}, LAMBDA w : Date[w].at)

parse_limit(toks, pos) == ReadWord(next_word(toks, pos), DOMAIN Number, LAMBDA w : Number[w])

RECURSIVE parse_returns(_, _)
parse_returns(toks, pos) ==
    LET then(val, more) == IF more.ok THEN [more EXCEPT !.val = <<val>> \o @] ELSE Err
        item(w) == IF ~w.ok \/ w.val \notin {"GRAPH", "SOURCES", "DOCUMENTS"} THEN Err
                   ELSE IF peek(toks, w.pos) # Sym("plus") THEN Ok(w.pos, <<w.val>>)
                   ELSE then(w.val, parse_returns(toks, w.pos + 1))
    IN  item(next_word(toks, pos))

\* RELATED <kind> [VIA <edge-kind>].
parse_related(toks, pos) ==
    LET two(kind, via) == IF via.ok THEN Ok(via.pos, <<kind.val, via.val>>) ELSE Err
        one(kind) == IF ~kind.ok THEN Err
                     ELSE IF peek(toks, kind.pos) # Word("VIA") THEN Ok(kind.pos, <<kind.val>>)
                     ELSE two(kind, next_word(toks, kind.pos + 1))
    IN  one(next_word(toks, pos))

EmptyQuery(find) ==
    [find |-> find, related |-> <<>>, via |-> <<>>, filters |-> <<>>, before |-> None,
     after |-> None, order |-> "none", limit |-> None, returns |-> <<>>]

\* FILTER adds up, of the other clauses the last one counts.  A later RELATED
\* without VIA leaves the earlier VIA.
WithClause(q, kw, val) ==
    CASE kw = "RELATED" -> [q EXCEPT !.related = <<val[1]>>, !.via = IF Len(val) = 2 THEN <<val[2]>> ELSE @]
      [] kw = "FILTER"  -> [q EXCEPT !.filters = Append(@, val)]
      [] kw = "BEFORE"  -> [q EXCEPT !.before = val]
      [] kw = "AFTER"   -> [q EXCEPT !.after = val]
      [] kw = "ORDER"   -> [q EXCEPT !.order = val]
      [] kw = "LIMIT"   -> [q EXCEPT !.limit = val]
      [] kw = "RETURN"  -> [q EXCEPT !.returns = val]

ParseClause(toks, pos, kw) ==
    CASE kw = "RELATED" -> parse_related(toks, pos)
      [] kw = "FILTER"  -> parse_filter(toks, pos)
      [] kw \in {"BEFORE", "AFTER"} -> parse_date(toks, pos)
      [] kw = "ORDER"   -> parse_order(toks, pos)
      [] kw = "LIMIT"   -> parse_limit(toks, pos)
      [] kw = "RETURN"  -> parse_returns(toks, pos)
      [] OTHER -> Err

RECURSIVE Clauses(_, _, _)
Clauses(toks, pos, q) ==
    LET after(kw, r) == IF r.ok THEN Clauses(toks, r.pos, WithClause(q, kw, r.val)) ELSE Err
    IN  IF pos > Len(toks) THEN Ok(pos, IF q.returns = <<>> THEN [q EXCEPT !.returns = <<"DOCUMENTS">>] ELSE q)
        ELSE IF toks[pos].t # "word" THEN Err
        ELSE after(toks[pos].v, ParseClause(toks, pos + 1, toks[pos].v))

\* FIND [kind | *] ["text"], of which one at least, and the clauses.
parse(toks) ==
    LET kinded == peek(toks, 2).t = "word" /\ peek(toks, 2).v \notin Clause
        any    == kinded /\ peek(toks, 2).v = "*"
        at     == IF kinded THEN 3 ELSE 2
        texted == peek(toks, at).t = "str"
        find   == [kind |-> IF kinded /\ ~any THEN <<toks[2].v>> ELSE <<>>,
                   text |-> IF texted THEN <<toks[at].v>> ELSE <<>>]
    IN  IF toks = <<>> \/ peek(toks, 1) # Word("FIND") \/ (~kinded /\ ~texted) THEN Err
        ELSE Clauses(toks, IF texted THEN at + 1 ELSE at, EmptyQuery(find))

-----------------------------------------------------------------------------
(* The executor.                                                           *)

Compare(op, a, b) ==
    CASE op = ">" -> a > b [] op = ">=" -> a >= b [] op = "<" -> a < b
      [] op = "<=" -> a <= b [] OTHER -> a = b

RECURSIVE eval_filter(_, _)
eval_filter(node, f) ==
    CASE f.f = "cmp" -> Compare(f.op, node.confidence, f.value)
      [] f.f = "and" -> \A i \in DOMAIN f.args : eval_filter(node, f.args[i])
      [] f.f = "or"  -> \E i \in DOMAIN f.args : eval_filter(node, f.args[i])
      [] f.f = "not" -> ~eval_filter(node, f.args[1])

passes_filters(node, filters) == \A i \in DOMAIN filters : eval_filter(node, filters[i])

\* A node without a date is in no period.
passes_temporal(node, q) ==
    \/ q.before = None /\ q.after = None
    \/ /\ node.date # None
       /\ q.before # None => node.date < q.before
       /\ q.after # None => node.date > q.after

selector_matches(node, sel) ==
    /\ sel.kind = <<>> \/ sel.kind[1] = node.kind
    /\ sel.text = <<>> \/ Infix(to_lowercase(sel.text[1]), to_lowercase(node.label))

\* Words of a relation are compared without punctuation and case; any other
\* word is the token of an open category.
edge_kind_from_query(w) ==
    LET squashed == [DependsOn |-> "depends_on", Implements |-> "implements",
                     References |-> "references", CreatedBy |-> "created_by", RelatedTo |-> "related_to"]
    IN  IF w \in DOMAIN squashed THEN squashed[w] ELSE w

PrimaryNodes(q, g) ==
    {id \in Ids(g) : /\ selector_matches(g.nodes[id], q.find)
                     /\ passes_filters(g.nodes[id], q.filters)
                     /\ passes_temporal(g.nodes[id], q)}

\* Mutant: a loop makes a node related to itself when VIA is given.
hop_with_loops(q, g, id) ==
    IF q.via = <<>> THEN Range(traverse(g, id, 1))
    ELSE Range(neighbors_via(g, id, edge_kind_from_query(q.via[1])))

\* One hop from a primary node: over edges of one kind, or over all.
Hop(q, g, id) ==
    (IF q.via = <<>> THEN Range(traverse(g, id, 1))
     ELSE Range(neighbors_via(g, id, edge_kind_from_query(q.via[1])))) \ {id}

RelatedNodes(q, g) ==
    IF q.related = <<>> THEN {}
    ELSE {n \in UNION {Hop(q, g, id) : id \in PrimaryNodes(q, g)} :
            /\ q.related[1] \in {"*", g.nodes[n].kind}
            /\ passes_filters(g.nodes[n], q.filters)
            /\ passes_temporal(g.nodes[n], q)}

Place(w) == CHOOSE i \in DOMAIN Alphabet : Alphabet[i] = w

RECURSIVE LabelBefore(_, _)
LabelBefore(a, b) ==
    \/ a = <<>> /\ b # <<>>
    \/ /\ a # <<>> /\ b # <<>>
       /\ \/ Place(Head(a)) < Place(Head(b))
          \/ Head(a) = Head(b) /\ LabelBefore(Tail(a), Tail(b))

\* The order of results: by confidence, highest first unless ASC is asked
\* for, then by label.
Precedes(q, a, b) ==
    \/ IF q.order = "asc" THEN a.confidence < b.confidence ELSE a.confidence > b.confidence
    \/ a.confidence = b.confidence /\ LabelBefore(a.label, b.label)

\* The answers possible for a set of nodes: nodes the order does not tell
\* apart come as the hash map has them.
order_and_limit(ids, q, g) ==
    LET sorted == {s \in SetToSeqs(ids) :
                     \A i, j \in DOMAIN s : i < j => ~Precedes(q, g.nodes[s[j]], g.nodes[s[i]])}
    IN  {IF q.limit = None THEN s ELSE SubSeq(s, 1, Least(q.limit, Len(s))) : s \in sorted}

\* The possible results, as ids.
execute(q, g) ==
    [primary |-> order_and_limit(PrimaryNodes(q, g), q, g),
     related |-> order_and_limit(RelatedNodes(q, g), q, g)]
=============================================================================
