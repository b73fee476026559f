------------------------------- MODULE Codec -------------------------------
(***************************************************************************)
(* What is written and read back, character by character where the          *)
(* delimiters are: documents (memory/src/file_store.rs), graphs              *)
(* (graph/src/store.rs), JSON strings (web/src/json.rs) and forms            *)
(* (web/src/http.rs).  A token whose text has no delimiter (a field name, a  *)
(* number, a kind) is one character.                                         *)
(***************************************************************************)
EXTENDS TextUnits, TLC

\* Each character replaced by what `by` gives for it.
Replace(s, by) == FlatMap(LAMBDA c : IF c \in DOMAIN by THEN by[c] ELSE <<c>>, s)

\* At the first occurrence of `sep`; `found` is FALSE if there is none.
split_once(s, sep) ==
    LET cut(at) == IF at = {} THEN [found |-> FALSE, left |-> s, right |-> <<>>]
                   ELSE [found |-> TRUE, left |-> SubSeq(s, 1, Min(at) - 1), right |-> SubSeq(s, Min(at) + Len(sep), Len(s))]
    IN  cut({i \in 1 .. Len(s) - Len(sep) + 1 : SubSeq(s, i, i + Len(sep) - 1) = sep})

\* At every occurrence of a character, empty parts included.
Split(s, c) ==
    FoldLeft(LAMBDA parts, x : IF x = c THEN Append(parts, <<>>)
                               ELSE [parts EXCEPT ![Len(parts)] = Append(@, x)], <<<<>>>>, s)

\* `str::lines`: without the line ends and without an empty last one.
Lines(s) ==
    LET whole(parts) == IF Last(parts) = <<>> THEN Front(parts) ELSE parts
    IN  MapSeq(LAMBDA l : IF l # <<>> /\ Last(l) = "\r" THEN Front(l) ELSE l, whole(Split(s, "\n")))

-----------------------------------------------------------------------------
(* Documents.                                                              *)

\* Mutant: a backslash is written as it is.
escape_newlines(s) == Replace(s, ("\n" :> <<"\\", "n">>) @@ ("\r" :> <<"\\", "r">>))

escape_header(s) ==
    Replace(s, ("\\" :> <<"\\", "\\">>) @@ ("\n" :> <<"\\", "n">>) @@ ("\r" :> <<"\\", "r">>))

escape_meta_key(s) ==
    Replace(s, ("\\" :> <<"\\", "\\">>) @@ ("\n" :> <<"\\", "n">>) @@ ("\r" :> <<"\\", "r">>)
               @@ (":" :> <<"\\", "c">>))

\* One character; a backslash waits for the next.
UnescapeStep(st, c) ==
    IF ~st.esc THEN IF c = "\\" THEN [st EXCEPT !.esc = TRUE] ELSE [st EXCEPT !.out = Append(@, c)]
    ELSE [esc |-> FALSE,
          out |-> st.out \o (CASE c = "n" -> <<"\n">> [] c = "r" -> <<"\r">> [] c = "c" -> <<":">>
                               [] c = "\\" -> <<"\\">> [] OTHER -> <<"\\", c>>)]

unescape_header(s) ==
    LET done(st) == IF st.esc THEN Append(st.out, "\\") ELSE st.out
    IN  done(FoldLeft(UnescapeStep, [esc |-> FALSE, out |-> <<>>], s))

header_line(key, value) == key \o <<":", " ">> \o escape_header(value) \o <<"\n">>

\* Parts with commas between them.
Commas(parts) == IF parts = <<>> THEN <<>> ELSE Tail(FlatMap(LAMBDA p : <<",">> \o p, parts))

\* The author is <<>> or a sequence of one text, the embedding <<>> or one of
\* one vector; confidence and a vector's components are one character each;
\* metadata is a function, written in the order of `keys`.
serialize(doc, keys) ==
    header_line(<<"doc_type">>, doc.doc_type) \o header_line(<<"title">>, doc.title)
    \o FlatMap(LAMBDA a : header_line(<<"author">>, a), doc.author)
    \o <<"confidence", ":", " ", doc.confidence, "\n">>
    \o FlatMap(LAMBDA v : <<"embedding", ":", " ">> \o Commas(MapSeq(LAMBDA c : <<c>>, v)) \o <<"\n">>, doc.embedding)
    \o FlatMap(LAMBDA k : header_line(<<"meta.">> \o escape_meta_key(k), doc.metadata[k]), keys)
    \o <<"\n">> \o doc.body

\* A vector with a component that is no number is no vector at all.
Components(text) ==
    LET vector(parts) == IF \E i \in DOMAIN parts : parts[i] \notin {<<c>> : c \in Letter} THEN <<>>
                         ELSE <<MapSeq(Head, parts)>>
    IN  vector(SelectSeq(Split(text, ","), LAMBDA x : x # <<>>))

\* A line cut at its first ": ".
HeaderField(doc, key, raw, val) ==
    CASE key = <<"doc_type">> -> [doc EXCEPT !.doc_type = val]
      [] key = <<"title">> -> [doc EXCEPT !.title = val]
      [] key = <<"author">> -> [doc EXCEPT !.author = <<val>>]
      [] key = <<"confidence">> -> [doc EXCEPT !.confidence = IF raw = <<>> THEN "0" ELSE raw[1]]
      [] key = <<"embedding">> -> [doc EXCEPT !.embedding = Components(raw)]
      [] key # <<>> /\ key[1] = "meta." -> [doc EXCEPT !.metadata = (unescape_header(Tail(key)) :> val) @@ @]
      [] OTHER -> doc

HeaderLine(doc, line) ==
    LET field(cut) == IF cut.found THEN HeaderField(doc, cut.left, cut.right, unescape_header(cut.right)) ELSE doc
    IN  field(split_once(line, <<":", " ">>))

deserialize(content) ==
    LET read(cut) == FoldLeft(HeaderLine,
                         [doc_type |-> <<>>, title |-> <<>>, author |-> <<>>, confidence |-> "0", embedding |-> <<>>,
                          metadata |-> <<>>, body |-> cut.right],
                         Lines(cut.left))
    IN  read(split_once(content, <<"\n", "\n">>))

\* What a search of a store without a limit finds.
StoreMatches(docs, doc_type, text) ==
    {d \in DOMAIN docs : /\ doc_type \in {<<>>, docs[d].doc_type}
                         /\ \/ split_once(lowercase(docs[d].title), lowercase(text)).found
                            \/ split_once(lowercase(docs[d].body), lowercase(text)).found}

-----------------------------------------------------------------------------
(* Graphs.  A date and a provenance are <<>> or a sequence of one text; a    *)
(* kind is the text of its variant, and the token of a confidence, a u8, is  *)
(* one character.                                                          *)

sanitize(s) == Replace(s, [c \in {"\t", "\n", "\r"} |-> <<" ">>])

as_token(kind) == lowercase(kind)
from_token(token) == lowercase(token)

unwrap_or_empty(optional) == FlattenSeq(optional)
non_empty(s) == IF s = <<>> THEN <<>> ELSE <<s>>

\* `parse::<u8>().unwrap_or(0)`.
parse_u8(s) ==
    LET read == {n \in 0 .. 255 : s = <<ToString(n)>>} IN IF read = {} THEN 0 ELSE CHOOSE n \in read : TRUE

Join(fields) == Append(Tail(FlatMap(LAMBDA f : <<"\t">> \o f, fields)), "\n")

NodeLine(n) ==
    Join(<<<<"N">>, sanitize(n.id), sanitize(as_token(n.kind)), <<ToString(n.confidence)>>,
           sanitize(unwrap_or_empty(n.date)), sanitize(unwrap_or_empty(n.provenance)), sanitize(n.label)>>)

EdgeLine(e) == Join(<<<<"E">>, sanitize(e.from), sanitize(e.to), sanitize(as_token(e.kind))>>)

\* The nodes and the edges are sequences in the order of their ids.
save(nodes, edges_) ==
    <<"#", "\n">> \o FlatMap(NodeLine, nodes) \o FlatMap(EdgeLine, edges_)

\* Lines of too few fields, comments and unknown ones are skipped; the label
\* is the rest.  A node of an id that was read before replaces it.
LoadFields(g, f) ==
    CASE f[1] = <<"N">> /\ Len(f) >= 7 ->
           LET confidence == parse_u8(f[4])
               node == [kind |-> from_token(f[3]), confidence |-> IF confidence < 100 THEN confidence ELSE 100,
                        date |-> non_empty(f[5]), provenance |-> non_empty(f[6]),
                        label |-> Front(Join(SubSeq(f, 7, Len(f))))]
           IN  [g EXCEPT !.nodes = (f[2] :> node) @@ @]
      [] f[1] = <<"E">> /\ Len(f) >= 4 ->
           [g EXCEPT !.edges = Append(@, [from |-> f[2], to |-> f[3], kind |-> from_token(f[4])])]
      [] OTHER -> g

LoadLine(g, line) == LoadFields(g, Split(line, "\t"))

\* The nodes by id, and the edges in the order they are connected in.
load(content) == FoldLeft(LoadLine, [nodes |-> <<>>, edges |-> <<>>], Lines(content))

-----------------------------------------------------------------------------
(* JSON values.                                                            *)

escape(s) ==
    <<"\"">> \o Replace(s, ("\"" :> <<"\\", "\"">>) @@ ("\\" :> <<"\\", "\\">>) @@ ("\n" :> <<"\\", "n">>)
                           @@ ("\r" :> <<"\\", "r">>) @@ ("\t" :> <<"\\", "t">>)
                           @@ ("nul" :> <<"\\", "u", "0", "0", "0", "0">>)) \o <<"\"">>

\* A value is [t |-> "null" | "atom" | "string" | "array" | "object", v |-> ...]; a
\* number that is not finite is null; an object is a sequence of pairs.
RECURSIVE render(_)
render(json) ==
    CASE json.t = "atom" -> IF json.v \in {"NaN", "inf"} THEN <<"null">> ELSE <<json.v>>
      [] json.t = "string" -> escape(json.v)
      [] json.t = "array" -> <<"[">> \o Commas(MapSeq(render, json.v)) \o <<"]">>
      [] json.t = "object" ->
           <<"{">> \o Commas(MapSeq(LAMBDA m : escape(m[1]) \o <<":">> \o render(m[2]), json.v)) \o <<"}">>
      [] OTHER -> <<"null">>

-----------------------------------------------------------------------------
(* Forms.  Byte[h] is the byte of two hex digits; the library's parser also *)
(* takes a plus sign for the first.                                        *)

Hex == <<"0", "1", "2", "3", "4", "5", "6", "7", "8", "9", "a", "b", "c", "d", "e", "f">>
HexValue(c) == CHOOSE n \in 0 .. 15 : Hex[n + 1] = c
from_str_radix(h) ==
    IF h[2] \notin Range(Hex) \/ h[1] \notin Range(Hex) \cup {"+"} THEN -1
    ELSE (IF h[1] = "+" THEN 0 ELSE 16 * HexValue(h[1])) + HexValue(h[2])

\* The characters of the bytes the forms at hand encode.
Ascii == (37 :> "%") @@ (38 :> "&") @@ (43 :> "+") @@ (61 :> "=") @@ (32 :> " ")
CharOf(byte) == IF byte \in DOMAIN Ascii THEN Ascii[byte] ELSE "other"

RECURSIVE percent_decode(_)
percent_decode(s) ==
    CASE s = <<>> -> <<>>
      [] s # <<>> /\ s[1] = "+" -> <<" ">> \o percent_decode(Tail(s))
      [] Len(s) >= 3 /\ s[1] = "%" /\ from_str_radix(SubSeq(s, 2, 3)) # -1 ->
           <<CharOf(from_str_radix(SubSeq(s, 2, 3)))>> \o percent_decode(SubSeq(s, 4, Len(s)))
      [] OTHER -> <<s[1]>> \o percent_decode(Tail(s))

\* Later pairs replace earlier ones of the same key.
parse_form(input) ==
    LET pair(cut) == percent_decode(cut.left) :> percent_decode(cut.right)
    IN  FoldLeft(LAMBDA m, p : pair(split_once(p, <<"=">>)) @@ m, <<>>,
                 SelectSeq(Split(input, "&"), LAMBDA p : p # <<>>))
=============================================================================
