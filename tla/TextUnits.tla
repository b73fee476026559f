------------------------------ MODULE TextUnits ------------------------------
(***************************************************************************)
(* Texts cut into units: index terms (memory/src/embedding.rs), the S-stemmer *)
(* (sdk/src/retrieval.rs), chunks (memory/src/chunk.rs) and summaries and    *)
(* keywords (memory/src/maintenance.rs).  A text is a sequence of            *)
(* characters; of a character the code tells its class.                      *)
(***************************************************************************)
EXTENDS Integers, Sequences, SequencesExt, FiniteSetsExt

CONSTANTS
    Letter,          \* alphanumeric characters
    Continua,        \* those of them in scripts written without spaces
    Katakana,        \* those of them in katakana
    Small,           \* Small[c]: the character in lower case
    Code,            \* Code[c]: the place of a character in the byte order
    KeywordStop      \* STOP: words that are no keywords

Whitespace == {" ", "\n", "\r"}
Terminator == {".", "!", "?"}

lowercase(s) == [i \in DOMAIN s |-> IF s[i] \in DOMAIN Small THEN Small[s[i]] ELSE s[i]]

At(s, P(_)) == {i \in DOMAIN s : P(s[i])}
Ink(s) == At(s, LAMBDA c : c \notin Whitespace)

trim_start(s) == SubSeq(s, Min(Ink(s) \cup {Len(s) + 1}), Len(s))
trim_end(s) == SubSeq(s, 1, Max(Ink(s) \cup {0}))
trim(s) == trim_end(trim_start(s))

Prefix(s, n) == SubSeq(s, 1, IF n < Len(s) THEN n ELSE Len(s))

MapSeq(f(_), s) == [i \in DOMAIN s |-> f(s[i])]
FlatMap(f(_), s) == FoldLeft(LAMBDA out, x : out \o f(x), <<>>, s)

AppendNonempty(out, x) == IF x = <<>> THEN out ELSE Append(out, x)

\* The nonempty maximal runs of characters with P.
Runs(s, P(_)) ==
    LET flush(acc) == [out |-> AppendNonempty(acc.out, acc.run), run |-> <<>>]
        step(acc, c) == IF P(c) THEN [acc EXCEPT !.run = Append(@, c)] ELSE flush(acc)
    IN  flush(FoldLeft(step, [out |-> <<>>, run |-> <<>>], s)).out

alphanumeric_runs(s) == Runs(s, LAMBDA c : c \in Letter)
split_whitespace(s) == Runs(s, LAMBDA c : c \notin Whitespace)

-----------------------------------------------------------------------------
(* Terms.                                                                  *)

\* Every character and every pair of neighbours of a run without spaces.
Grams(run) ==
    FlattenSeq([i \in DOMAIN run |->
        IF i < Len(run) THEN <<<<run[i]>>, <<run[i], run[i + 1]>>>> ELSE <<<<run[i]>>>>])

\* A run is cut where the kind of script changes.
Stretches(run) ==
    FoldLeft(LAMBDA out, c : IF out # <<>> /\ (Last(out)[1] \in Continua) = (c \in Continua)
                             THEN [out EXCEPT ![Len(out)] = Append(@, c)] ELSE Append(out, <<c>>),
             <<>>, run)

TermsOfRun(run) ==
    FlatMap(LAMBDA s : IF s[1] \in Continua THEN Grams(s) ELSE <<lowercase(s)>>, Stretches(run))

terms_of(text) == FlatMap(TermsOfRun, alphanumeric_runs(text))

AllContinua(w) == \A i \in DOMAIN w : w[i] \in Continua

\* One letter is no word, unless it is a whole word of its script.
IsTerm(t) == Len(t) > 1 \/ AllContinua(t)

index_tokens(text) == SelectSeq(terms_of(text), IsTerm)

\* Plural forms only, the first rule whose suffix fits deciding alone.
s_stem(w) ==
    LET last(k) == IF k < Len(w) THEN w[Len(w) - k] ELSE "none"
        but(n)  == SubSeq(w, 1, Len(w) - n)
    IN  CASE last(0) # "s" -> w
          [] last(0) = "s" /\ last(1) = "e" /\ last(2) = "i" -> IF last(3) \in {"e", "a"} THEN w ELSE Append(but(3), "y")
          [] last(0) = "s" /\ last(1) = "e" /\ last(2) # "i" -> IF last(2) \in {"a", "e", "o"} THEN w ELSE but(1)
          [] last(0) = "s" /\ last(1) # "e" -> IF last(1) \in {"u", "s"} THEN w ELSE but(1)

\* The terms of the keyword leg.
tokens(text) == SelectSeq(MapSeq(LAMBDA t : IF AllContinua(t) THEN t ELSE s_stem(t), terms_of(text)), IsTerm)

-----------------------------------------------------------------------------
(* Chunks.                                                                 *)

Nonblank(ss) == SelectSeq(ss, LAMBDA s : trim(s) # <<>>)

\* Cut at every "\n\n", from the left.
paragraphs(text) ==
    LET step(acc, c) == IF c = "\n" /\ acc.cur # <<>> /\ Last(acc.cur) = "\n"
                        THEN [out |-> Append(acc.out, Front(acc.cur)), cur |-> <<>>]
                        ELSE [acc EXCEPT !.cur = Append(@, c)]
        parts(acc) == Append(acc.out, acc.cur)
    IN  Nonblank(MapSeq(trim, parts(FoldLeft(step, [out |-> <<>>, cur |-> <<>>], text))))

\* `chars.chunks(n)`.
Windows(s, n) == [i \in 1 .. (Len(s) + n - 1) \div n |->
                    SubSeq(s, (i - 1) * n + 1, IF i * n < Len(s) THEN i * n ELSE Len(s))]

fixed(text, n) == Nonblank(Windows(text, n))

Flush(acc) == [out |-> AppendNonempty(acc.out, trim(acc.buf)), buf |-> <<>>]

Glue(acc, glue, unit) == [acc EXCEPT !.buf = (IF @ = <<>> THEN <<>> ELSE @ \o glue) \o unit]

sentences(text) ==
    LET step(acc, c) == IF c \in Terminator THEN Flush(Glue(acc, <<>>, <<c>>)) ELSE Glue(acc, <<>>, <<c>>)
    IN  Flush(FoldLeft(step, [out |-> <<>>, buf |-> <<>>], text)).out

\* Mutant: the glue is not counted against the target.
pack_tight(acc, unit, glue, spare, target) ==
    Glue(IF acc.buf # <<>> /\ Len(acc.buf) + Len(unit) > target THEN Flush(acc) ELSE acc, glue, unit)

\* A unit joins the buffer, which is emptied first if they exceed the target.
\* `spare` is what the code counts for the glue: nothing when it packs
\* paragraphs and sentences, one when it packs words and atoms.
Pack(acc, unit, glue, spare, target) ==
    Glue(IF acc.buf # <<>> /\ Len(acc.buf) + spare + Len(unit) > target THEN Flush(acc) ELSE acc, glue, unit)

PackAll(units, glue, spare, target, out) ==
    FoldLeft(LAMBDA acc, u : Pack(acc, u, glue, spare, target), [out |-> out, buf |-> <<>>], units)

adaptive(text, target) ==
    LET step(acc, para) ==
          IF Len(para) > target
          THEN Flush(PackAll(sentences(para), <<" ">>, 0, target, Flush(acc).out))
          ELSE Pack(acc, para, <<"\n", "\n">>, 0, target)
    IN  Flush(FoldLeft(step, [out |-> <<>>, buf |-> <<>>], paragraphs(text))).out

hard_split(token, target) == Windows(token, target)

\* A sentence too long is packed from its words, a word too long is cut.
WordAtoms(sent, target) ==
    LET step(acc, w) == IF Len(w) > target
                        THEN [out |-> Flush(acc).out \o hard_split(w, target), buf |-> <<>>]
                        ELSE Pack(acc, w, <<" ">>, 1, target)
    IN  Flush(FoldLeft(step, [out |-> <<>>, buf |-> <<>>], split_whitespace(sent))).out

SentenceAtoms(para, target) ==
    FlatMap(LAMBDA t : IF Len(t) <= target THEN <<t>> ELSE WordAtoms(t, target), sentences(para))

atomize(text, target) ==
    FlatMap(LAMBDA p : IF Len(p) <= target THEN <<p>> ELSE SentenceAtoms(p, target), paragraphs(text))

recursive(text, target) == Flush(PackAll(atomize(text, target), <<" ">>, 1, target, <<>>)).out

chunk(text, strategy, n) ==
    LET size == IF n < 1 THEN 1 ELSE n
    IN  CASE strategy = "paragraph" -> paragraphs(text)
          [] strategy = "fixed"     -> fixed(text, size)
          [] strategy = "adaptive"  -> adaptive(text, size)
          [] strategy = "recursive" -> recursive(text, size)

\* Where the overlap begins that wants to begin after `start` characters: at
\* the beginning of the word it falls into unless that is more than `overlap`
\* further back, else after that word unless nothing follows.
overlap_start(prev, start, overlap) ==
    LET inWord(i) == prev[i] \in Letter
        breaks == {b \in 0 .. start : b = 0 \/ ~inWord(b)}
        back   == Max(breaks)
        after  == {f \in start .. Len(prev) - 1 : ~inWord(f + 1)}
    IN  CASE start = 0 \/ ~inWord(start) -> start
          [] start # 0 /\ inWord(start) /\ start - back <= overlap -> back
          [] OTHER -> IF after = {} THEN start ELSE Min(after)

\* The overlap taken from the end of a chunk.
Overlap(prev, overlap) ==
    LET take == IF overlap < Len(prev) THEN overlap ELSE Len(prev)
    IN  trim_start(SubSeq(prev, overlap_start(prev, Len(prev) - take, overlap) + 1, Len(prev)))

Overlapping(base, overlap) ==
    LET before(tail, this) == IF tail = <<>> THEN this ELSE tail \o <<" ">> \o this
    IN  IF overlap = 0 THEN base
        ELSE [i \in DOMAIN base |-> before(IF i = 1 THEN <<>> ELSE Overlap(base[i - 1], overlap), base[i])]

chunk_with_overlap(text, strategy, n, overlap) == Overlapping(chunk(text, strategy, n), overlap)

-----------------------------------------------------------------------------
(* Summaries and keywords.                                                 *)

\* Cut after the last sentence that ends in the second half.
Abridged(s, max) ==
    LET last == Max({0} \cup {i \in 1 .. max : s[i] \in Terminator})
    IN  Append(trim_end(SubSeq(s, 1, IF last > 0 /\ last >= max \div 2 THEN last ELSE max)), "ellipsis")

ShortOrAbridged(s, max) == IF Len(s) <= max THEN s ELSE Abridged(s, max)

summarize_text(text, max) == ShortOrAbridged(trim(text), max)

katakana_runs(run) == SelectSeq(Runs(run, LAMBDA c : c \in Katakana), LAMBDA r : Len(r) >= 2)

\* The words of a text that may be keywords, with repetitions.
Candidates(text) ==
    LET of(r) == IF \E i \in DOMAIN r : r[i] \in Continua THEN katakana_runs(r)
                 ELSE IF Len(r) >= 4 /\ lowercase(r) \notin KeywordStop THEN <<lowercase(r)>> ELSE <<>>
    IN  FlatMap(of, alphanumeric_runs(text))

Occurrences(s, x) == Cardinality({i \in DOMAIN s : s[i] = x})

\* The byte order of two strings.
Before(a, b) ==
    LET n == Min({Len(a), Len(b)})
    IN  \E i \in 1 .. n + 1 :
          /\ SubSeq(a, 1, i - 1) = SubSeq(b, 1, i - 1)
          /\ IF i > n THEN Len(a) < Len(b) ELSE Code[a[i]] < Code[b[i]]

\* By frequency, ties by spelling.
MostFrequent(words, n) ==
    Prefix(SetToSortSeq(Range(words), LAMBDA a, b :
             \/ Occurrences(words, a) > Occurrences(words, b)
             \/ Occurrences(words, a) = Occurrences(words, b) /\ Before(a, b)), n)

keywords(text, n) == MostFrequent(Candidates(text), n)

\* A long body once becomes its summary, with its length and keywords.
compress_document(doc, max) ==
    IF doc.compressed \/ Len(doc.body) <= max THEN doc
    ELSE [body |-> summarize_text(doc.body, max), compressed |-> TRUE,
          original_len |-> Len(doc.body), concepts |-> keywords(doc.body, 5)]
=============================================================================
