------------------------------- MODULE Checks -------------------------------
(***************************************************************************)
(* The built-in checks of the verifier (verifier/src/lib.rs).  A verdict is  *)
(* "pass", "fail" or "skip"; positions are those of the characters.          *)
(***************************************************************************)
EXTENDS TextUnits

CONSTANTS
    Forbidden,       \* the patterns of the security policy, in lower case
    Thresholds       \* max_run, min_tokens and min_diversity (percent)

Value == [c \in {"0", "1", "2", "3", "4", "5", "6", "7", "8", "9"} |->
            CHOOSE n \in 0 .. 9 : c = <<"0", "1", "2", "3", "4", "5", "6", "7", "8", "9">>[n + 1]]
Digit == DOMAIN Value

\* The character at a position, "end" outside.
Byte(s, i) == IF i \in DOMAIN s THEN s[i] ELSE "end"

is_ok(verdict) == verdict # "fail"

NonEmptyCheck(s) == IF trim(s) = <<>> THEN "fail" ELSE "pass"

-----------------------------------------------------------------------------
(* JSON balance: a stack of the closers that are due, outside strings.     *)

Closer == ("{" :> "}") @@ ("[" :> "]")

JsonStep(st, ch) ==
    IF st.in_string
    THEN [st EXCEPT !.escaped = ~st.escaped /\ ch = "\\", !.in_string = st.escaped \/ ch # "\""]
    ELSE CASE ch = "\"" -> [st EXCEPT !.in_string = TRUE]
           [] ch \in DOMAIN Closer -> [st EXCEPT !.expected = Append(@, Closer[ch])]
           [] ch \in {"}", "]"} -> IF st.expected = <<>> \/ Last(st.expected) # ch THEN [st EXCEPT !.bad = TRUE]
                                   ELSE [st EXCEPT !.expected = Front(@)]
           [] OTHER -> st

JsonEnd(t) ==
    FoldLeft(LAMBDA st, ch : IF st.bad THEN st ELSE JsonStep(st, ch),
             [expected |-> <<>>, in_string |-> FALSE, escaped |-> FALSE, bad |-> FALSE], t)

JsonBalance(t) ==
    LET balanced(end) == ~end.bad /\ end.expected = <<>>
    IN  IF Byte(t, 1) \notin DOMAIN Closer THEN "skip" ELSE IF balanced(JsonEnd(t)) THEN "pass" ELSE "fail"

JsonBalanceCheck(s) == JsonBalance(trim(s))

-----------------------------------------------------------------------------
(* Citations.                                                              *)

ends_token(c) == c \in (Letter \ Continua) \cup {"_", "]", ")"}

\* The end of the digits that begin at i.
DigitsEnd(s, i) == Min({j \in i .. Len(s) + 1 : Byte(s, j) \notin Digit})

NumberAt(s, i) ==
    FoldLeft(LAMBDA n, c : 10 * n + Value[c], 0, SubSeq(s, i, DigitsEnd(s, i) - 1))

\* Where a marker [n] begins that is no subscript.
MarkerAt(s, i) ==
    LET closes(j) == j > i + 1 /\ Byte(s, j) = "]"
    IN  Byte(s, i) = "[" /\ ~ends_token(Byte(s, i - 1)) /\ closes(DigitsEnd(s, i + 1))

Markers(s) == {i \in DOMAIN s : MarkerAt(s, i)}

citation_markers(s) == {NumberAt(s, i + 1) : i \in Markers(s)}

\* A line that begins with a bracket defines its first marker.
Defined(line) ==
    LET first(t, at) == IF Byte(t, 1) = "[" /\ at # {} THEN {NumberAt(t, Min(at) + 1)} ELSE {}
        trimmed(t) == first(t, Markers(t))
    IN  trimmed(trim_start(line))

CitationCheck(s) ==
    LET defined == UNION {Defined(l) : l \in Range(Runs(s, LAMBDA c : c # "\n"))}
        verdict(cited) == IF cited = {} THEN "skip" ELSE IF cited \subseteq defined THEN "pass" ELSE "fail"
    IN  verdict(citation_markers(s))

-----------------------------------------------------------------------------
(* Arithmetic.  A parse gives the value and the position after it.         *)

NoOperand == [ok |-> FALSE, val |-> 0, end |-> 0]

parse_uint(s, i) ==
    IF Byte(s, i) \notin Digit THEN NoOperand
    ELSE [ok |-> TRUE, val |-> NumberAt(s, i), end |-> DigitsEnd(s, i)]

\* No part of a number with separators.
parse_operand(s, i) ==
    LET whole(n) == IF \/ ~n.ok
                       \/ Byte(s, i - 1) \in Digit \cup {",", "."}
                       \/ Byte(s, n.end) \in {",", "."} /\ Byte(s, n.end + 1) \in Digit
                    THEN NoOperand ELSE n
    IN  whole(parse_uint(s, i))

skip_spaces(s, i) == Min({j \in i .. Len(s) + 1 : Byte(s, j) # " "} \cup {Len(s) + 2})

Operator == {"+", "-", "*", "/"}

continues_with_operator(s, i) ==
    LET j == skip_spaces(s, i)
    IN  Byte(s, j) \in Operator /\ Byte(s, skip_spaces(s, j + 1)) \in Digit

\* The value of a op b; no division that leaves a rest.
Evaluable(a, op, b) == op # "/" \/ (b # 0 /\ a % b = 0)
Apply(a, op, b) == CASE op = "+" -> a + b [] op = "-" -> a - b [] op = "*" -> a * b [] op = "/" -> a \div b

\* An equation is "none", "right" or "wrong".  It is read from left to right;
\* each of the operators below has read one part more than the one after it.
Judge(s, a, op, b, neg, c) ==
    IF ~c.ok \/ continues_with_operator(s, c.end) \/ ~Evaluable(a.val, op, b.val) THEN "none"
    ELSE IF Apply(a.val, op, b.val) = (IF neg THEN -c.val ELSE c.val) THEN "right" ELSE "wrong"

AfterEquals(s, a, op, b, r) ==
    LET neg == Byte(s, r) = "-" IN Judge(s, a, op, b, neg, parse_operand(s, IF neg THEN r + 1 ELSE r))

AfterRight(s, a, op, b, e) ==
    IF b.ok /\ Byte(s, e) = "=" THEN AfterEquals(s, a, op, b, skip_spaces(s, e + 1)) ELSE "none"

AfterOperator(s, a, op, b) == AfterRight(s, a, op, b, skip_spaces(s, b.end))

AfterLeft(s, a, o) ==
    IF a.ok /\ Byte(s, o) \in Operator
    THEN AfterOperator(s, a, s[o], parse_operand(s, skip_spaces(s, o + 1))) ELSE "none"

\* The equation at i.
match_equation(s, i) ==
    LET left(a) == AfterLeft(s, a, skip_spaces(s, a.end)) IN left(parse_operand(s, i))

\* A digit that begins a token and follows no operator.
StartsEquation(s, i) ==
    LET before == Max({0} \cup {j \in 1 .. i - 1 : s[j] # " "})
    IN  /\ Byte(s, i) \in Digit /\ Byte(s, i - 1) \notin Letter \ Continua
        /\ Byte(s, before) \notin Operator

ArithmeticCheck(s) ==
    LET verdict(found) == IF "wrong" \in found THEN "fail" ELSE IF "right" \in found THEN "pass" ELSE "skip"
    IN  verdict({match_equation(s, i) : i \in {j \in DOMAIN s : StartsEquation(s, j)}})

-----------------------------------------------------------------------------
(* Content and repetition.                                                 *)

Occurs(t, s) == \E i \in 0 .. Len(s) - Len(t) : SubSeq(s, i + 1, i + Len(t)) = t

ForbiddenContentCheck(s) == IF \E p \in Forbidden : Occurs(p, lowercase(s)) THEN "fail" ELSE "pass"

\* A token without the punctuation around it.
norm_token(t) ==
    LET in == At(t, LAMBDA c : c \in Letter)
    IN  IF in = {} THEN <<>> ELSE lowercase(SubSeq(t, Min(in), Max(in)))

Repetitive(words) ==
    LET n == Len(words)
    IN  \/ \E i \in 1 .. n - Thresholds.max_run : \A j \in 1 .. Thresholds.max_run : words[i + j] = words[i]
        \/ n >= Thresholds.min_tokens /\ 100 * Cardinality(Range(words)) < Thresholds.min_diversity * n

RepetitionCheck(s) ==
    LET verdict(words) == IF words = <<>> THEN "skip" ELSE IF Repetitive(words) THEN "fail" ELSE "pass"
    IN  verdict(SelectSeq(MapSeq(norm_token, split_whitespace(s)), LAMBDA t : t # <<>>))

-----------------------------------------------------------------------------
(* The verifier.                                                           *)

\* `Verifier::builtin` in its order.
verify(s) ==
    <<[name |-> "non_empty", verdict |-> NonEmptyCheck(s)],
      [name |-> "repetition", verdict |-> RepetitionCheck(s)],
      [name |-> "arithmetic", verdict |-> ArithmeticCheck(s)],
      [name |-> "json_balance", verdict |-> JsonBalanceCheck(s)],
      [name |-> "citations", verdict |-> CitationCheck(s)],
      [name |-> "security_policy", verdict |-> ForbiddenContentCheck(s)]>>

failures(report) == SelectSeq(report, LAMBDA r : ~is_ok(r.verdict))

passed(report) == failures(report) = <<>>
=============================================================================
