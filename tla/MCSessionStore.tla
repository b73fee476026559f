--------------------------- MODULE MCSessionStore ---------------------------
(***************************************************************************)
(* Instances of SessionStore for TLC.                                       *)
(***************************************************************************)
EXTENDS SessionStore, TLC

CONSTANTS r1, r2, x1, x2, g1, g2

\* Two texts with one summary, and the passages of a file.
Texts == {"long", "longer", "cut", "passage", "rest"}
Cut == [t \in Texts |-> IF t \in {"long", "longer"} THEN "cut" ELSE t]

Exec(t) == [text |-> t, confidence |-> 100, embedding |-> "good"]

\* Two runs with the same output.
RunRecords == [r \in Run |-> <<Exec("long")>>]

\* Between two indexings the file shrinks to one passage, or does not change.
ShrinkingFile == [x \in Index |-> IF x = x1 THEN <<"passage", "rest">> ELSE <<"passage">>]
SameFile == [x \in Index |-> <<"passage">>]

OldDoc(k, t) ==
    [kind |-> k, text |-> t, confidence |-> 100, seq |-> 0, embedding |-> "good",
     expires |-> FALSE, compressed |-> FALSE, by |-> NoProc]

\* A record of an earlier run, cut alike but longer; an older index of the file.
RecordedBefore == [i \in DocId |-> IF i = 1 THEN OldDoc("record", "longer") ELSE NoDoc]
IndexedBefore == [i \in DocId |-> IF i \in {1, 2} THEN OldDoc("chunk", "passage") ELSE NoDoc]
Empty == [i \in DocId |-> NoDoc]

\* The two recorders persist the same.
Recorders == Permutations(Run)

NoMinimum == [g \in Gc |-> 0]
Minimum == [g \in Gc |-> IF g = g2 THEN 50 ELSE 0]
=============================================================================
