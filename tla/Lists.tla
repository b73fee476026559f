------------------------------- MODULE Lists -------------------------------
(***************************************************************************)
(* What graph and registries do to a list, as a function on its prefixes.    *)
(***************************************************************************)
EXTENDS Integers, Sequences

\* The elements of s that are in S, in their order (`retain`, `filter`).
Kept(s, S) ==
    LET kept[n \in 0 .. Len(s)] ==
            IF n = 0 THEN <<>>
            ELSE IF s[n] \in S THEN Append(kept[n - 1], s[n]) ELSE kept[n - 1]
    IN  kept[Len(s)]
=============================================================================
