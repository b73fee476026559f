----------------------------- MODULE SharedGraph -----------------------------
(***************************************************************************)
(* What `GraphStore::update` promises of a session's graph: each writer's   *)
(* mutation is applied atomically, at most once, on top of every mutation   *)
(* applied before it, and a writer that returned Ok had it applied.  A      *)
(* reader sees the graph between two mutations.                             *)
(***************************************************************************)
CONSTANT Writer

VARIABLES
    graph,         \* the writers whose mutation the graph file holds
    returned       \* the writers that returned Ok

vars == <<graph, returned>>

Init == graph = {} /\ returned = {}

Apply(w) ==
    /\ w \notin graph
    /\ graph' = graph \cup {w}
    /\ UNCHANGED returned

Return(w) ==
    /\ w \in graph
    /\ returned' = returned \cup {w}
    /\ UNCHANGED graph

Next == \E w \in Writer : Apply(w) \/ Return(w)

Spec == Init /\ [][Next]_vars
==============================================================================
