----------------------------- MODULE Decisions -----------------------------
(***************************************************************************)
(* What decides without state: the heuristic planner (planner/src/lib.rs),   *)
(* workflow definitions and their execution order (workflow/src/lib.rs),     *)
(* reflections and their consensus (sdk/src/reflection.rs), and telemetry's  *)
(* aggregates (kernel/src/telemetry.rs).  A DAG is a sequence of steps whose *)
(* dependencies are positions in it, in the order given, doubled or not.     *)
(***************************************************************************)
EXTENDS Lists, SequencesExt, FiniteSetsExt

-----------------------------------------------------------------------------
(* Workflows.                                                              *)

Step(name, capability, deps) == [name |-> name, capability |-> capability, deps |-> deps]

add_step(dag, step) == Append(dag, step)

Positions(dag, name) == {i \in DOMAIN dag : dag[i].name = name}

\* One line of a definition: a comment, the name, a step or something else.
\* A dependency must be a step above; an empty one is skipped.
DefinitionLine(st, line) ==
    LET deps == Kept(line.deps, Range(line.deps) \ {""})
    IN  CASE ~st.ok \/ line.form \in {"blank", "name"} -> st
          [] st.ok /\ line.form = "step" ->
               IF \/ line.name = "" \/ line.capability = ""
                  \/ \E i \in DOMAIN deps : Positions(st.dag, deps[i]) = {}
                  \/ Positions(st.dag, line.name) # {}
               THEN [st EXCEPT !.ok = FALSE]
               ELSE [st EXCEPT !.dag = add_step(@, Step(line.name, line.capability,
                       [i \in DOMAIN deps |-> CHOOSE p \in Positions(st.dag, deps[i]) : TRUE]))]
          [] OTHER -> [st EXCEPT !.ok = FALSE]

\* An error, or the DAG of the definition; without steps it is an error.
from_definition(lines) ==
    LET read[n \in 0 .. Len(lines)] ==
            IF n = 0 THEN [ok |-> TRUE, dag |-> <<>>] ELSE DefinitionLine(read[n - 1], lines[n])
        end == read[Len(lines)]
    IN  [end EXCEPT !.ok = @ /\ end.dag # <<>>]

\* How often step i depends on step d.
Indegree(dag, i) == Len(dag[i].deps)
Times(dag, i, d) == Cardinality({k \in DOMAIN dag[i].deps : dag[i].deps[k] = d})

\* The steps of S in the order of the DAG.
InOrder(dag, S) == Kept([i \in DOMAIN dag |-> i], S)

\* Mutant: a dependency given twice is counted twice and released once.
pop_once(dag, st) ==
    LET node  == Last(st.ready)
        left  == [i \in DOMAIN dag |-> IF Times(dag, i, node) > 0 THEN st.indegree[i] - 1 ELSE st.indegree[i]]
        freed == {i \in DOMAIN dag : Times(dag, i, node) > 0 /\ left[i] = 0}
    IN  [order |-> Append(st.order, node), ready |-> Front(st.ready) \o InOrder(dag, freed), indegree |-> left]

\* One node leaves the stack `ready`; the steps that wait for nothing more are
\* pushed, in the order of the steps.
Pop(dag, st) ==
    LET node  == Last(st.ready)
        left  == [i \in DOMAIN dag |-> st.indegree[i] - Times(dag, i, node)]
        freed == {i \in DOMAIN dag : Times(dag, i, node) > 0 /\ left[i] = 0}
    IN  [order |-> Append(st.order, node), ready |-> Front(st.ready) \o InOrder(dag, freed), indegree |-> left]

\* A turn of the loop, that ends when the stack is empty.
Advance(dag, st) == IF st.ready = <<>> THEN st ELSE Pop(dag, st)

Foreign(dag) == \E i \in DOMAIN dag : \E k \in DOMAIN dag[i].deps : dag[i].deps[k] \notin DOMAIN dag

\* The order after as many turns as there are steps: each pop puts one in it.
Ordered(dag) ==
    LET turn[n \in 0 .. Len(dag)] ==
            IF n = 0
            THEN [order |-> <<>>, indegree |-> [i \in DOMAIN dag |-> Indegree(dag, i)],
                  ready |-> InOrder(dag, {i \in DOMAIN dag : Indegree(dag, i) = 0})]
            ELSE Advance(dag, turn[n - 1])
    IN  turn[Len(dag)].order

\* The empty sequence for None: a foreign reference or a cycle.
topological_order(dag) ==
    IF Foreign(dag) \/ Len(Ordered(dag)) # Len(dag) THEN <<>> ELSE Ordered(dag)

\* What is asked of an order: every step once, each after its dependencies.
Legal(dag, order) ==
    /\ Range(order) = DOMAIN dag /\ IsInjective(order)
    /\ \A i \in DOMAIN order : Range(dag[order[i]].deps) \subseteq {order[j] : j \in 1 .. i - 1}

Runnable(dag) == \E s \in SetToSeqs(DOMAIN dag) : Legal(dag, s)

OrderIsRight(dag) ==
    IF Runnable(dag) THEN Legal(dag, topological_order(dag)) ELSE topological_order(dag) = <<>>

-----------------------------------------------------------------------------
(* The planner.  An intent is the set of the keyword groups it mentions.   *)

\* The first group mentioned.
classify_intent(intent) ==
    CASE "research" \in intent -> "Research"
      [] "research" \notin intent /\ "coding" \in intent -> "Coding"
      [] intent \cap {"research", "coding"} = {} /\ "translation" \in intent -> "Translation"
      [] intent \cap {"research", "coding", "translation"} = {} /\ "question" \in intent -> "Question"
      [] OTHER -> "Generic"

Pipeline(capabilities) ==
    [i \in DOMAIN capabilities |-> Step(i, capabilities[i], IF i = 1 THEN <<>> ELSE <<i - 1>>)]

decompose(intent) ==
    Pipeline(CASE classify_intent(intent) = "Research" ->
                    <<"retrieval", "embedding", "reasoning", "verification", "reasoning">>
               [] classify_intent(intent) = "Coding" -> <<"planning", "coding", "verification">>
               [] classify_intent(intent) = "Translation" -> <<"translation">>
               [] classify_intent(intent) = "Question" -> <<"retrieval", "reasoning">>
               [] OTHER -> <<"reasoning">>)

\* The subtasks become steps; a dependency on a later one is dropped.
plan(subtasks) ==
    [i \in DOMAIN subtasks |-> [subtasks[i] EXCEPT !.deps = Kept(@, 1 .. i - 1)]]

-----------------------------------------------------------------------------
(* Reflection.                                                             *)

reflect(result) ==
    CASE ~result.verified -> [score |-> 20, hint |-> "regenerate"]
      [] result.verified /\ result.empty -> [score |-> 40, hint |-> "tighten"]
      [] result.verified /\ ~result.empty /\ ~result.agent -> [score |-> 70, hint |-> "register"]
      [] OTHER -> [score |-> 95, hint |-> "accepted"]

Sum(s) == FoldLeft(+, 0, s)

Weight(rs, hint) == Sum([i \in DOMAIN rs |-> IF rs[i].hint = hint THEN rs[i].score + 1 ELSE 0])

\* The first of the strongest hints.
Strongest(rs, hints) ==
    FoldLeft(LAMBDA best, h : IF Weight(rs, h) > Weight(rs, best) THEN h ELSE best, hints[1], hints)

\* The mean score, the hints in the order first seen, the one with most weight
\* and its percentage.
consensus(rs) ==
    IF rs = <<>> THEN [score |-> 0, hints |-> <<>>, majority |-> "none", agreement |-> 0]
    ELSE LET mean  == Sum([i \in DOMAIN rs |-> rs[i].score]) \div Len(rs)
             hints == FoldLeft(LAMBDA hs, r : IF r.hint \in Range(hs) THEN hs ELSE Append(hs, r.hint), <<>>, rs)
             best  == Strongest(rs, hints)
             total == Sum([i \in DOMAIN rs |-> rs[i].score + 1])
         IN  [score |-> IF mean > 100 THEN 100 ELSE mean, hints |-> hints, majority |-> best,
              agreement |-> (100 * Weight(rs, best)) \div total]

-----------------------------------------------------------------------------
(* Telemetry: the latest `max` samples; -1 where there is nothing to say.  *)

record(samples, sample, max) ==
    LET all == Append(samples, sample)
    IN  IF Len(all) > max THEN SubSeq(all, Len(all) - max + 1, Len(all)) ELSE all

total_tokens(samples) == Sum([i \in DOMAIN samples |-> samples[i].tokens])
total_ns(samples) == Sum([i \in DOMAIN samples |-> samples[i].ns])

tokens_per_sec(sample) == IF sample.ns = 0 THEN -1 ELSE sample.tokens \div sample.ns

mean_latency(samples) == IF samples = <<>> THEN -1 ELSE total_ns(samples) \div Len(samples)

mean_latency_ns_for(samples, runtime) ==
    mean_latency(SelectSeq(samples, LAMBDA s : s.runtime = runtime))

mean_tokens_per_sec(samples) ==
    IF total_ns(samples) = 0 THEN -1 ELSE total_tokens(samples) \div total_ns(samples)
=============================================================================
