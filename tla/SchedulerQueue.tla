--------------------------- MODULE SchedulerQueue ---------------------------
(***************************************************************************)
(* The data operations of the scheduler (scheduler/src/lib.rs): scoring a   *)
(* pending entry, and choosing and removing the one `dispatch_next` takes.  *)
(*                                                                         *)
(* Scores are f32 in the code.  Here a factor is counted in quarters        *)
(* (0 .. 4 for 0.0 .. 1.0) and a score in units of 1/400, in which every    *)
(* weight of the code is an integer.  A factor may be NaN or out of range,  *)
(* as the public fields of `ScoreFactors` allow.                            *)
(***************************************************************************)
EXTENDS TaskLifecycle, Integers, Sequences

CONSTANTS
    Task,          \* task ids
    AgingRate,     \* score gained per dispatch cycle waited (0.05 is 20)
    NaN            \* the f32 that compares false with everything

ASSUME AgingAssumption == AgingRate \in Nat
ASSUME NaNAssumption   == NaN \notin Int

FactorName == {"deadline", "importance", "cost_efficiency", "runtime_fit",
               "energy", "confidence"}

ScoreFactors == [FactorName -> Int \cup {NaN}]

DefaultFactors == [f \in FactorName |-> IF f = "deadline" THEN 0 ELSE 2]

One == 4                                \* the factor 1.0

\* `with_runtime_fit`: the fit is clamped to 0.0 ..= 1.0.
WithRuntimeFit(factors, fit) ==
    [factors EXCEPT !["runtime_fit"] = IF fit < 0 THEN 0 ELSE IF fit > One THEN One ELSE fit]

\* Mutant of Norm without the is_nan branch: `clamp` of a NaN is NaN.
NormKeepsNaN(v) == IF v = NaN THEN NaN ELSE IF v < 0 THEN 0 ELSE IF v > One THEN One ELSE v

\* Mutant of Norm without the upper clamp: a caller outbids every other task.
NormUnclamped(v) == IF v = NaN THEN 0 ELSE IF v < 0 THEN 0 ELSE v

\* `norm`: NaN becomes 0, everything else is clamped to 0.0 ..= 1.0.
Norm(v) == IF v = NaN THEN 0 ELSE IF v < 0 THEN 0 ELSE IF v > One THEN One ELSE v

BaseWeight(priority) ==
    CASE priority = "Low"      -> 0
      [] priority = "Normal"   -> 100
      [] priority = "High"     -> 200
      [] priority = "Critical" -> 400

\* `score`: NaN would propagate through the weighted sum.
Score(factors, priority) ==
    LET n == [f \in FactorName |-> Norm(factors[f])]
    IN  IF \E f \in FactorName : n[f] = NaN
        THEN NaN
        ELSE BaseWeight(priority) + 30 * n["deadline"] + 25 * n["importance"]
               + 15 * n["runtime_fit"] + 10 * n["confidence"]
               + 10 * n["cost_efficiency"] + 10 * n["energy"]

MaxScore == 800                         \* Critical, every factor 1.0

Pending == [task : Task, priority : Priority, factors : ScoreFactors, enqueued_at : Nat]

\* `submit_scored` pushes an entry stamped with the current cycle.
Enqueue(queue, task, priority, factors, now) ==
    Append(queue, [task |-> task, priority |-> priority,
                   factors |-> factors, enqueued_at |-> now])

\* Mutant of DependenciesMet: `any` for `all`.
AnyDependencyMet(deps, completed) == deps = {} \/ deps \cap completed # {}

DependenciesMet(deps, completed) == deps \subseteq completed

\* The positions of the queue whose dependencies are met; deps[t] is
\* `task.depends_on` of t.
ReadyAt(queue, deps, completed) ==
    {i \in DOMAIN queue : DependenciesMet(deps[queue[i].task], completed)}

\* Mutant of EffectiveScore without the aging term.
ScoreWithoutAging(p, now) == Score(p.factors, p.priority)

EffectiveScore(p, now) ==
    Score(p.factors, p.priority) + AgingRate * (now - p.enqueued_at)

\* What the scan of `dispatch_next` may stop at: no ready entry scores higher.
\* The scan keeps the first of equals.  Two entries with equal score computed
\* from different inputs may round either way in f32, so either may be kept.
BestAt(queue, deps, completed, now) ==
    LET ready == {i \in ReadyAt(queue, deps, completed) :
                     Score(queue[i].factors, queue[i].priority) # NaN}
        SameInputs(p, q) == /\ p.factors = q.factors
                            /\ p.priority = q.priority
                            /\ p.enqueued_at = q.enqueued_at
    IN  {i \in ready : \A j \in ready :
            \/ EffectiveScore(queue[i], now) > EffectiveScore(queue[j], now)
            \/ /\ EffectiveScore(queue[i], now) = EffectiveScore(queue[j], now)
               /\ SameInputs(queue[i], queue[j]) => i <= j}

\* `Vec::swap_remove`: the last entry takes the place of the removed one.
SwapRemove(queue, i) ==
    [k \in 1 .. (Len(queue) - 1) |-> IF k = i THEN queue[Len(queue)] ELSE queue[k]]
==============================================================================
