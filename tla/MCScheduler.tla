----------------------------- MODULE MCScheduler -----------------------------
(***************************************************************************)
(* The scheduler under a stream of Critical arrivals competing with a Low   *)
(* task, a task with dependencies and a task with a NaN factor.             *)
(***************************************************************************)
EXTENDS Scheduler

CONSTANTS low, crit, dep

MCDeps == [t \in Task |-> IF t = dep THEN {low} ELSE {}]

Worst == [f \in FactorName |-> IF f = "importance" THEN NaN ELSE -1]
Best  == [f \in FactorName |-> 7]

MCSubmissions ==
    { [task |-> low,  priority |-> "Low",      factors |-> Worst],
      [task |-> crit, priority |-> "Critical", factors |-> Best],
      [task |-> dep,  priority |-> "Normal",   factors |-> DefaultFactors] }
==============================================================================
