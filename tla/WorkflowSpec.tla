---------------------------- MODULE WorkflowSpec ----------------------------
(***************************************************************************)
(* What running a workflow promises, without scheduler, retries, events or  *)
(* threads: steps complete one at a time, each after its dependencies; the  *)
(* workflow is announced complete only when every step is; it may fail at   *)
(* any time, and nothing happens after either end.                          *)
(***************************************************************************)
CONSTANTS Workflow, Task

VARIABLES
    deps,          \* deps[w][t]: the tasks t of workflow w waits for
    done,          \* done[w]: the completed tasks of w
    status         \* status[w]: running, ok (announced complete) or err

vars == <<deps, done, status>>

Init ==
    /\ deps \in [Workflow -> [Task -> SUBSET Task]]
    /\ done = [w \in Workflow |-> {}]
    /\ status = [w \in Workflow |-> "running"]

CompleteStep(w, t) ==
    /\ status[w] = "running"
    /\ t \notin done[w]
    /\ deps[w][t] \subseteq done[w]
    /\ done' = [done EXCEPT ![w] = @ \cup {t}]
    /\ UNCHANGED <<deps, status>>

Finish(w) ==
    /\ status[w] = "running"
    /\ done[w] = Task
    /\ status' = [status EXCEPT ![w] = "ok"]
    /\ UNCHANGED <<deps, done>>

Fail(w) ==
    /\ status[w] = "running"
    /\ status' = [status EXCEPT ![w] = "err"]
    /\ UNCHANGED <<deps, done>>

Next == \E w \in Workflow : \/ \E t \in Task : CompleteStep(w, t)
                            \/ Finish(w)
                            \/ Fail(w)

Spec == Init /\ [][Next]_vars
==============================================================================
