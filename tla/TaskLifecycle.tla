---------------------------- MODULE TaskLifecycle ----------------------------
(***************************************************************************)
(* The kernel's task state machine (kernel/src/task.rs): the states, the   *)
(* edges `can_transition_to` permits, and what `transition_to` does to a   *)
(* task.  Every other module moves a task through these operators only.    *)
(***************************************************************************)
EXTENDS Naturals

TaskState == {"Created", "Queued", "Planning", "Running", "Verifying",
              "Completed", "Failed", "Rollback", "Retry"}

Priority == {"Low", "Normal", "High", "Critical"}

\* The edges of `TaskState::can_transition_to`.
Edges == { <<"Created", "Queued">>, <<"Queued", "Planning">>,
           <<"Queued", "Running">>, <<"Planning", "Running">>,
           <<"Running", "Verifying">>, <<"Running", "Failed">>,
           <<"Verifying", "Completed">>, <<"Verifying", "Failed">>,
           <<"Failed", "Rollback">>, <<"Rollback", "Retry">>,
           <<"Retry", "Queued">> }

CanTransition(from, to) == <<from, to>> \in Edges

\* A task is its state and its attempt counter; `Task::new` starts both.
NewTask == [state |-> "Created", attempts |-> 0]

\* `transition_to`: the new state, and one more attempt on entering Retry.
\* It is an Err, and changes nothing, when the edge does not exist.
TransitionTo(task, next) ==
    IF CanTransition(task.state, next)
    THEN [state    |-> next,
          attempts |-> IF next = "Retry" THEN task.attempts + 1 ELSE task.attempts]
    ELSE task
==============================================================================
