------------------------------- MODULE Engine -------------------------------
(***************************************************************************)
(* The execution engine (sdk/src/engine.rs): `run_workflow` called by       *)
(* several threads at once on one shared engine.  Each call orders its DAG, *)
(* submits the tasks to a scheduler of its own, and executes what the       *)
(* scheduler dispatches: policy gate, runtime selection, run, verify, audit,*)
(* with the Failed -> Rollback -> Retry -> Queued recovery loop.            *)
(*                                                                         *)
(* A step of a call ends where the code touches state shared with the other *)
(* calls: the event bus, the audit log or the telemetry.                    *)
(***************************************************************************)
EXTENDS SchedulerQueue, FiniteSets, SequencesExt

CONSTANTS
    Workflow,        \* the concurrent calls of run_workflow
    Dags,            \* the dependency functions a Dag may have
    Capability,      \* capabilities named by tasks
    CapabilityOf,    \* CapabilityOf[w][t]: `task.capability` of task t of workflow w
    PriorityOf,      \* PriorityOf[w][t]: its `task.priority` as authored
    AgentPriority,   \* priority of the first discovered agent, or None
    SENSITIVE_CAPABILITIES,  \* capabilities gated by the policy
    PolicyDenies,    \* capabilities the configured policy denies, {} without one
    Runtime,         \* runtime selected for a capability, or None
    RuntimeName,
    None,
    FitChoices,      \* runtime_fit a measured mean latency may yield
    MAX_TASK_RETRIES,
    MaxRecords,      \* `max_records` of the audit log
    MaxSamples       \* `max_samples` of the telemetry

ASSUME EngineAssumption ==
    /\ Dags \subseteq [Task -> SUBSET Task]
    /\ IsFiniteSet(Task)
    /\ CapabilityOf \in [Workflow -> [Task -> Capability]]
    /\ PriorityOf \in [Workflow -> [Task -> Priority]]
    /\ AgentPriority \in [Capability -> Priority \cup {None}]
    /\ SENSITIVE_CAPABILITIES \subseteq Capability
    /\ PolicyDenies \subseteq Capability
    /\ Runtime \in [Capability -> RuntimeName \cup {None}]
    /\ None \notin Task \cup Priority \cup RuntimeName
    /\ FitChoices \subseteq 0 .. One
    /\ MAX_TASK_RETRIES \in Nat
    /\ MaxRecords \in Nat \ {0}
    /\ MaxSamples \in Nat \ {0}

VARIABLES
    deps,            \* deps[w][t]: `depends_on` of task t of workflow w
    pc,              \* where the call is
    order,           \* the topological order of the DAG, once computed
    submitted,       \* how many tasks of `order` are submitted
    pending,         \* the call's scheduler: its queue,
    completed,       \*   the ids marked completed,
    clock,           \*   and its dispatch-cycle counter
    cur,             \* the dispatched task, or None
    task,            \* task[w][t]: lifecycle state and attempts
    results,         \* the tasks whose results were pushed, in order
    announced,       \* workflows WorkflowCompleted was published for
    history,         \* history[w][t]: events published and audit records made
    audit,           \* the shared audit log, newest last
    telemetry        \* the shared telemetry: the runtime of each sample

schedVars == <<pending, completed, clock>>
vars == <<deps, pc, order, submitted, pending, completed, clock, cur, task,
          results, announced, history, audit, telemetry>>

Locations == {"entry", "submit", "loop", "exec", "denied", "run", "verify",
              "audit", "settle", "ok", "err"}

Observable == {"PolicyViolation", "TaskStarted", "TaskFailed", "TaskCompleted",
               "audit", "audit.error"}

AuditRecord == [workflow : Workflow, task : Task, error : BOOLEAN]

TypeOK ==
    /\ deps \in [Workflow -> [Task -> SUBSET Task]]
    /\ pc \in [Workflow -> Locations]
    /\ order \in [Workflow -> Seq(Task)]
    /\ submitted \in [Workflow -> Nat]
    /\ pending \in [Workflow -> Seq(Pending)]
    /\ completed \in [Workflow -> SUBSET Task]
    /\ clock \in [Workflow -> Nat]
    /\ cur \in [Workflow -> Task \cup {None}]
    /\ task \in [Workflow -> [Task -> [state : TaskState, attempts : Nat]]]
    /\ results \in [Workflow -> Seq(Task)]
    /\ announced \subseteq Workflow
    /\ history \in [Workflow -> [Task -> Seq(Observable)]]
    /\ audit \in Seq(AuditRecord) /\ Len(audit) <= MaxRecords
    /\ telemetry \in Seq(RuntimeName) /\ Len(telemetry) <= MaxSamples

Init ==
    /\ deps \in [Workflow -> Dags]
    /\ pc = [w \in Workflow |-> "entry"]
    /\ order = [w \in Workflow |-> <<>>]
    /\ submitted = [w \in Workflow |-> 0]
    /\ pending = [w \in Workflow |-> <<>>]
    /\ completed = [w \in Workflow |-> {}]
    /\ clock = [w \in Workflow |-> 0]
    /\ cur = [w \in Workflow |-> None]
    /\ task = [w \in Workflow |-> [t \in Task |-> NewTask]]
    /\ results = [w \in Workflow |-> <<>>]
    /\ announced = {}
    /\ history = [w \in Workflow |-> [t \in Task |-> <<>>]]
    /\ audit = <<>>
    /\ telemetry = <<>>

------------------------------------------------------------------------------
\* Helpers

\* Mutant of TopologicalOrders without the test that every step was emitted: an
\* order of the steps outside cycles, and not behind one.
PartialOrders(d) ==
    {o \in UNION {[1 .. n -> Task] : n \in 0 .. Cardinality(Task)} :
        LET emitted == {o[i] : i \in DOMAIN o}
        IN  /\ \A i, j \in DOMAIN o : o[i] = o[j] => i = j
            /\ \A i \in DOMAIN o : d[o[i]] \subseteq {o[j] : j \in 1 .. (i - 1)}
            /\ \A t \in Task \ emitted : ~(d[t] \subseteq emitted)}

\* What `Dag::topological_order` promises: every step once, each after the
\* steps it depends on; it returns None exactly when there is no such order.
TopologicalOrders(d) ==
    {o \in [1 .. Cardinality(Task) -> Task] :
        /\ \A i, j \in DOMAIN o : o[i] = o[j] => i = j
        /\ \A t \in Task : \E i \in DOMAIN o : o[i] = t
        /\ \A i \in DOMAIN o : d[o[i]] \subseteq {o[j] : j \in 1 .. (i - 1)}}

\* Mutant of Record that never drops.
RecordUnbounded(log, r, max) == Append(log, r)

\* Mutant of Record that drops the newest.
RecordIfRoom(log, r, max) == IF Len(log) < max THEN Append(log, r) ELSE log

\* `record` of the audit log and of the telemetry: push, then drop the oldest.
Record(log, r, max) ==
    IF Len(log) < max THEN Append(log, r) ELSE Tail(Append(log, r))

\* An agent's priority is adopted by a task that has the default one.
EffectivePriority(w, t) ==
    IF PriorityOf[w][t] = "Normal" /\ AgentPriority[CapabilityOf[w][t]] # None
    THEN AgentPriority[CapabilityOf[w][t]]
    ELSE PriorityOf[w][t]

\* `recommended_factors`: no samples give fit 1.0, samples give some fit.
RecommendedFactors(rt) ==
    LET fits == IF \E i \in DOMAIN telemetry : telemetry[i] = rt THEN FitChoices ELSE {One}
    IN  {WithRuntimeFit(DefaultFactors, f) : f \in fits}

\* `submit_scored_by_telemetry`: default factors when no runtime serves the task.
FactorsOf(w, t) ==
    IF Runtime[CapabilityOf[w][t]] = None
    THEN {DefaultFactors}
    ELSE RecommendedFactors(Runtime[CapabilityOf[w][t]])

SubmitScoredByTelemetry(w, t) ==
    \E f \in FactorsOf(w, t) :
        pending' = [pending EXCEPT ![w] = Enqueue(@, t, EffectivePriority(w, t), f, clock[w])]

Goto(w, loc) == pc' = [pc EXCEPT ![w] = loc]

Transition(w, next) == task' = [task EXCEPT ![w][cur[w]] = TransitionTo(@, next)]

Publish(w, e) == history' = [history EXCEPT ![w][cur[w]] = Append(@, e)]

\* An audit record of the current task's execution, and its place in history.
RecordAudit(w, error) ==
    /\ audit' = Record(audit, [workflow |-> w, task |-> cur[w], error |-> error], MaxRecords)
    /\ history' = [history EXCEPT ![w][cur[w]] =
                      Append(@, IF error THEN "audit.error" ELSE "audit")]

------------------------------------------------------------------------------
\* run_workflow: ordering and submission

\* The DAG has an order.
Order(w) ==
    /\ pc[w] = "entry"
    /\ \E o \in TopologicalOrders(deps[w]) : order' = [order EXCEPT ![w] = o]
    /\ Goto(w, "submit")
    /\ UNCHANGED <<deps, submitted, schedVars, cur, task, results, announced, history,
                   audit, telemetry>>

\* A cycle: the call fails before anything is submitted.
Reject(w) ==
    /\ pc[w] = "entry"
    /\ TopologicalOrders(deps[w]) = {}
    /\ Goto(w, "err")
    /\ UNCHANGED <<deps, order, submitted, schedVars, cur, task, results, announced,
                   history, audit, telemetry>>

Submit(w) ==
    /\ pc[w] = "submit"
    /\ submitted[w] < Len(order[w])
    /\ SubmitScoredByTelemetry(w, order[w][submitted[w] + 1])
    /\ submitted' = [submitted EXCEPT ![w] = @ + 1]
    /\ UNCHANGED <<deps, pc, order, completed, clock, cur, task, results, announced,
                   history, audit, telemetry>>

SubmitDone(w) ==
    /\ pc[w] = "submit"
    /\ submitted[w] = Len(order[w])
    /\ Goto(w, "loop")
    /\ UNCHANGED <<deps, order, submitted, schedVars, cur, task, results, announced,
                   history, audit, telemetry>>

------------------------------------------------------------------------------
\* run_workflow: the dispatch loop, and the head of execute

BestOf(w) == BestAt(pending[w], deps[w], completed[w], clock[w] + 1)

\* dispatch_next returns a task; `execute` queues it if it is fresh.
Dispatch(w) ==
    /\ pc[w] = "loop"
    /\ \E i \in BestOf(w) :
          LET t == pending[w][i].task
          IN  /\ cur' = [cur EXCEPT ![w] = t]
              /\ pending' = [pending EXCEPT ![w] = SwapRemove(@, i)]
              /\ task' = IF task[w][t].state = "Created"
                         THEN [task EXCEPT ![w][t] = TransitionTo(@, "Queued")]
                         ELSE task
    /\ clock' = [clock EXCEPT ![w] = @ + 1]
    /\ Goto(w, "exec")
    /\ UNCHANGED <<deps, order, submitted, completed, results, announced, history,
                   audit, telemetry>>

\* dispatch_next returns None: the workflow is announced complete.
Finish(w) ==
    /\ pc[w] = "loop"
    /\ BestOf(w) = {}
    /\ clock' = [clock EXCEPT ![w] = @ + 1]
    /\ announced' = announced \cup {w}
    /\ Goto(w, "ok")
    /\ UNCHANGED <<deps, order, submitted, pending, completed, cur, task, results,
                   history, audit, telemetry>>

------------------------------------------------------------------------------
\* execute

IsDenied(w, t) == CapabilityOf[w][t] \in SENSITIVE_CAPABILITIES \cap PolicyDenies

\* The policy denies the capability: the task stays Queued.
Deny(w) ==
    /\ pc[w] = "exec"
    /\ IsDenied(w, cur[w])
    /\ Publish(w, "PolicyViolation")
    /\ Goto(w, "denied")
    /\ UNCHANGED <<deps, order, submitted, schedVars, cur, task, results, announced,
                   audit, telemetry>>

DenyAudit(w) ==
    /\ pc[w] = "denied"
    /\ RecordAudit(w, TRUE)
    /\ Goto(w, "settle")
    /\ UNCHANGED <<deps, order, submitted, schedVars, cur, task, results, announced,
                   telemetry>>

\* No runtime serves the capability: the task stays Queued, no event.
NoRuntime(w) ==
    /\ pc[w] = "exec"
    /\ ~ IsDenied(w, cur[w])
    /\ Runtime[CapabilityOf[w][cur[w]]] = None
    /\ RecordAudit(w, TRUE)
    /\ Goto(w, "settle")
    /\ UNCHANGED <<deps, order, submitted, schedVars, cur, task, results, announced,
                   telemetry>>

Start(w) ==
    /\ pc[w] = "exec"
    /\ ~ IsDenied(w, cur[w])
    /\ Runtime[CapabilityOf[w][cur[w]]] # None
    /\ Transition(w, "Running")
    /\ Publish(w, "TaskStarted")
    /\ Goto(w, "run")
    /\ UNCHANGED <<deps, order, submitted, schedVars, cur, results, announced, audit,
                   telemetry>>

RunFails(w) ==
    /\ pc[w] = "run"
    /\ Transition(w, "Failed")
    /\ Publish(w, "TaskFailed")
    /\ Goto(w, "audit")
    /\ UNCHANGED <<deps, order, submitted, schedVars, cur, results, announced, audit,
                   telemetry>>

RunSucceeds(w) ==
    /\ pc[w] = "run"
    /\ telemetry' = Record(telemetry, Runtime[CapabilityOf[w][cur[w]]], MaxSamples)
    /\ Transition(w, "Verifying")
    /\ Goto(w, "verify")
    /\ UNCHANGED <<deps, order, submitted, schedVars, cur, results, announced, history,
                   audit>>

VerifyPasses(w) ==
    /\ pc[w] = "verify"
    /\ Transition(w, "Completed")
    /\ Publish(w, "TaskCompleted")
    /\ Goto(w, "audit")
    /\ UNCHANGED <<deps, order, submitted, schedVars, cur, results, announced, audit,
                   telemetry>>

VerifyFails(w) ==
    /\ pc[w] = "verify"
    /\ Transition(w, "Failed")
    /\ Publish(w, "TaskFailed")
    /\ Goto(w, "audit")
    /\ UNCHANGED <<deps, order, submitted, schedVars, cur, results, announced, audit,
                   telemetry>>

\* The record of an execution that reached a runtime.
Audit(w) ==
    /\ pc[w] = "audit"
    /\ RecordAudit(w, task[w][cur[w]].state = "Failed")
    /\ Goto(w, "settle")
    /\ UNCHANGED <<deps, order, submitted, schedVars, cur, task, results, announced,
                   telemetry>>

------------------------------------------------------------------------------
\* run_workflow: what the result of execute leads to

Complete(w) ==
    /\ pc[w] = "settle"
    /\ task[w][cur[w]].state = "Completed"
    /\ completed' = [completed EXCEPT ![w] = @ \cup {cur[w]}]
    /\ results' = [results EXCEPT ![w] = Append(@, cur[w])]
    /\ cur' = [cur EXCEPT ![w] = None]
    /\ Goto(w, "loop")
    /\ UNCHANGED <<deps, order, submitted, pending, clock, task, announced, history,
                   audit, telemetry>>

\* Mutant of CanRequeue with an off-by-one.
CanRequeueOnceMore(tk) == tk.state = "Failed" /\ tk.attempts <= MAX_TASK_RETRIES

CanRequeue(tk) == tk.state = "Failed" /\ tk.attempts < MAX_TASK_RETRIES

\* The three transitions of `requeue`.
Recovered(tk) ==
    TransitionTo(TransitionTo(TransitionTo(tk, "Rollback"), "Retry"), "Queued")

Requeue(w) ==
    /\ pc[w] = "settle"
    /\ CanRequeue(task[w][cur[w]])
    /\ task' = [task EXCEPT ![w][cur[w]] = Recovered(@)]
    /\ SubmitScoredByTelemetry(w, cur[w])
    /\ cur' = [cur EXCEPT ![w] = None]
    /\ Goto(w, "loop")
    /\ UNCHANGED <<deps, order, submitted, completed, clock, results, announced, history,
                   audit, telemetry>>

\* Mutant of Abort that tries to requeue again instead of giving up.
AbortNever(w) ==
    /\ pc[w] = "settle"
    /\ task[w][cur[w]].state # "Completed"
    /\ ~ CanRequeue(task[w][cur[w]])
    /\ UNCHANGED vars

\* A denied task, or a failed one whose budget is spent: the call returns Err.
Abort(w) ==
    /\ pc[w] = "settle"
    /\ task[w][cur[w]].state # "Completed"
    /\ ~ CanRequeue(task[w][cur[w]])
    /\ Goto(w, "err")
    /\ UNCHANGED <<deps, order, submitted, schedVars, cur, task, results, announced,
                   history, audit, telemetry>>

Step(w) ==
    \/ Order(w) \/ Reject(w) \/ Submit(w) \/ SubmitDone(w)
    \/ Dispatch(w) \/ Finish(w)
    \/ Deny(w) \/ DenyAudit(w) \/ NoRuntime(w) \/ Start(w)
    \/ RunFails(w) \/ RunSucceeds(w) \/ VerifyPasses(w) \/ VerifyFails(w) \/ Audit(w)
    \/ Complete(w) \/ Requeue(w) \/ Abort(w)

\* Every call has returned.
Terminated ==
    /\ \A w \in Workflow : pc[w] \in {"ok", "err"}
    /\ UNCHANGED vars

Next == (\E w \in Workflow : Step(w)) \/ Terminated

\* Each thread keeps running: runtimes and verifiers return.
Fairness == \A w \in Workflow : WF_vars(Step(w))

SafetySpec == Init /\ [][Next]_vars
Spec == SafetySpec /\ Fairness

------------------------------------------------------------------------------
\* Properties

\* A task shows any sign of execution (an event or an audit record) only after
\* every task it depends on is Completed, and they stay Completed: a failed or
\* retried dependency never unblocks its dependents in `dispatch_next`.
DependenciesRespected ==
    \A w \in Workflow, t \in Task :
        history[w][t] # <<>> => \A d \in deps[w][t] : task[w][d].state = "Completed"

\* WorkflowCompleted is published, at the end of `run_workflow`, only for a
\* workflow every task of which is Completed and has its result returned.
AnnouncedMeansFinished ==
    \A w \in announced, t \in Task :
        /\ task[w][t].state = "Completed"
        /\ \E i \in DOMAIN results[w] : results[w][i] = t

\* The results `run_workflow` returns name each task once, after the results of
\* the tasks it depends on, whatever was retried in between.
ResultsInDependencyOrder ==
    \A w \in Workflow : \A i \in DOMAIN results[w] :
        /\ \A j \in DOMAIN results[w] : results[w][i] = results[w][j] => i = j
        /\ deps[w][results[w][i]] \subseteq {results[w][j] : j \in 1 .. (i - 1)}

FailedAttempt == <<"TaskStarted", "TaskFailed", "audit.error">>

\* k failed attempts in a row, each started, failed and audited.
Failures(k) == [i \in 1 .. (3 * k) |-> FailedAttempt[1 + ((i - 1) % 3)]]

\* What observers have seen of task t when its call is between two tasks or
\* has returned.
ExpectedHistory(w, t) ==
    LET tk == task[w][t]
    IN  CASE tk.state = "Created"   -> <<>>
          [] tk.state = "Completed" ->
                 Failures(tk.attempts) \o <<"TaskStarted", "TaskCompleted", "audit">>
          [] tk.state = "Failed"    -> Failures(tk.attempts + 1)
          [] tk.state = "Queued" /\ t # cur[w] -> Failures(tk.attempts)
          [] tk.state = "Queued" /\ t = cur[w] ->
                 IF IsDenied(w, t) THEN <<"PolicyViolation", "audit.error">>
                                ELSE <<"audit.error">>

\* Events and audit tell the truth about `execute`: TaskStarted once per attempt
\* that reached a runtime, one TaskFailed per failed attempt, one audit record
\* per execution on every path, nothing but PolicyViolation for a denied task,
\* and a Failed task only when its retry budget is spent and the call failed.
HistoryMatchesState ==
    \A w \in Workflow : pc[w] \in {"loop", "ok", "err"} =>
        \A t \in Task :
            /\ task[w][t].state \in {"Created", "Queued", "Completed", "Failed"}
            /\ history[w][t] = ExpectedHistory(w, t)
            /\ task[w][t].attempts <= MAX_TASK_RETRIES
            /\ task[w][t].state = "Failed" =>
                   pc[w] = "err" /\ task[w][t].attempts = MAX_TASK_RETRIES

\* The audit records of task t that were made, and those the log still has.
Made(w, t) == SelectSeq(history[w][t], LAMBDA e : e \in {"audit", "audit.error"})

Kept(w, t) ==
    LET records == SelectSeq(audit, LAMBDA r : r.workflow = w /\ r.task = t)
    IN  [i \in DOMAIN records |-> IF records[i].error THEN "audit.error" ELSE "audit"]

\* The tasks whose success the log still has, and all that were recorded.
KeptSuccesses(w) ==
    LET records == SelectSeq(audit, LAMBDA r : r.workflow = w /\ ~r.error)
    IN  [i \in DOMAIN records |-> records[i].task]

Successes(w) ==
    IF pc[w] = "settle" /\ task[w][cur[w]].state = "Completed" THEN Append(results[w], cur[w]) ELSE results[w]

\* The audit log all threads share (`InMemoryAuditLog::record`) loses no record
\* before it is full, and then the oldest only: of each task it has the last
\* records that were made, and of each call the last successes, in the order of
\* its results, however the calls' records interleave.
AuditKeepsTheLatest ==
    \A w \in Workflow :
        /\ IsSuffix(KeptSuccesses(w), Successes(w))
        /\ \A t \in Task :
             /\ IsSuffix(Kept(w, t), Made(w, t))
             /\ Len(audit) < MaxRecords => Kept(w, t) = Made(w, t)

\* Every call of `run_workflow` returns, Ok or Err, whatever its tasks do: the
\* retry loop is bounded and the dispatch loop ends.
EveryCallReturns ==
    \A w \in Workflow : <>(pc[w] \in {"ok", "err"})

Abstract == INSTANCE WorkflowSpec WITH
    done   <- [w \in Workflow |-> {t \in Task : task[w][t].state = "Completed"}],
    status <- [w \in Workflow |-> IF pc[w] \in {"ok", "err"} THEN pc[w] ELSE "running"]

\* The engine with its scheduler, retries and threads implements the abstract
\* contract of running a workflow: steps complete in dependency order, and the
\* end is announced only over a complete workflow.
ImplementsWorkflowSpec == Abstract!Spec
==============================================================================
