---------------------------- MODULE EngineProofs ----------------------------
(***************************************************************************)
(* For every number of calls, tasks, DAGs, priorities and retry budgets:    *)
(* the engine is type correct, respects dependencies, announces only        *)
(* finished workflows, returns results in dependency order, implements      *)
(* WorkflowSpec, and its events and audit records tell what happened.       *)
(***************************************************************************)
EXTENDS Engine, SchedulerQueueProofs, FiniteSetTheorems

\* Locations at which the call is executing the task `cur`.
Active == {"exec", "denied", "run", "verify", "audit", "settle"}

\* The tasks waiting in the call's queue.
Waiting(w) == {pending[w][i].task : i \in DOMAIN pending[w]}

\* No task waits twice, and a waiting task is not the one being executed, nor
\* started, failed or completed.
QueueInv(w) ==
    /\ \A i, j \in DOMAIN pending[w] : pending[w][i].task = pending[w][j].task => i = j
    /\ \A t \in Waiting(w) : t # cur[w] /\ task[w][t].state \in {"Created", "Queued"}

\* The task being executed has every dependency marked completed, and its
\* lifecycle state is the one its location in `execute` calls for.
CurInv(w) ==
    /\ pc[w] \in {"entry", "submit", "loop", "ok"} => cur[w] = None
    /\ pc[w] \in Active => cur[w] \in Task /\ deps[w][cur[w]] \subseteq completed[w]
    /\ pc[w] \in {"exec", "denied"} => task[w][cur[w]].state = "Queued"
    /\ pc[w] = "run" => /\ task[w][cur[w]].state = "Running"
                        /\ Runtime[CapabilityOf[w][cur[w]]] # None
    /\ pc[w] = "verify" => task[w][cur[w]].state = "Verifying"
    /\ pc[w] = "audit" => task[w][cur[w]].state \in {"Failed", "Completed"}
    /\ pc[w] \in {"entry", "submit"} =>
          completed[w] = {} /\ \A t \in Task : task[w][t].state = "Created"

\* The ids marked completed are Completed tasks whose results were returned, and
\* whatever has been observed of a task came after its dependencies.
DoneInv(w) ==
    /\ \A t \in completed[w] :
          /\ task[w][t].state = "Completed"
          /\ \E i \in DOMAIN results[w] : results[w][i] = t
    /\ \A t \in Task : history[w][t] # <<>> => deps[w][t] \subseteq completed[w]

\* No task is lost: it is completed, executing or waiting.
CoverInv(w) ==
    /\ pc[w] = "entry" => pending[w] = <<>> /\ submitted[w] = 0
    /\ pc[w] = "submit" =>
          /\ submitted[w] <= Len(order[w])
          /\ Waiting(w) = {order[w][k] : k \in 1 .. submitted[w]}
    /\ pc[w] \in Active \cup {"loop"} =>
          \A t \in Task : t \in completed[w] \/ t = cur[w] \/ t \in Waiting(w)

\* The order the call was given is a topological order; the end is reached with
\* every task completed.
OrderInv(w) ==
    /\ pc[w] \in Active \cup {"submit", "loop"} => order[w] \in TopologicalOrders(deps[w])
    /\ pc[w] = "ok" => completed[w] = Task
    /\ w \in announced => pc[w] = "ok"

CallInv(w) == QueueInv(w) /\ CurInv(w) /\ DoneInv(w) /\ CoverInv(w) /\ OrderInv(w)

\* The inductive invariant: each call's own state, whatever the others do.
Inv == \A w \in Workflow : CallInv(w)

------------------------------------------------------------------------------
\* Facts about the helpers

TaskRecord == [state : TaskState, attempts : Nat]

\* `transition_to` keeps a task a task, whether or not the edge exists.
LEMMA TransitionType ==
    ASSUME NEW tk \in TaskRecord, NEW s \in TaskState
    PROVE  TransitionTo(tk, s) \in TaskRecord
  BY DEF TransitionTo, TaskRecord

\* `record` of a bounded log keeps it within its bound.
LEMMA RecordType ==
    ASSUME NEW S, NEW log \in Seq(S), NEW r \in S, NEW max \in Nat \ {0}, Len(log) <= max
    PROVE  Record(log, r, max) \in Seq(S) /\ Len(Record(log, r, max)) <= max
  <1>1. /\ Append(log, r) \in Seq(S) /\ Append(log, r) # <<>>
        /\ Len(Append(log, r)) = Len(log) + 1
    BY AppendProperties
  <1>2. Tail(Append(log, r)) \in Seq(S) /\ Len(Tail(Append(log, r))) = Len(log)
    BY <1>1, HeadTailProperties
  <1>3. CASE Len(log) < max
    BY <1>1, <1>3 DEF Record
  <1>4. CASE ~(Len(log) < max)
    BY <1>2, <1>4 DEF Record
  <1> QED BY <1>3, <1>4

\* The factors a task is submitted with are score factors.
LEMMA FactorsType ==
    ASSUME NEW w \in Workflow, NEW t \in Task
    PROVE  FactorsOf(w, t) \subseteq ScoreFactors
  <1>1. DefaultFactors \in [FactorName -> Int]
    BY DEF DefaultFactors
  <1>2. ASSUME NEW f \in 0 .. 4
        PROVE  WithRuntimeFit(DefaultFactors, f) \in ScoreFactors
    <2>1. (IF f < 0 THEN 0 ELSE IF f > 4 THEN 4 ELSE f) = f
      OBVIOUS
    <2>2. WithRuntimeFit(DefaultFactors, f) = [DefaultFactors EXCEPT !["runtime_fit"] = f]
      BY <2>1 DEF WithRuntimeFit, One
    <2>3. f \in Int
      OBVIOUS
    <2>4. \A g \in [FactorName -> Int] : [g EXCEPT !["runtime_fit"] = f] \in [FactorName -> Int]
      BY <2>3
    <2>5. WithRuntimeFit(DefaultFactors, f) \in [FactorName -> Int]
      BY <1>1, <2>2, <2>4
    <2> QED BY <2>5 DEF ScoreFactors
  <1>3. FitChoices \subseteq 0 .. 4 /\ One \in 0 .. 4
    BY EngineAssumption DEF One
  <1> QED BY <1>1, <1>2, <1>3 DEF FactorsOf, RecommendedFactors, ScoreFactors

\* Submitting a task appends one well-formed entry for it.
LEMMA SubmitType ==
    ASSUME NEW w \in Workflow, NEW t \in Task, TypeOK, SubmitScoredByTelemetry(w, t)
    PROVE  \E e \in Pending : e.task = t /\ pending' = [pending EXCEPT ![w] = Append(@, e)]
  <1>1. PICK f \in FactorsOf(w, t) :
          pending' = [pending EXCEPT ![w] = Enqueue(@, t, EffectivePriority(w, t), f, clock[w])]
    BY DEF SubmitScoredByTelemetry
  <1>2. EffectivePriority(w, t) \in Priority
    BY EngineAssumption DEF EffectivePriority
  <1> DEFINE e == [task |-> t, priority |-> EffectivePriority(w, t),
                   factors |-> f, enqueued_at |-> clock[w]]
  <1>3. e \in Pending
    BY <1>2, FactorsType DEF Pending, TypeOK
  <1>4. e.task = t
    OBVIOUS
  <1>5. pending' = [pending EXCEPT ![w] = Append(@, e)]
    BY <1>1 DEF Enqueue
  <1> HIDE DEF e
  <1> QED BY <1>3, <1>4, <1>5

\* Type correctness -----------------------------------------------------------

\* An audit record of the task being executed keeps both logs well typed.
LEMMA RecordAuditType ==
    ASSUME NEW w \in Workflow, NEW error \in BOOLEAN, TypeOK, cur[w] \in Task,
           RecordAudit(w, error)
    PROVE  /\ audit' \in Seq(AuditRecord) /\ Len(audit') <= MaxRecords
           /\ history' \in [Workflow -> [Task -> Seq(Observable)]]
  <1>1. [workflow |-> w, task |-> cur[w], error |-> error] \in AuditRecord
    BY DEF AuditRecord
  <1>2. audit' \in Seq(AuditRecord) /\ Len(audit') <= MaxRecords
    BY <1>1, RecordType, EngineAssumption DEF RecordAudit, TypeOK
  <1>3. (IF error THEN "audit.error" ELSE "audit") \in Observable
    BY DEF Observable
  <1>4. history' \in [Workflow -> [Task -> Seq(Observable)]]
    BY <1>3 DEF RecordAudit, TypeOK
  <1> QED BY <1>2, <1>4

\* An event of the task being executed keeps the history well typed.
LEMMA PublishType ==
    ASSUME NEW w \in Workflow, NEW e \in Observable, TypeOK, cur[w] \in Task, Publish(w, e)
    PROVE  history' \in [Workflow -> [Task -> Seq(Observable)]]
  BY DEF Publish, TypeOK

\* A transition of the task being executed keeps the tasks well typed.
LEMMA MoveType ==
    ASSUME NEW w \in Workflow, NEW s \in TaskState, TypeOK, cur[w] \in Task, Transition(w, s)
    PROVE  task' \in [Workflow -> [Task -> TaskRecord]]
  BY TransitionType DEF Transition, TypeOK, TaskRecord

\* Moving the call to another location keeps locations well typed.
LEMMA GotoType ==
    ASSUME NEW w \in Workflow, NEW loc \in Locations, TypeOK, Goto(w, loc)
    PROVE  pc' \in [Workflow -> Locations]
  BY DEF Goto, TypeOK

\* Every step of every call keeps the engine's state, its shared logs included,
\* well typed and within bounds.
LEMMA TypeStep == TypeOK /\ Inv /\ [Next]_vars => TypeOK'
  <1> SUFFICES ASSUME TypeOK, Inv, [Next]_vars PROVE TypeOK'
    OBVIOUS
  <1> USE DEF TaskRecord
  <1>0. ASSUME NEW w \in Workflow, pc[w] \in Active PROVE cur[w] \in Task
    BY <1>0 DEF Inv, CallInv, CurInv
  <1>1. ASSUME NEW w \in Workflow, Order(w) PROVE TypeOK'
    <2>1. pc' \in [Workflow -> Locations]
      BY <1>1, GotoType DEF Order, Locations
    <2>2. PICK o \in TopologicalOrders(deps[w]) : order' = [order EXCEPT ![w] = o]
      BY <1>1 DEF Order
    <2>3. o \in Seq(Task)
      <3>1. Cardinality(Task) \in Nat
        BY EngineAssumption, FS_CardinalityType
      <3> QED BY <2>2, <3>1, SeqDef DEF TopologicalOrders
    <2> QED BY <1>1, <2>1, <2>2, <2>3 DEF Order, TypeOK, schedVars
  <1>2. ASSUME NEW w \in Workflow, Reject(w) PROVE TypeOK'
    <2>1. pc' \in [Workflow -> Locations]
      BY <1>2, GotoType DEF Reject, Locations
    <2> QED BY <1>2, <2>1 DEF Reject, TypeOK, schedVars
  <1>3. ASSUME NEW w \in Workflow, Submit(w) PROVE TypeOK'
    <2>1. order[w][submitted[w] + 1] \in Task
      <3>1. PICK o \in Seq(Task), n \in Nat : o = order[w] /\ n = submitted[w]
        BY DEF TypeOK
      <3>2. n < Len(o)
        BY <1>3, <3>1 DEF Submit
      <3>3. n + 1 \in 1 .. Len(o)
        BY <3>2
      <3> QED BY <3>1, <3>3
    <2>2. PICK e \in Pending : pending' = [pending EXCEPT ![w] = Append(@, e)]
      BY <1>3, <2>1, SubmitType DEF Submit
    <2>3. pending' \in [Workflow -> Seq(Pending)]
      BY <2>2 DEF TypeOK
    <2>4. submitted' \in [Workflow -> Nat]
      BY <1>3 DEF Submit, TypeOK
    <2> QED BY <1>3, <2>3, <2>4 DEF Submit, TypeOK
  <1>4. ASSUME NEW w \in Workflow, SubmitDone(w) PROVE TypeOK'
    <2>1. pc' \in [Workflow -> Locations]
      BY <1>4, GotoType DEF SubmitDone, Locations
    <2> QED BY <1>4, <2>1 DEF SubmitDone, TypeOK, schedVars
  <1>5. ASSUME NEW w \in Workflow, Dispatch(w) PROVE TypeOK'
    <2>1. pc' \in [Workflow -> Locations]
      BY <1>5, GotoType DEF Dispatch, Locations
    <2>2. PICK i \in DOMAIN pending[w] :
            /\ cur' = [cur EXCEPT ![w] = pending[w][i].task]
            /\ pending' = [pending EXCEPT ![w] = SwapRemove(@, i)]
            /\ task' = IF task[w][pending[w][i].task].state = "Created"
                       THEN [task EXCEPT ![w][pending[w][i].task] = TransitionTo(@, "Queued")]
                       ELSE task
      <3>1. BestOf(w) \subseteq DOMAIN pending[w]
        BY DEF BestOf, BestAt, ReadyAt
      <3> QED BY <1>5, <3>1, Zenon DEF Dispatch
    <2>3. pending[w] \in Seq(Pending) /\ pending[w][i] \in Pending
      BY <2>2 DEF TypeOK
    <2>4. pending[w][i].task \in Task
      BY <2>3 DEF Pending
    <2>5. SwapRemove(pending[w], i) \in Seq(Pending)
      BY <2>3, SwapRemoveType
    <2>6. TransitionTo(task[w][pending[w][i].task], "Queued") \in TaskRecord
      BY <2>4, TransitionType DEF TypeOK, TaskState
    <2>7. task' \in [Workflow -> [Task -> TaskRecord]]
      <3>1. PICK t \in Task : t = pending[w][i].task
        BY <2>4
      <3>2. task \in [Workflow -> [Task -> TaskRecord]]
        BY DEF TypeOK
      <3>3. task' = task \/ task' = [task EXCEPT ![w][t] = TransitionTo(task[w][t], "Queued")]
        BY <2>2, <3>1
      <3>4. TransitionTo(task[w][t], "Queued") \in TaskRecord
        BY <2>6, <3>1
      <3> HIDE DEF TaskRecord
      <3>5. PICK x \in TaskRecord : x = TransitionTo(task[w][t], "Queued")
        BY <3>4
      <3>6. task' = task \/ task' = [task EXCEPT ![w][t] = x]
        BY <3>3, <3>5
      <3> QED BY ONLY w \in Workflow, t \in Task, x \in TaskRecord, <3>2, <3>6
    <2>8. clock' \in [Workflow -> Nat]
      BY <1>5 DEF Dispatch, TypeOK
    <2>9. cur' \in [Workflow -> Task \cup {None}] /\ pending' \in [Workflow -> Seq(Pending)]
      BY <2>2, <2>4, <2>5 DEF TypeOK
    <2> QED BY <1>5, <2>1, <2>7, <2>8, <2>9 DEF Dispatch, TypeOK
  <1>6. ASSUME NEW w \in Workflow, Finish(w) PROVE TypeOK'
    <2>1. pc' \in [Workflow -> Locations]
      BY <1>6, GotoType DEF Finish, Locations
    <2>2. clock' \in [Workflow -> Nat]
      BY <1>6 DEF Finish, TypeOK
    <2> QED BY <1>6, <2>1, <2>2 DEF Finish, TypeOK
  <1>7. ASSUME NEW w \in Workflow, Deny(w) PROVE TypeOK'
    <2>1. pc' \in [Workflow -> Locations]
      BY <1>7, GotoType DEF Deny, Locations
    <2>2. history' \in [Workflow -> [Task -> Seq(Observable)]]
      BY <1>7, <1>0, PublishType DEF Deny, Observable, Active
    <2> QED BY <1>7, <2>1, <2>2 DEF Deny, TypeOK, schedVars
  <1>8. ASSUME NEW w \in Workflow, DenyAudit(w) PROVE TypeOK'
    <2>1. pc' \in [Workflow -> Locations]
      BY <1>8, GotoType DEF DenyAudit, Locations
    <2>2. /\ audit' \in Seq(AuditRecord) /\ Len(audit') <= MaxRecords
          /\ history' \in [Workflow -> [Task -> Seq(Observable)]]
      BY <1>8, <1>0, RecordAuditType DEF DenyAudit, Active
    <2> QED BY <1>8, <2>1, <2>2 DEF DenyAudit, TypeOK, schedVars
  <1>9. ASSUME NEW w \in Workflow, NoRuntime(w) PROVE TypeOK'
    <2>1. pc' \in [Workflow -> Locations]
      BY <1>9, GotoType DEF NoRuntime, Locations
    <2>2. /\ audit' \in Seq(AuditRecord) /\ Len(audit') <= MaxRecords
          /\ history' \in [Workflow -> [Task -> Seq(Observable)]]
      BY <1>9, <1>0, RecordAuditType DEF NoRuntime, Active
    <2> QED BY <1>9, <2>1, <2>2 DEF NoRuntime, TypeOK, schedVars
  <1>10. ASSUME NEW w \in Workflow, Start(w) PROVE TypeOK'
    <2>1. pc' \in [Workflow -> Locations]
      BY <1>10, GotoType DEF Start, Locations
    <2>2. history' \in [Workflow -> [Task -> Seq(Observable)]]
      BY <1>10, <1>0, PublishType DEF Start, Observable, Active
    <2>3. task' \in [Workflow -> [Task -> TaskRecord]]
      BY <1>10, <1>0, MoveType DEF Start, TaskState, Active
    <2> QED BY <1>10, <2>1, <2>2, <2>3 DEF Start, TypeOK, schedVars
  <1>11. ASSUME NEW w \in Workflow, RunFails(w) \/ VerifyFails(w) \/ VerifyPasses(w)
         PROVE  TypeOK'
    <2>1. pc' \in [Workflow -> Locations]
      BY <1>11, GotoType DEF RunFails, VerifyFails, VerifyPasses, Locations
    <2>2. history' \in [Workflow -> [Task -> Seq(Observable)]]
      BY <1>11, <1>0, PublishType DEF RunFails, VerifyFails, VerifyPasses, Observable, Active
    <2>3. task' \in [Workflow -> [Task -> TaskRecord]]
      BY <1>11, <1>0, MoveType DEF RunFails, VerifyFails, VerifyPasses, TaskState, Active
    <2> QED BY <1>11, <2>1, <2>2, <2>3
            DEF RunFails, VerifyFails, VerifyPasses, TypeOK, schedVars
  <1>12. ASSUME NEW w \in Workflow, RunSucceeds(w) PROVE TypeOK'
    <2>1. pc' \in [Workflow -> Locations]
      BY <1>12, GotoType DEF RunSucceeds, Locations
    <2>2. task' \in [Workflow -> [Task -> TaskRecord]]
      BY <1>12, <1>0, MoveType DEF RunSucceeds, TaskState, Active
    <2>3. Runtime[CapabilityOf[w][cur[w]]] \in RuntimeName
      BY <1>12, <1>0, EngineAssumption DEF RunSucceeds, Inv, CallInv, CurInv, Active
    <2>4. telemetry' \in Seq(RuntimeName) /\ Len(telemetry') <= MaxSamples
      BY <1>12, <2>3, RecordType, EngineAssumption DEF RunSucceeds, TypeOK
    <2> QED BY <1>12, <2>1, <2>2, <2>4 DEF RunSucceeds, TypeOK, schedVars
  <1>13. ASSUME NEW w \in Workflow, Audit(w) PROVE TypeOK'
    <2>1. pc' \in [Workflow -> Locations]
      BY <1>13, GotoType DEF Audit, Locations
    <2>2. /\ audit' \in Seq(AuditRecord) /\ Len(audit') <= MaxRecords
          /\ history' \in [Workflow -> [Task -> Seq(Observable)]]
      BY <1>13, <1>0, RecordAuditType DEF Audit, Active
    <2> QED BY <1>13, <2>1, <2>2 DEF Audit, TypeOK, schedVars
  <1>14. ASSUME NEW w \in Workflow, Complete(w) PROVE TypeOK'
    <2>1. pc' \in [Workflow -> Locations]
      BY <1>14, GotoType DEF Complete, Locations
    <2>2. cur[w] \in Task
      BY <1>14, <1>0 DEF Complete, Active
    <2>3. results' \in [Workflow -> Seq(Task)]
      BY <1>14, <2>2 DEF Complete, TypeOK
    <2> QED BY <1>14, <2>1, <2>2, <2>3 DEF Complete, TypeOK
  <1>15. ASSUME NEW w \in Workflow, Requeue(w) PROVE TypeOK'
    <2>1. pc' \in [Workflow -> Locations]
      BY <1>15, GotoType DEF Requeue, Locations
    <2>2. cur[w] \in Task
      BY <1>15, <1>0 DEF Requeue, Active
    <2>3. PICK e \in Pending : pending' = [pending EXCEPT ![w] = Append(@, e)]
      BY <1>15, <2>2, SubmitType DEF Requeue
    <2>4. pending' \in [Workflow -> Seq(Pending)]
      BY <2>3 DEF TypeOK
    <2>5. Recovered(task[w][cur[w]]) \in TaskRecord
      <3>1. task[w][cur[w]] \in TaskRecord
        BY <2>2 DEF TypeOK
      <3>2. {"Rollback", "Retry", "Queued"} \subseteq TaskState
        BY DEF TaskState
      <3> HIDE DEF TaskRecord
      <3> QED BY <3>1, <3>2, TransitionType DEF Recovered
    <2>6. task' \in [Workflow -> [Task -> TaskRecord]]
      BY <1>15, <2>2, <2>5 DEF Requeue, TypeOK
    <2> QED BY <1>15, <2>1, <2>4, <2>6 DEF Requeue, TypeOK
  <1>16. ASSUME NEW w \in Workflow, Abort(w) PROVE TypeOK'
    <2>1. pc' \in [Workflow -> Locations]
      BY <1>16, GotoType DEF Abort, Locations
    <2> QED BY <1>16, <2>1 DEF Abort, TypeOK, schedVars
  <1>17. CASE UNCHANGED vars
    BY <1>17 DEF vars, TypeOK
  <1> QED BY <1>1, <1>2, <1>3, <1>4, <1>5, <1>6, <1>7, <1>8, <1>9, <1>10, <1>11, <1>12,
             <1>13, <1>14, <1>15, <1>16, <1>17 DEF Next, Step, Terminated

------------------------------------------------------------------------------
\* The inductive invariant

\* Entries of the queue name tasks.
LEMMA WaitingType ==
    ASSUME NEW w \in Workflow, TypeOK
    PROVE  /\ \A i \in DOMAIN pending[w] : pending[w][i] \in Pending /\ pending[w][i].task \in Task
           /\ Waiting(w) \subseteq Task
  <1>1. \A i \in DOMAIN pending[w] : pending[w][i] \in Pending
    BY DEF TypeOK
  <1>2. \A i \in DOMAIN pending[w] : pending[w][i].task \in Task
    BY <1>1 DEF Pending
  <1> QED BY <1>1, <1>2 DEF Waiting

\* What a step of `execute` does to the tasks: nothing, or one transition of its own.
LEMMA ExecTask ==
    ASSUME NEW w \in Workflow,
           \/ Deny(w) \/ DenyAudit(w) \/ NoRuntime(w) \/ Start(w) \/ RunFails(w)
           \/ RunSucceeds(w) \/ VerifyPasses(w) \/ VerifyFails(w) \/ Audit(w) \/ Abort(w)
    PROVE  task' = task \/ \E s \in TaskState \ {"Created", "Retry"} : Transition(w, s)
  <1>1. CASE Deny(w) \/ DenyAudit(w) \/ NoRuntime(w) \/ Audit(w) \/ Abort(w)
    BY <1>1 DEF Deny, DenyAudit, NoRuntime, Audit, Abort
  <1>2. CASE Start(w)
    BY <1>2 DEF Start, TaskState
  <1>3. CASE RunFails(w) \/ VerifyFails(w)
    BY <1>3 DEF RunFails, VerifyFails, TaskState
  <1>4. CASE RunSucceeds(w)
    BY <1>4 DEF RunSucceeds, TaskState
  <1>5. CASE VerifyPasses(w)
    BY <1>5 DEF VerifyPasses, TaskState
  <1> QED BY <1>1, <1>2, <1>3, <1>4, <1>5

\* What it shows: nothing, or one entry of the current task's history.
LEMMA ExecShows ==
    ASSUME NEW w \in Workflow,
           \/ Deny(w) \/ DenyAudit(w) \/ NoRuntime(w) \/ Start(w) \/ RunFails(w)
           \/ RunSucceeds(w) \/ VerifyPasses(w) \/ VerifyFails(w) \/ Audit(w) \/ Abort(w)
    PROVE  history' = history \/ \E e : Publish(w, e)
  <1>1. CASE RunSucceeds(w) \/ Abort(w)
    BY <1>1 DEF RunSucceeds, Abort
  <1>2. CASE Deny(w) \/ Start(w)
    BY <1>2 DEF Deny, Start
  <1>3. CASE RunFails(w) \/ VerifyPasses(w) \/ VerifyFails(w)
    BY <1>3 DEF RunFails, VerifyPasses, VerifyFails
  <1>4. CASE DenyAudit(w) \/ NoRuntime(w) \/ Audit(w)
    BY <1>4 DEF DenyAudit, NoRuntime, Audit, RecordAudit, Publish
  <1> QED BY <1>1, <1>2, <1>3, <1>4

\* Where it leaves the call.
LEMMA ExecGoes ==
    ASSUME NEW w \in Workflow,
           \/ Deny(w) \/ DenyAudit(w) \/ NoRuntime(w) \/ Start(w) \/ RunFails(w)
           \/ RunSucceeds(w) \/ VerifyPasses(w) \/ VerifyFails(w) \/ Audit(w) \/ Abort(w)
    PROVE  cur' = cur /\ pc[w] \in Active /\ \E l \in Locations : Goto(w, l)
  <1>1. CASE Deny(w) \/ DenyAudit(w) \/ NoRuntime(w) \/ Audit(w) \/ Abort(w)
    BY <1>1 DEF Deny, DenyAudit, NoRuntime, Audit, Abort, Active, Locations
  <1>2. CASE Start(w) \/ RunFails(w) \/ RunSucceeds(w)
    BY <1>2 DEF Start, RunFails, RunSucceeds, Active, Locations
  <1>3. CASE VerifyPasses(w) \/ VerifyFails(w)
    BY <1>3 DEF VerifyPasses, VerifyFails, Active, Locations
  <1> QED BY <1>1, <1>2, <1>3

\* A step of one call writes nothing of another call.
LEMMA StepIsLocal ==
    ASSUME TypeOK, NEW w \in Workflow, Step(w), NEW v \in Workflow, v # w
    PROVE  /\ task'[v] = task[v] /\ history'[v] = history[v]
           /\ cur'[v] = cur[v] /\ pc'[v] = pc[v]
  <1>1. CASE \/ Deny(w) \/ DenyAudit(w) \/ NoRuntime(w) \/ Start(w) \/ RunFails(w)
             \/ RunSucceeds(w) \/ VerifyPasses(w) \/ VerifyFails(w) \/ Audit(w) \/ Abort(w)
    <2>1. task'[v] = task[v]
      BY <1>1, ExecTask DEF Transition, TypeOK
    <2>2. history'[v] = history[v]
      BY <1>1, ExecShows DEF Publish, TypeOK
    <2>3. cur'[v] = cur[v] /\ pc'[v] = pc[v]
      BY <1>1, ExecGoes DEF Goto, TypeOK
    <2> QED BY <2>1, <2>2, <2>3
  <1>2. CASE Order(w) \/ Reject(w) \/ Submit(w) \/ SubmitDone(w) \/ Finish(w)
    BY <1>2 DEF Order, Reject, Submit, SubmitDone, Finish, Goto, TypeOK
  <1>3. CASE Dispatch(w)
    <2>1. task'[v] = task[v]
      BY <1>3 DEF Dispatch, TypeOK
    <2>2. history' = history /\ cur'[v] = cur[v] /\ pc'[v] = pc[v]
      BY <1>3 DEF Dispatch, Goto, TypeOK
    <2> QED BY <2>1, <2>2
  <1>4. CASE Complete(w) \/ Requeue(w)
    BY <1>4 DEF Complete, Requeue, Goto, TypeOK
  <1> QED BY <1>1, <1>2, <1>3, <1>4 DEF Step

\* A step of one call leaves the invariant of every other call alone: they share
\* only the event bus, the audit log and the telemetry.
LEMMA OthersKeepInv ==
    ASSUME TypeOK, Inv, NEW w \in Workflow, Step(w), NEW v \in Workflow, v # w
    PROVE  CallInv(v)'
  <1>1. /\ deps'[v] = deps[v] /\ pc'[v] = pc[v] /\ order'[v] = order[v]
        /\ submitted'[v] = submitted[v] /\ completed'[v] = completed[v]
        /\ cur'[v] = cur[v] /\ results'[v] = results[v]
        /\ v \in announced' <=> v \in announced
    BY DEF Step, Order, Reject, Submit, SubmitDone, Dispatch, Finish, Deny, DenyAudit,
           NoRuntime, Start, RunFails, RunSucceeds, VerifyPasses, VerifyFails, Audit,
           Complete, Requeue, Abort, Goto, schedVars, TypeOK
  <1>2. pending'[v] = pending[v]
    <2>1. CASE Submit(w) \/ Requeue(w) \/ Dispatch(w)
      BY <2>1 DEF Submit, Requeue, Dispatch, SubmitScoredByTelemetry, TypeOK
    <2>2. CASE ~(Submit(w) \/ Requeue(w) \/ Dispatch(w))
      BY <2>2 DEF Step, Order, Reject, SubmitDone, Finish, Deny, DenyAudit,
           NoRuntime, Start, RunFails, RunSucceeds, VerifyPasses, VerifyFails, Audit,
           Complete, Abort, schedVars
    <2> QED BY <2>1, <2>2
  <1>3. task'[v] = task[v]
    BY StepIsLocal
  <1>4. history'[v] = history[v]
    BY StepIsLocal
  <1>5. CallInv(v)
    BY DEF Inv
  <1>6. Waiting(v)' = Waiting(v)
    BY <1>2 DEF Waiting
  <1>7. QueueInv(v)'
    BY <1>1, <1>2, <1>3, <1>5, <1>6 DEF CallInv, QueueInv
  <1>8. CurInv(v)'
    BY <1>1, <1>3, <1>5 DEF CallInv, CurInv
  <1>9. DoneInv(v)'
    BY <1>1, <1>3, <1>4, <1>5 DEF CallInv, DoneInv
  <1>10. CoverInv(v)'
    BY <1>1, <1>2, <1>5, <1>6 DEF CallInv, CoverInv
  <1>11. OrderInv(v)'
    BY <1>1, <1>5 DEF CallInv, OrderInv, TopologicalOrders
  <1> QED BY <1>7, <1>8, <1>9, <1>10, <1>11 DEF CallInv

\* The locations of CurInv, of a call that is executing a task, after a step.
Located(w) ==
    /\ pc[w] \in {"exec", "denied"} => task[w][cur[w]].state = "Queued"
    /\ pc[w] = "run" => /\ task[w][cur[w]].state = "Running"
                        /\ Runtime[CapabilityOf[w][cur[w]]] # None
    /\ pc[w] = "verify" => task[w][cur[w]].state = "Verifying"
    /\ pc[w] = "audit" => task[w][cur[w]].state \in {"Failed", "Completed"}

\* A step inside `execute` touches only the state and the history of the task it
\* executes, which is in no queue.
LEMMA ExecKeepsInv ==
    ASSUME NEW w \in Workflow, TypeOK, CallInv(w),
           pc[w] \in Active, pc'[w] \in Active \cup {"err"}, Located(w)',
           UNCHANGED <<deps, order, submitted, pending, completed, cur, results, announced>>,
           \A t \in Task \ {cur[w]} : /\ task'[w][t] = task[w][t]
                                       /\ history'[w][t] = history[w][t],
           cur[w] \in completed[w] => task'[w][cur[w]] = task[w][cur[w]]
    PROVE  CallInv(w)'
  <1>1. cur[w] \in Task /\ deps[w][cur[w]] \subseteq completed[w]
    BY DEF CallInv, CurInv
  <1>2. Waiting(w)' = Waiting(w) /\ Waiting(w) \subseteq Task
    BY WaitingType DEF Waiting
  <1>3. QueueInv(w)'
    BY <1>1, <1>2 DEF CallInv, QueueInv
  <1>4. CurInv(w)'
    BY <1>1 DEF CallInv, CurInv, Located, Active
  <1>5. DoneInv(w)'
    <2>1. completed[w] \subseteq Task
      BY DEF TypeOK
    <2> QED BY <1>1, <2>1 DEF CallInv, DoneInv
  <1>6. CoverInv(w)'
    BY <1>2 DEF CallInv, CoverInv, Active
  <1>7. OrderInv(w)'
    BY DEF CallInv, OrderInv, Active
  <1> QED BY <1>3, <1>4, <1>5, <1>6, <1>7 DEF CallInv

\* An edge of the lifecycle is taken: `transition_to` returns Ok.
LEMMA TransitionState ==
    ASSUME NEW tk \in TaskRecord, NEW s, <<tk.state, s>> \in Edges
    PROVE  TransitionTo(tk, s).state = s
  BY DEF TransitionTo, CanTransition

\* Every step of `execute`, and giving up after it, keeps the invariant.
LEMMA ExecStep ==
    ASSUME NEW w \in Workflow, TypeOK, CallInv(w),
           \/ Deny(w) \/ DenyAudit(w) \/ NoRuntime(w) \/ Start(w) \/ RunFails(w)
           \/ RunSucceeds(w) \/ VerifyPasses(w) \/ VerifyFails(w) \/ Audit(w) \/ Abort(w)
    PROVE  CallInv(w)'
  <1> DEFINE tk == task[w][cur[w]]
  <1>0. pc[w] \in Active
    BY ExecGoes
  <1>1. cur[w] \in Task
    BY <1>0 DEF CallInv, CurInv
  <1>2. tk \in TaskRecord
    BY <1>1 DEF TypeOK, TaskRecord
  <1>3. UNCHANGED <<deps, order, submitted, pending, completed, cur, results, announced>>
    BY DEF Deny, DenyAudit, NoRuntime, Start, RunFails, RunSucceeds, VerifyPasses,
           VerifyFails, Audit, Abort, schedVars
  <1>4. \A t \in Task \ {cur[w]} : task'[w][t] = task[w][t]
    <2>1. ASSUME NEW s, Transition(w, s)
          PROVE  \A t \in Task \ {cur[w]} : task'[w][t] = task[w][t]
      BY <2>1, <1>1 DEF Transition, TypeOK
    <2>2. task' = task \/ \E s : Transition(w, s)
      BY ExecTask
    <2> QED BY <2>1, <2>2
  <1>5. \A t \in Task \ {cur[w]} : history'[w][t] = history[w][t]
    <2>1. ASSUME NEW e, Publish(w, e)
          PROVE  \A t \in Task \ {cur[w]} : history'[w][t] = history[w][t]
      BY <2>1, <1>1 DEF Publish, TypeOK
    <2>2. history' = history \/ \E e : Publish(w, e)
      BY ExecShows
    <2> QED BY <2>1, <2>2
  <1>6. cur[w] \in completed[w] => tk.state = "Completed"
    BY DEF CallInv, DoneInv
  <1>7. ASSUME NEW s, Transition(w, s), <<tk.state, s>> \in Edges
        PROVE  task'[w][cur[w]].state = s
    <2>1. task'[w][cur[w]] = TransitionTo(tk, s)
      BY <1>7, <1>1 DEF Transition, TypeOK
    <2> QED BY <2>1, <1>2, <1>7, TransitionState
  <1> HIDE DEF tk
  <1>8. CASE Deny(w) \/ DenyAudit(w) \/ NoRuntime(w) \/ Audit(w) \/ Abort(w)
    <2>1. task' = task /\ pc'[w] \in {"denied", "settle", "err"}
      BY <1>8 DEF Deny, DenyAudit, NoRuntime, Audit, Abort, Goto, TypeOK
    <2>2. pc'[w] = "denied" => pc[w] = "exec"
      BY <1>8 DEF Deny, DenyAudit, NoRuntime, Audit, Abort, Goto, TypeOK
    <2>3. Located(w)'
      BY <1>3, <2>1, <2>2 DEF Located, CallInv, CurInv
    <2> QED BY <1>0, <1>3, <1>4, <1>5, <2>1, <2>3, ExecKeepsInv DEF Active
  <1>9. CASE Start(w)
    <2>1. tk.state = "Queued" /\ pc'[w] = "run" /\ Runtime[CapabilityOf[w][cur[w]]] # None
      BY <1>9 DEF Start, CallInv, CurInv, Goto, TypeOK, tk
    <2>2. task'[w][cur[w]].state = "Running"
      BY <1>9, <1>7, <2>1 DEF Start, Edges
    <2>3. Located(w)'
      BY <1>3, <2>1, <2>2 DEF Located
    <2> QED BY <1>0, <1>3, <1>4, <1>5, <1>6, <2>1, <2>3, ExecKeepsInv DEF Active
  <1>10. CASE RunFails(w)
    <2>1. tk.state = "Running" /\ pc'[w] = "audit"
      BY <1>10 DEF RunFails, CallInv, CurInv, Goto, TypeOK, tk
    <2>2. task'[w][cur[w]].state = "Failed"
      BY <1>10, <1>7, <2>1 DEF RunFails, Edges
    <2>3. Located(w)'
      BY <1>3, <2>1, <2>2 DEF Located
    <2> QED BY <1>0, <1>3, <1>4, <1>5, <1>6, <2>1, <2>3, ExecKeepsInv DEF Active
  <1>11. CASE RunSucceeds(w)
    <2>1. tk.state = "Running" /\ pc'[w] = "verify"
      BY <1>11 DEF RunSucceeds, CallInv, CurInv, Goto, TypeOK, tk
    <2>2. task'[w][cur[w]].state = "Verifying"
      BY <1>11, <1>7, <2>1 DEF RunSucceeds, Edges
    <2>3. Located(w)'
      BY <1>3, <2>1, <2>2 DEF Located
    <2> QED BY <1>0, <1>3, <1>4, <1>5, <1>6, <2>1, <2>3, ExecKeepsInv DEF Active
  <1>12. CASE VerifyPasses(w) \/ VerifyFails(w)
    <2>1. tk.state = "Verifying" /\ pc'[w] = "audit"
      BY <1>12 DEF VerifyPasses, VerifyFails, CallInv, CurInv, Goto, TypeOK, tk
    <2>2. task'[w][cur[w]].state \in {"Completed", "Failed"}
      BY <1>12, <1>7, <2>1 DEF VerifyPasses, VerifyFails, Edges
    <2>3. Located(w)'
      BY <1>3, <2>1, <2>2 DEF Located
    <2> QED BY <1>0, <1>3, <1>4, <1>5, <1>6, <2>1, <2>3, ExecKeepsInv DEF Active
  <1> QED BY <1>8, <1>9, <1>10, <1>11, <1>12

\* Ordering a DAG starts submission with nothing submitted.
LEMMA OrderStep ==
    ASSUME NEW w \in Workflow, TypeOK, TypeOK', CallInv(w), Order(w)
    PROVE  CallInv(w)'
  <1>1. /\ pc[w] = "entry" /\ pc'[w] = "submit" /\ order'[w] \in TopologicalOrders(deps[w])
        /\ UNCHANGED <<deps, submitted, pending, completed, cur, task, results, announced, history>>
    BY DEF Order, Goto, TypeOK, schedVars
  <1>2. QueueInv(w)'
    BY <1>1 DEF CallInv, QueueInv, Waiting
  <1>3. CurInv(w)' /\ DoneInv(w)'
    BY <1>1 DEF CallInv, CurInv, DoneInv, Active
  <1>4. CoverInv(w)'
    <2>1. pending[w] = <<>> /\ submitted[w] = 0
      BY <1>1 DEF CallInv, CoverInv
    <2>2. Waiting(w)' = {}
      BY <1>1, <2>1 DEF Waiting
    <2>3. Len(order'[w]) \in Nat
      BY DEF TypeOK
    <2>4. {order'[w][k] : k \in 1 .. 0} = {}
      OBVIOUS
    <2> QED BY <1>1, <2>1, <2>2, <2>3, <2>4 DEF CoverInv, Active
  <1>5. OrderInv(w)'
    BY <1>1 DEF CallInv, OrderInv, TopologicalOrders
  <1> QED BY <1>2, <1>3, <1>4, <1>5 DEF CallInv

\* A cyclic DAG ends the call with nothing submitted.
LEMMA RejectStep ==
    ASSUME NEW w \in Workflow, TypeOK, CallInv(w), Reject(w)
    PROVE  CallInv(w)'
  <1>1. /\ pc[w] = "entry" /\ pc'[w] = "err"
        /\ UNCHANGED <<deps, order, submitted, pending, completed, cur, task, results,
                       announced, history>>
    BY DEF Reject, Goto, TypeOK, schedVars
  <1>2. QueueInv(w)'
    BY <1>1 DEF CallInv, QueueInv, Waiting
  <1>3. CurInv(w)' /\ DoneInv(w)'
    BY <1>1 DEF CallInv, CurInv, DoneInv, Active
  <1>4. CoverInv(w)' /\ OrderInv(w)'
    BY <1>1 DEF CallInv, CoverInv, OrderInv, Active
  <1> QED BY <1>2, <1>3, <1>4 DEF CallInv

\* Appending an entry for a task that does not wait yet.
LEMMA AppendWaiting ==
    ASSUME NEW w \in Workflow, TypeOK, QueueInv(w), NEW e \in Pending,
           pending'[w] = Append(pending[w], e), e.task \notin Waiting(w)
    PROVE  /\ Waiting(w)' = Waiting(w) \cup {e.task}
           /\ \A i, j \in DOMAIN pending'[w] :
                 pending'[w][i].task = pending'[w][j].task => i = j
  <1>1. PICK q \in Seq(Pending), n \in Nat : q = pending[w] /\ n = Len(q)
    BY DEF TypeOK
  <1>2. DOMAIN q = 1 .. n /\ DOMAIN Append(q, e) = 1 .. (n + 1)
    BY <1>1
  <1>3. \A i \in 1 .. n : Append(q, e)[i] = q[i]
    BY <1>1
  <1>4. Append(q, e)[n + 1] = e
    BY <1>1
  <1>5. \A i \in 1 .. (n + 1) : i \in 1 .. n \/ i = n + 1
    OBVIOUS
  <1>6. n + 1 \in 1 .. (n + 1) /\ 1 .. n \subseteq 1 .. (n + 1)
    OBVIOUS
  <1>7. \A i \in 1 .. n : q[i].task # e.task
    BY <1>1, <1>2 DEF Waiting
  <1>8. \A i, j \in 1 .. n : q[i].task = q[j].task => i = j
    BY <1>1, <1>2 DEF QueueInv
  <1>9. pending'[w] = Append(q, e)
    BY <1>1
  <1> DEFINE r == Append(q, e)
             D == 1 .. n
             D1 == 1 .. (n + 1)
  <1>10. Waiting(w) = {q[i].task : i \in D} /\ Waiting(w)' = {r[i].task : i \in D1}
    BY <1>1, <1>2, <1>9 DEF Waiting
  <1>11. D1 = D \cup {n + 1}
    BY <1>5, <1>6
  <1> HIDE DEF r, D, D1
  <1>12. Waiting(w)' = Waiting(w) \cup {e.task}
    BY <1>3, <1>4, <1>10, <1>11 DEF r, D
  <1>13. \A i, j \in D1 : r[i].task = r[j].task => i = j
    BY <1>3, <1>4, <1>7, <1>8, <1>11 DEF r, D
  <1> QED BY <1>2, <1>9, <1>12, <1>13 DEF r, D1

\* The next task of the order is submitted; it was not waiting, for the order
\* names each task once.
LEMMA SubmitStep ==
    ASSUME NEW w \in Workflow, TypeOK, CallInv(w), Submit(w)
    PROVE  CallInv(w)'
  <1>1. /\ pc[w] = "submit" /\ submitted'[w] = submitted[w] + 1
        /\ UNCHANGED <<deps, pc, order, completed, cur, task, results, announced, history>>
    BY DEF Submit, TypeOK
  <1>2. PICK o \in Seq(Task), n \in Nat : o = order[w] /\ n = submitted[w]
    BY DEF TypeOK
  <1>3. n < Len(o) /\ Len(o) \in Nat /\ DOMAIN o = 1 .. Len(o)
    BY <1>2 DEF Submit
  <1>4. n + 1 \in DOMAIN o /\ 1 .. n \subseteq DOMAIN o /\ n + 1 \notin 1 .. n
        /\ n + 1 <= Len(o) /\ 1 .. (n + 1) = (1 .. n) \cup {n + 1}
    BY <1>3
  <1>5. o[n + 1] \in Task
    BY <1>3, <1>4
  <1>6. PICK e \in Pending : /\ e.task = o[n + 1]
                             /\ pending' = [pending EXCEPT ![w] = Append(@, e)]
    BY <1>2, <1>5, SubmitType DEF Submit
  <1>7. pending'[w] = Append(pending[w], e)
    BY <1>6 DEF TypeOK
  <1>8. Waiting(w) = {o[k] : k \in 1 .. n}
    BY <1>1, <1>2 DEF CallInv, CoverInv
  <1>9. \A i, j \in DOMAIN o : o[i] = o[j] => i = j
    BY <1>1, <1>2 DEF CallInv, OrderInv, TopologicalOrders
  <1>10. e.task \notin Waiting(w)
    BY <1>4, <1>6, <1>8, <1>9
  <1>11. /\ Waiting(w)' = Waiting(w) \cup {o[n + 1]}
         /\ \A i, j \in DOMAIN pending'[w] :
               pending'[w][i].task = pending'[w][j].task => i = j
    BY <1>6, <1>7, <1>10, AppendWaiting DEF CallInv
  <1>12. QueueInv(w)'
    <2>1. cur[w] = None /\ \A t \in Task : task[w][t].state = "Created"
      BY <1>1 DEF CallInv, CurInv
    <2>2. Waiting(w)' \subseteq Task /\ None \notin Task
      BY <1>5, <1>11, WaitingType, EngineAssumption
    <2> QED BY <1>1, <1>11, <2>1, <2>2 DEF QueueInv
  <1>13. CurInv(w)' /\ DoneInv(w)'
    BY <1>1 DEF CallInv, CurInv, DoneInv
  <1>14. CoverInv(w)'
    <2>1. Waiting(w)' = {o[k] : k \in 1 .. (n + 1)}
      BY <1>4, <1>8, <1>11
    <2> QED BY <1>1, <1>2, <1>4, <2>1 DEF CoverInv, Active
  <1>15. OrderInv(w)'
    BY <1>1 DEF CallInv, OrderInv, Active
  <1> QED BY <1>12, <1>13, <1>14, <1>15 DEF CallInv

\* When submission ends every task waits, for the order names every task.
LEMMA SubmitDoneStep ==
    ASSUME NEW w \in Workflow, TypeOK, CallInv(w), SubmitDone(w)
    PROVE  CallInv(w)'
  <1>1. /\ pc[w] = "submit" /\ pc'[w] = "loop" /\ submitted[w] = Len(order[w])
        /\ UNCHANGED <<deps, order, submitted, pending, completed, cur, task, results,
                       announced, history>>
    BY DEF SubmitDone, Goto, TypeOK, schedVars
  <1>2. QueueInv(w)' /\ Waiting(w)' = Waiting(w)
    BY <1>1 DEF CallInv, QueueInv, Waiting
  <1>3. CurInv(w)' /\ DoneInv(w)'
    BY <1>1 DEF CallInv, CurInv, DoneInv, Active
  <1>4. \A t \in Task : t \in Waiting(w)
    <2>1. order[w] \in TopologicalOrders(deps[w])
      BY <1>1 DEF CallInv, OrderInv
    <2>2. DOMAIN order[w] = 1 .. Len(order[w])
      BY DEF TypeOK
    <2>3. \A t \in Task : \E i \in DOMAIN order[w] : order[w][i] = t
      BY <2>1 DEF TopologicalOrders
    <2>4. Waiting(w) = {order[w][k] : k \in 1 .. Len(order[w])}
      BY <1>1 DEF CallInv, CoverInv
    <2> QED BY <2>2, <2>3, <2>4
  <1>5. CoverInv(w)'
    BY <1>1, <1>2, <1>4 DEF CoverInv, Active
  <1>6. OrderInv(w)'
    BY <1>1 DEF CallInv, OrderInv, Active
  <1> QED BY <1>2, <1>3, <1>5, <1>6 DEF CallInv

\* The dispatched task leaves the queue with its dependencies completed.
LEMMA DispatchStep ==
    ASSUME NEW w \in Workflow, TypeOK, CallInv(w), Dispatch(w)
    PROVE  CallInv(w)'
  <1>1. /\ pc[w] = "loop" /\ pc'[w] = "exec"
        /\ UNCHANGED <<deps, order, submitted, completed, results, announced, history>>
    BY DEF Dispatch, Goto, TypeOK
  <1>2. PICK i \in ReadyAt(pending[w], deps[w], completed[w]) :
          /\ cur' = [cur EXCEPT ![w] = pending[w][i].task]
          /\ pending' = [pending EXCEPT ![w] = SwapRemove(@, i)]
          /\ task' = IF task[w][pending[w][i].task].state = "Created"
                     THEN [task EXCEPT ![w][pending[w][i].task] = TransitionTo(@, "Queued")]
                     ELSE task
    BY DEF Dispatch, BestOf, BestAt
  <1> DEFINE t == pending[w][i].task
             q == pending[w]
             r == SwapRemove(q, i)
  <1>3. i \in DOMAIN q /\ deps[w][t] \subseteq completed[w]
    BY <1>2 DEF ReadyAt, DependenciesMet
  <1>4. q \in Seq(Pending) /\ t \in Task /\ t \in Waiting(w)
    BY <1>3, WaitingType DEF TypeOK, Waiting
  <1>5. cur'[w] = t /\ pending'[w] = r
    BY <1>2 DEF TypeOK
  <1>6. \A j, k \in DOMAIN q : q[j].task = q[k].task => j = k
    BY DEF CallInv, QueueInv
  <1>7. /\ \A j, k \in DOMAIN r : r[j].task = r[k].task => j = k
        /\ \A k \in DOMAIN r : r[k].task # t
        /\ \A j \in DOMAIN q : j # i => \E k \in DOMAIN r : r[k] = q[j]
    BY <1>3, <1>4, <1>6, SwapRemoveTasks
  <1>8. \A k \in DOMAIN r : \E j \in DOMAIN q : r[k] = q[j]
    BY <1>3, <1>4, SwapRemoveType
  <1> HIDE DEF q, r, t
  <1>9. Waiting(w)' = Waiting(w) \ {t}
    <2>1. Waiting(w)' = {r[k].task : k \in DOMAIN r}
      BY <1>5 DEF Waiting
    <2>2. Waiting(w) = {q[k].task : k \in DOMAIN q}
      BY DEF Waiting, q
    <2>3. t = q[i].task
      BY DEF t, q
    <2> QED BY <1>7, <1>8, <2>1, <2>2, <2>3
  <1>10. cur[w] = None /\ None \notin Task
    BY <1>1, EngineAssumption DEF CallInv, CurInv
  <1>11. task[w][t].state \in {"Created", "Queued"}
    BY <1>4 DEF CallInv, QueueInv
  <1>12. task'[w][t].state = "Queued"
    <2>1. CASE task[w][t].state = "Created"
      <3>1. task' = [task EXCEPT ![w][t] = TransitionTo(@, "Queued")]
        BY <1>2, <2>1 DEF t
      <3>2. task'[w][t] = TransitionTo(task[w][t], "Queued")
        BY <1>4, <3>1 DEF TypeOK
      <3>3. task[w][t] \in TaskRecord
        BY <1>4 DEF TypeOK, TaskRecord
      <3> QED BY <2>1, <3>2, <3>3, TransitionState DEF Edges
    <2>2. CASE task[w][t].state = "Queued"
      BY <1>2, <2>2 DEF t
    <2> QED BY <1>11, <2>1, <2>2
  <1>13. \A u \in Task \ {t} : task'[w][u] = task[w][u]
    BY <1>2, <1>4 DEF TypeOK, t
  <1>14. QueueInv(w)'
    <2>1. Waiting(w) \subseteq Task
      BY WaitingType
    <2>2. \A u \in Waiting(w) : task[w][u].state \in {"Created", "Queued"}
      BY DEF CallInv, QueueInv
    <2> QED BY <1>5, <1>7, <1>9, <1>13, <2>1, <2>2 DEF QueueInv
  <1>15. CurInv(w)'
    BY <1>1, <1>3, <1>4, <1>5, <1>12 DEF CurInv, Active
  <1>16. DoneInv(w)'
    <2>1. t \notin completed[w] /\ completed[w] \subseteq Task
      BY <1>11 DEF CallInv, DoneInv, TypeOK
    <2> QED BY <1>1, <1>13, <2>1 DEF CallInv, DoneInv
  <1>17. CoverInv(w)'
    <2>1. \A u \in Task : u \in completed[w] \/ u \in Waiting(w)
      BY <1>1, <1>10 DEF CallInv, CoverInv
    <2> QED BY <1>1, <1>5, <1>9, <2>1 DEF CoverInv, Active
  <1>18. OrderInv(w)'
    BY <1>1 DEF CallInv, OrderInv, Active
  <1> QED BY <1>14, <1>15, <1>16, <1>17, <1>18 DEF CallInv

\* A completed task is marked completed and its result is returned.
LEMMA CompleteStep ==
    ASSUME NEW w \in Workflow, TypeOK, CallInv(w), Complete(w)
    PROVE  CallInv(w)'
  <1>1. /\ pc[w] = "settle" /\ pc'[w] = "loop" /\ cur'[w] = None
        /\ task[w][cur[w]].state = "Completed"
        /\ completed'[w] = completed[w] \cup {cur[w]}
        /\ results'[w] = Append(results[w], cur[w])
        /\ UNCHANGED <<deps, order, submitted, pending, task, announced, history>>
    BY DEF Complete, Goto, TypeOK
  <1>2. cur[w] \in Task /\ None \notin Task
    BY <1>1, EngineAssumption DEF CallInv, CurInv, Active
  <1>3. Waiting(w)' = Waiting(w) /\ Waiting(w) \subseteq Task
    BY <1>1, WaitingType DEF Waiting
  <1>4. QueueInv(w)'
    BY <1>1, <1>2, <1>3 DEF CallInv, QueueInv
  <1>5. CurInv(w)'
    BY <1>1 DEF CallInv, CurInv, Active
  <1>6. DoneInv(w)'
    <2>1. PICK s \in Seq(Task), n \in Nat : s = results[w] /\ n = Len(s)
      BY DEF TypeOK
    <2>2. /\ DOMAIN s = 1 .. n /\ DOMAIN Append(s, cur[w]) = 1 .. (n + 1)
          /\ \A i \in 1 .. n : Append(s, cur[w])[i] = s[i]
          /\ Append(s, cur[w])[n + 1] = cur[w]
      BY <2>1, <1>2
    <2>3. n + 1 \in 1 .. (n + 1) /\ 1 .. n \subseteq 1 .. (n + 1)
      OBVIOUS
    <2>4. \A t \in completed[w] \cup {cur[w]} :
            \E i \in DOMAIN Append(s, cur[w]) : Append(s, cur[w])[i] = t
      <3>1. \A t \in completed[w] : \E i \in 1 .. n : s[i] = t
        BY <2>1, <2>2 DEF CallInv, DoneInv
      <3> QED BY <2>2, <2>3, <3>1
    <2>5. \A t \in completed[w] \cup {cur[w]} : task[w][t].state = "Completed"
      BY <1>1 DEF CallInv, DoneInv
    <2>6. \A t \in Task : history[w][t] # <<>> => deps[w][t] \subseteq completed[w] \cup {cur[w]}
      BY DEF CallInv, DoneInv
    <2> QED BY <1>1, <2>1, <2>4, <2>5, <2>6 DEF DoneInv
  <1>7. CoverInv(w)'
    BY <1>1, <1>3 DEF CallInv, CoverInv, Active
  <1>8. OrderInv(w)'
    BY <1>1 DEF CallInv, OrderInv, Active
  <1> QED BY <1>4, <1>5, <1>6, <1>7, <1>8 DEF CallInv

\* `requeue` takes a failed task through Rollback and Retry back to Queued.
LEMMA RecoveredState ==
    ASSUME NEW tk \in TaskRecord, tk.state = "Failed"
    PROVE  Recovered(tk).state = "Queued"
  <1> DEFINE a == TransitionTo(tk, "Rollback")
             b == TransitionTo(a, "Retry")
  <1>1. a \in TaskRecord /\ a.state = "Rollback"
    BY TransitionType, TransitionState DEF Edges, TaskState
  <1> HIDE DEF a
  <1>2. b \in TaskRecord /\ b.state = "Retry"
    BY <1>1, TransitionType, TransitionState DEF Edges, TaskState
  <1> HIDE DEF b
  <1>3. TransitionTo(b, "Queued").state = "Queued"
    BY <1>2, TransitionState DEF Edges
  <1> QED BY <1>3 DEF Recovered, a, b

\* A failed task waits again, once.
LEMMA RequeueStep ==
    ASSUME NEW w \in Workflow, TypeOK, CallInv(w), Requeue(w)
    PROVE  CallInv(w)'
  <1>1. /\ pc[w] = "settle" /\ pc'[w] = "loop" /\ cur'[w] = None
        /\ task[w][cur[w]].state = "Failed"
        /\ UNCHANGED <<deps, order, submitted, completed, results, announced, history>>
    BY DEF Requeue, Goto, TypeOK, CanRequeue
  <1>2. cur[w] \in Task /\ None \notin Task
    BY <1>1, EngineAssumption DEF CallInv, CurInv, Active
  <1>3. PICK e \in Pending : /\ e.task = cur[w]
                             /\ pending' = [pending EXCEPT ![w] = Append(@, e)]
    BY <1>2, SubmitType DEF Requeue
  <1>4. pending'[w] = Append(pending[w], e)
    BY <1>3 DEF TypeOK
  <1>5. e.task \notin Waiting(w) /\ QueueInv(w)
    BY <1>3 DEF CallInv, QueueInv
  <1>6. /\ Waiting(w)' = Waiting(w) \cup {cur[w]}
        /\ \A i, j \in DOMAIN pending'[w] :
              pending'[w][i].task = pending'[w][j].task => i = j
    BY <1>3, <1>4, <1>5, AppendWaiting
  <1>7. task'[w][cur[w]].state = "Queued"
    <2>1. task'[w][cur[w]] = Recovered(task[w][cur[w]])
      BY <1>2 DEF Requeue, TypeOK
    <2>2. task[w][cur[w]] \in TaskRecord
      BY <1>2 DEF TypeOK, TaskRecord
    <2> QED BY <1>1, <2>1, <2>2, RecoveredState
  <1>8. \A u \in Task \ {cur[w]} : task'[w][u] = task[w][u]
    BY <1>2 DEF Requeue, TypeOK
  <1>9. QueueInv(w)'
    <2>1. Waiting(w) \subseteq Task
      BY WaitingType
    <2> QED BY <1>1, <1>2, <1>5, <1>6, <1>7, <1>8, <2>1 DEF QueueInv
  <1>10. CurInv(w)'
    BY <1>1 DEF CurInv, Active
  <1>11. DoneInv(w)'
    <2>1. cur[w] \notin completed[w] /\ completed[w] \subseteq Task
      BY <1>1 DEF CallInv, DoneInv, TypeOK
    <2> QED BY <1>1, <1>8, <2>1 DEF CallInv, DoneInv
  <1>12. CoverInv(w)'
    BY <1>1, <1>6 DEF CallInv, CoverInv, Active
  <1>13. OrderInv(w)'
    BY <1>1 DEF CallInv, OrderInv, Active
  <1> QED BY <1>9, <1>10, <1>11, <1>12, <1>13 DEF CallInv

\* `dispatch_next` returns None in the loop of `run_workflow` only when every
\* task is completed: the first task of the order that is not completed waits,
\* and everything it depends on comes before it in the order.
LEMMA NothingLeftBehind ==
    ASSUME NEW w \in Workflow, TypeOK, CallInv(w), pc[w] = "loop", BestOf(w) = {}
    PROVE  completed[w] = Task
  <1> SUFFICES ASSUME completed[w] # Task PROVE FALSE
    OBVIOUS
  <1>1. PICK o \in Seq(Task) : o = order[w]
    BY DEF TypeOK
  <1>2. Len(o) \in Nat /\ DOMAIN o = 1 .. Len(o)
    BY <1>1
  <1>3. /\ \A t \in Task : \E i \in DOMAIN o : o[i] = t
        /\ \A i \in DOMAIN o : deps[w][o[i]] \subseteq {o[j] : j \in 1 .. (i - 1)}
    BY <1>1 DEF CallInv, OrderInv, TopologicalOrders
  <1> DEFINE T == {k \in DOMAIN o : o[k] \notin completed[w]}
  <1>4. T \in SUBSET Nat /\ T # {}
    <2>1. completed[w] \subseteq Task
      BY DEF TypeOK
    <2>2. PICK t \in Task : t \notin completed[w]
      BY <2>1
    <2>3. T # {}
      BY <1>3, <2>2
    <2>4. \A k \in 1 .. Len(o) : k \in Nat
      BY <1>2
    <2> QED BY <1>2, <2>3, <2>4
  <1>5. PICK m \in T : \A x \in T : m <= x
    BY <1>4, LeastNatural
  <1>6. m \in DOMAIN o /\ o[m] \in Task /\ o[m] \notin completed[w]
    BY <1>2, <1>5
  <1>7. \A j \in 1 .. (m - 1) : o[j] \in completed[w]
    <2>1. \A j \in 1 .. (m - 1) : j \in DOMAIN o /\ ~(m <= j)
      BY <1>2, <1>6
    <2> QED BY <1>5, <2>1
  <1>8. deps[w][o[m]] \subseteq completed[w]
    BY <1>3, <1>6, <1>7
  <1>9. o[m] \in Waiting(w)
    <2>1. cur[w] = None /\ None \notin Task
      BY EngineAssumption DEF CallInv, CurInv
    <2> QED BY <1>6, <2>1 DEF CallInv, CoverInv
  <1>10. PICK i \in DOMAIN pending[w] : pending[w][i].task = o[m]
    BY <1>9 DEF Waiting
  <1>11. i \in ReadyAt(pending[w], deps[w], completed[w])
    BY <1>8, <1>10 DEF ReadyAt, DependenciesMet
  <1>12. pending[w] \in Seq(Pending) /\ clock[w] + 1 \in Nat
    BY DEF TypeOK
  <1> QED BY <1>11, <1>12, BestExists DEF BestOf

\* The end of the loop.
LEMMA FinishStep ==
    ASSUME NEW w \in Workflow, TypeOK, CallInv(w), Finish(w)
    PROVE  CallInv(w)'
  <1>1. /\ pc[w] = "loop" /\ BestOf(w) = {} /\ pc'[w] = "ok"
        /\ UNCHANGED <<deps, order, submitted, pending, completed, cur, task, results, history>>
    BY DEF Finish, Goto, TypeOK
  <1>2. completed[w] = Task
    BY <1>1, NothingLeftBehind
  <1>3. QueueInv(w)'
    BY <1>1 DEF CallInv, QueueInv, Waiting
  <1>4. CurInv(w)' /\ DoneInv(w)'
    BY <1>1 DEF CallInv, CurInv, DoneInv, Active
  <1>5. CoverInv(w)' /\ OrderInv(w)'
    BY <1>1, <1>2 DEF CoverInv, OrderInv, Active
  <1> QED BY <1>3, <1>4, <1>5 DEF CallInv

\* Every step of the engine keeps the invariant of every call.
LEMMA InvStep == TypeOK /\ TypeOK' /\ Inv /\ [Next]_vars => Inv'
  <1> SUFFICES ASSUME TypeOK, TypeOK', Inv, [Next]_vars, NEW v \in Workflow PROVE CallInv(v)'
    BY DEF Inv
  <1>1. CASE UNCHANGED vars
    <2>1. CallInv(v) BY DEF Inv
    <2>2. Waiting(v)' = Waiting(v)
      BY <1>1 DEF Waiting, vars
    <2>3. QueueInv(v)' /\ CurInv(v)'
      BY <1>1, <2>1, <2>2 DEF vars, CallInv, QueueInv, CurInv
    <2>4. DoneInv(v)' /\ CoverInv(v)'
      BY <1>1, <2>1, <2>2 DEF vars, CallInv, DoneInv, CoverInv
    <2>5. OrderInv(v)'
      BY <1>1, <2>1 DEF vars, CallInv, OrderInv, TopologicalOrders
    <2> QED BY <2>3, <2>4, <2>5 DEF CallInv
  <1>2. ASSUME NEW w \in Workflow, Step(w) PROVE CallInv(v)'
    <2>1. CASE v # w
      BY <1>2, <2>1, OthersKeepInv
    <2>2. CASE v = w
      <3>1. CallInv(w) BY DEF Inv
      <3>2. CASE \/ Deny(w) \/ DenyAudit(w) \/ NoRuntime(w) \/ Start(w) \/ RunFails(w)
                 \/ RunSucceeds(w) \/ VerifyPasses(w) \/ VerifyFails(w) \/ Audit(w) \/ Abort(w)
        BY <2>2, <3>1, <3>2, ExecStep
      <3>3. CASE \/ Order(w) \/ Reject(w) \/ Submit(w) \/ SubmitDone(w) \/ Dispatch(w)
                 \/ Finish(w) \/ Complete(w) \/ Requeue(w)
        BY <2>2, <3>1, <3>3, OrderStep, RejectStep, SubmitStep, SubmitDoneStep, DispatchStep,
           FinishStep, CompleteStep, RequeueStep
      <3> QED BY <1>2, <3>2, <3>3 DEF Step
    <2> QED BY <2>1, <2>2
  <1> QED BY <1>1, <1>2 DEF Next, Terminated

------------------------------------------------------------------------------
\* The theorems

\* Calls start well typed, with nothing submitted, executed or completed.
LEMMA InitInv == Init => TypeOK /\ Inv
  <1> SUFFICES ASSUME Init PROVE TypeOK /\ Inv
    OBVIOUS
  <1>1. TypeOK
    <2>1. deps \in [Workflow -> [Task -> SUBSET Task]]
      BY EngineAssumption DEF Init
    <2>2. <<>> \in Seq(Task) /\ <<>> \in Seq(Pending) /\ <<>> \in Seq(Observable)
          /\ <<>> \in Seq(AuditRecord) /\ <<>> \in Seq(RuntimeName) /\ Len(<<>>) = 0
      OBVIOUS
    <2>3. audit \in Seq(AuditRecord) /\ Len(audit) <= MaxRecords
          /\ telemetry \in Seq(RuntimeName) /\ Len(telemetry) <= MaxSamples
      BY <2>2, EngineAssumption DEF Init
    <2>4. NewTask \in [state : TaskState, attempts : Nat]
      BY DEF NewTask, TaskState
    <2>5. task \in [Workflow -> [Task -> [state : TaskState, attempts : Nat]]]
      BY <2>4 DEF Init
    <2>6. history \in [Workflow -> [Task -> Seq(Observable)]]
      BY <2>2 DEF Init
    <2>7. pc \in [Workflow -> Locations]
      BY DEF Init, Locations
    <2>8. submitted \in [Workflow -> Nat] /\ clock \in [Workflow -> Nat]
      BY DEF Init
    <2>9. order \in [Workflow -> Seq(Task)] /\ results \in [Workflow -> Seq(Task)]
          /\ pending \in [Workflow -> Seq(Pending)]
      BY <2>2 DEF Init
    <2>10. completed \in [Workflow -> SUBSET Task] /\ cur \in [Workflow -> Task \cup {None}]
           /\ announced \subseteq Workflow
      BY DEF Init
    <2> QED BY <2>1, <2>3, <2>5, <2>6, <2>7, <2>8, <2>9, <2>10 DEF TypeOK
  <1>2. ASSUME NEW w \in Workflow PROVE CallInv(w)
    <2>1. /\ pc[w] = "entry" /\ pending[w] = <<>> /\ submitted[w] = 0 /\ cur[w] = None
          /\ completed[w] = {} /\ w \notin announced
          /\ \A t \in Task : task[w][t].state = "Created" /\ history[w][t] = <<>>
      BY DEF Init, NewTask
    <2>2. Waiting(w) = {} /\ DOMAIN pending[w] = {}
      BY <2>1 DEF Waiting
    <2> QED BY <2>1, <2>2 DEF CallInv, QueueInv, CurInv, DoneInv, CoverInv, OrderInv, Active
  <1> QED BY <1>1, <1>2 DEF Inv

\* The engine is type correct, its shared logs within their bounds, and each
\* call of `run_workflow` keeps its invariant, for any number of threads.
THEOREM InvariantHolds == SafetySpec => [](TypeOK /\ Inv)
  <1>1. Init => TypeOK /\ Inv
    BY InitInv
  <1>2. (TypeOK /\ Inv) /\ [Next]_vars => (TypeOK /\ Inv)'
    BY TypeStep, InvStep
  <1> QED BY <1>1, <1>2, PTL DEF SafetySpec

\* Every state of the engine is well typed, the audit log and the telemetry are
\* within `max_records` and `max_samples`.
THEOREM EngineTypeCorrect == SafetySpec => []TypeOK
  BY InvariantHolds, PTL

\* No task shows a sign of execution before its dependencies are Completed.
THEOREM RespectsDependencies == SafetySpec => []DependenciesRespected
  <1>1. TypeOK /\ Inv => DependenciesRespected
    <2> SUFFICES ASSUME TypeOK, Inv, NEW w \in Workflow, NEW t \in Task, history[w][t] # <<>>,
                        NEW d \in deps[w][t]
                 PROVE  task[w][d].state = "Completed"
      BY DEF DependenciesRespected
    <2> QED BY DEF Inv, CallInv, DoneInv
  <1> QED BY <1>1, InvariantHolds, PTL

\* WorkflowCompleted is published only over a workflow with every task Completed
\* and every result returned: the dispatch loop never ends with a task left.
THEOREM AnnouncesOnlyFinished == SafetySpec => []AnnouncedMeansFinished
  <1>1. TypeOK /\ Inv => AnnouncedMeansFinished
    <2> SUFFICES ASSUME TypeOK, Inv, NEW w \in announced, NEW t \in Task
                 PROVE  /\ task[w][t].state = "Completed"
                        /\ \E i \in DOMAIN results[w] : results[w][i] = t
      BY DEF AnnouncedMeansFinished
    <2>1. w \in Workflow
      BY DEF TypeOK
    <2>2. completed[w] = Task
      BY <2>1 DEF Inv, CallInv, OrderInv
    <2> QED BY <2>1, <2>2 DEF Inv, CallInv, DoneInv
  <1> QED BY <1>1, InvariantHolds, PTL

------------------------------------------------------------------------------
\* Refinement

\* The refinement mapping of Engine!Abstract.
Done == [w \in Workflow |-> {t \in Task : task[w][t].state = "Completed"}]
Status == [w \in Workflow |-> IF pc[w] \in {"ok", "err"} THEN pc[w] ELSE "running"]

\* A task is in its old state or in the one it was asked to enter.
LEMMA TransitionStates ==
    ASSUME NEW tk \in TaskRecord, NEW s
    PROVE  TransitionTo(tk, s).state \in {tk.state, s}
  BY DEF TransitionTo

\* Only a passing verification completes a task, and nothing undoes it.
LEMMA DoneUnchanged ==
    ASSUME TypeOK, Inv, NEW w \in Workflow, Step(w), ~ VerifyPasses(w)
    PROVE  Done' = Done
  <1>1. ASSUME NEW t \in Task, NEW s \in TaskState \ {"Completed"},
               task[w][t].state # "Completed",
               task' = [task EXCEPT ![w][t] = TransitionTo(@, s)]
        PROVE  Done' = Done
    <2>1. TransitionTo(task[w][t], s).state # "Completed"
      BY <1>1, TransitionStates DEF TypeOK, TaskRecord
    <2>2. task'[w][t] = TransitionTo(task[w][t], s)
      BY <1>1 DEF TypeOK
    <2>3. \A v \in Workflow, u \in Task : (v # w \/ u # t) => task'[v][u] = task[v][u]
      BY <1>1 DEF TypeOK
    <2>4. \A v \in Workflow, u \in Task :
            (task'[v][u].state = "Completed") <=> (task[v][u].state = "Completed")
      BY <1>1, <2>1, <2>2, <2>3
    <2> QED BY <2>4 DEF Done
  <1>2. ASSUME NEW s \in TaskState \ {"Completed"}, Transition(w, s), pc[w] \in Active \ {"audit", "settle"}
        PROVE  Done' = Done
    <2>1. cur[w] \in Task /\ task[w][cur[w]].state # "Completed"
      BY <1>2 DEF Inv, CallInv, CurInv, Active
    <2> QED BY <1>1, <1>2, <2>1 DEF Transition
  <1>3. CASE Start(w) \/ RunFails(w) \/ RunSucceeds(w) \/ VerifyFails(w)
    BY <1>2, <1>3 DEF Start, RunFails, RunSucceeds, VerifyFails, Active, TaskState
  <1>4. CASE Dispatch(w)
    <2>1. PICK i \in DOMAIN pending[w] :
            task' = IF task[w][pending[w][i].task].state = "Created"
                    THEN [task EXCEPT ![w][pending[w][i].task] = TransitionTo(@, "Queued")]
                    ELSE task
      <3>1. PICK i \in BestOf(w) :
              task' = IF task[w][pending[w][i].task].state = "Created"
                      THEN [task EXCEPT ![w][pending[w][i].task] = TransitionTo(@, "Queued")]
                      ELSE task
        BY <1>4, Zenon DEF Dispatch
      <3>2. i \in DOMAIN pending[w]
        BY DEF BestOf, BestAt, ReadyAt
      <3> QED BY <3>1, <3>2, Zenon
    <2>2. PICK t \in Task : t = pending[w][i].task
      BY WaitingType
    <2>3. CASE task[w][t].state = "Created"
      <3>1. task' = [task EXCEPT ![w][t] = TransitionTo(@, "Queued")]
        BY <2>1, <2>2, <2>3
      <3>2. "Queued" \in TaskState \ {"Completed"} /\ task[w][t].state # "Completed"
        BY <2>3 DEF TaskState
      <3> QED BY <1>1, <3>1, <3>2
    <2>4. CASE task[w][t].state # "Created"
      BY <2>1, <2>2, <2>4 DEF Done
    <2> QED BY <2>3, <2>4
  <1>5. CASE Requeue(w)
    <2>1. cur[w] \in Task /\ task[w][cur[w]].state = "Failed"
      BY <1>5 DEF Requeue, CanRequeue, Inv, CallInv, CurInv, Active
    <2>2. task[w][cur[w]] \in TaskRecord
      BY <2>1 DEF TypeOK, TaskRecord
    <2>3. Recovered(task[w][cur[w]]).state = "Queued"
      BY <2>1, <2>2, RecoveredState
    <2>4. task'[w][cur[w]] = Recovered(task[w][cur[w]])
      BY <1>5, <2>1 DEF Requeue, TypeOK
    <2>5. \A v \in Workflow, u \in Task : (v # w \/ u # cur[w]) => task'[v][u] = task[v][u]
      BY <1>5, <2>1 DEF Requeue, TypeOK
    <2>6. \A v \in Workflow, u \in Task :
            (task'[v][u].state = "Completed") <=> (task[v][u].state = "Completed")
      BY <2>1, <2>3, <2>4, <2>5
    <2> QED BY <2>6 DEF Done
  <1>6. CASE \/ Order(w) \/ Reject(w) \/ Submit(w) \/ SubmitDone(w) \/ Finish(w) \/ Deny(w)
             \/ DenyAudit(w) \/ NoRuntime(w) \/ Audit(w) \/ Complete(w) \/ Abort(w)
    <2>1. task' = task
      BY <1>6 DEF Order, Reject, Submit, SubmitDone, Finish, Deny, DenyAudit, NoRuntime, Audit,
                  Complete, Abort
    <2> QED BY <2>1 DEF Done
  <1> QED BY <1>3, <1>4, <1>5, <1>6 DEF Step

\* Every step of a call is a step of the abstract workflow, or none.
LEMMA StepRefines ==
    ASSUME TypeOK, Inv, NEW w \in Workflow, Step(w)
    PROVE  Abstract!Next \/ UNCHANGED Abstract!vars
  <1>1. deps' = deps
    BY DEF Step, Order, Reject, Submit, SubmitDone, Dispatch, Finish, Deny, DenyAudit,
           NoRuntime, Start, RunFails, RunSucceeds, VerifyPasses, VerifyFails, Audit,
           Complete, Requeue, Abort
  <1>2. pc[w] \notin {"ok", "err"}
    BY DEF Step, Order, Reject, Submit, SubmitDone, Dispatch, Finish, Deny, DenyAudit,
           NoRuntime, Start, RunFails, RunSucceeds, VerifyPasses, VerifyFails, Audit,
           Complete, Requeue, Abort
  <1>3. Status[w] = "running"
    BY <1>2 DEF Status
  <1>4. CASE VerifyPasses(w)
    <2>1. pc[w] = "verify" /\ pc' = [pc EXCEPT ![w] = "audit"]
      BY <1>4 DEF VerifyPasses, Goto
    <2>2. Status' = Status
      BY <2>1 DEF Status, TypeOK
    <2>3. /\ cur[w] \in Task /\ deps[w][cur[w]] \subseteq completed[w]
          /\ task[w][cur[w]].state = "Verifying"
      BY <2>1 DEF Inv, CallInv, CurInv, Active
    <2>4. task'[w][cur[w]].state = "Completed"
      <3>1. task[w][cur[w]] \in TaskRecord
        BY <2>3 DEF TypeOK, TaskRecord
      <3>2. TransitionTo(task[w][cur[w]], "Completed").state = "Completed"
        BY <2>3, <3>1, TransitionState DEF Edges
      <3>3. task'[w][cur[w]] = TransitionTo(task[w][cur[w]], "Completed")
        BY <1>4, <2>3 DEF VerifyPasses, Transition, TypeOK
      <3> QED BY <3>2, <3>3
    <2>5. \A v \in Workflow, u \in Task : (v # w \/ u # cur[w]) => task'[v][u] = task[v][u]
      BY <1>4, <2>3 DEF VerifyPasses, Transition, TypeOK
    <2> PICK c \in Task : c = cur[w]
      BY <2>3
    <2>6. Done' = [Done EXCEPT ![w] = @ \cup {c}]
      <3>1. Done'[w] = Done[w] \cup {c}
        BY <2>3, <2>4, <2>5 DEF Done
      <3>2. \A v \in Workflow \ {w} : Done'[v] = Done[v]
        BY <2>5 DEF Done
      <3> QED BY <3>1, <3>2 DEF Done
    <2>7. c \notin Done[w] /\ deps[w][c] \subseteq Done[w]
      <3>1. completed[w] \subseteq Task /\ \A t \in completed[w] : task[w][t].state = "Completed"
        BY DEF Inv, CallInv, DoneInv, TypeOK
      <3> QED BY <2>3, <3>1 DEF Done
    <2>8. Abstract!CompleteStep(w, c)
      BY <1>1, <1>3, <2>2, <2>6, <2>7 DEF Abstract!CompleteStep, Done, Status
    <2> QED BY <2>8 DEF Abstract!Next
  <1>5. CASE Finish(w)
    <2>1. Done' = Done
      BY <1>5, DoneUnchanged DEF Finish, VerifyPasses
    <2>2. Status' = [Status EXCEPT ![w] = "ok"]
      BY <1>5 DEF Finish, Goto, Status, TypeOK
    <2>3. Done[w] = Task
      <3>1. completed[w] = Task
        BY <1>5, NothingLeftBehind DEF Finish, Inv
      <3> QED BY <3>1 DEF Inv, CallInv, DoneInv, Done
    <2>4. Abstract!Finish(w)
      BY <1>1, <1>3, <2>1, <2>2, <2>3 DEF Abstract!Finish, Done, Status
    <2> QED BY <2>4 DEF Abstract!Next
  <1>6. CASE Reject(w) \/ Abort(w)
    <2>1. Done' = Done
      BY <1>6, DoneUnchanged DEF Reject, Abort, VerifyPasses
    <2>2. Status' = [Status EXCEPT ![w] = "err"]
      BY <1>6 DEF Reject, Abort, Goto, Status, TypeOK
    <2>3. Abstract!Fail(w)
      BY <1>1, <1>3, <2>1, <2>2 DEF Abstract!Fail, Done, Status
    <2> QED BY <2>3 DEF Abstract!Next
  <1>7. CASE ~(VerifyPasses(w) \/ Finish(w) \/ Reject(w) \/ Abort(w))
    <2>1. Done' = Done
      BY <1>7, DoneUnchanged
    <2>2. pc' = pc \/ \E loc \in Locations \ {"ok", "err"} : pc' = [pc EXCEPT ![w] = loc]
      BY <1>7 DEF Step, Order, Submit, SubmitDone, Dispatch, Deny, DenyAudit,
             NoRuntime, Start, RunFails, RunSucceeds, VerifyFails, Audit,
             Complete, Requeue, Goto, Locations
    <2>3. Status' = Status
      BY <1>2, <2>2 DEF Status, TypeOK
    <2> QED BY <1>1, <2>1, <2>3 DEF Abstract!vars, Done, Status
  <1> QED BY <1>4, <1>5, <1>6, <1>7

\* The engine, with any number of concurrent calls, implements WorkflowSpec.
THEOREM EngineImplementsWorkflowSpec == SafetySpec => ImplementsWorkflowSpec
  <1>1. Init => Abstract!Init
    <2> SUFFICES ASSUME Init PROVE Abstract!Init
      OBVIOUS
    <2>1. deps \in [Workflow -> [Task -> SUBSET Task]]
      BY EngineAssumption DEF Init
    <2>2. Done = [w \in Workflow |-> {}] /\ Status = [w \in Workflow |-> "running"]
      BY DEF Init, NewTask, Done, Status
    <2> QED BY <2>1, <2>2 DEF Abstract!Init, Done, Status
  <1>2. (TypeOK /\ Inv) /\ [Next]_vars => [Abstract!Next]_(Abstract!vars)
    <2> SUFFICES ASSUME TypeOK, Inv, [Next]_vars PROVE [Abstract!Next]_(Abstract!vars)
      OBVIOUS
    <2>1. CASE UNCHANGED vars
      BY <2>1 DEF vars, Abstract!vars
    <2>2. ASSUME NEW w \in Workflow, Step(w) PROVE [Abstract!Next]_(Abstract!vars)
      BY <2>2, StepRefines
    <2> QED BY <2>1, <2>2 DEF Next, Terminated
  <1> QED BY <1>1, <1>2, InvariantHolds, PTL DEF SafetySpec, ImplementsWorkflowSpec, Abstract!Spec
------------------------------------------------------------------------------
\* The order of the results

Returned(w) == {results[w][j] : j \in DOMAIN results[w]}

\* The results are those of the completed tasks, in an order of their own; the
\* task being executed is not among them.
ResultsInv(w) ==
    /\ pc[w] \in Active => cur[w] \notin completed[w]
    /\ Returned(w) = completed[w]
    /\ \A i, j \in DOMAIN results[w] : results[w][i] = results[w][j] => i = j
    /\ \A i \in DOMAIN results[w] :
          deps[w][results[w][i]] \subseteq {results[w][j] : j \in 1 .. (i - 1)}

LEMMA InitResults == Init => \A w \in Workflow : ResultsInv(w)
  BY DEF Init, ResultsInv, Returned, Active

\* Nothing ResultsInv speaks of changes, but that a call may leave `execute`.
LEMMA SameResults ==
    ASSUME NEW v \in Workflow, ResultsInv(v),
           completed'[v] = completed[v], results'[v] = results[v], deps'[v] = deps[v],
           pc'[v] \in Active => cur'[v] \notin completed[v]
    PROVE  ResultsInv(v)'
  BY DEF ResultsInv, Returned

\* The completed task's result comes last.
LEMMA CompleteResults ==
    ASSUME TypeOK, Inv, NEW w \in Workflow, ResultsInv(w), Complete(w)
    PROVE  ResultsInv(w)'
  <1>1. pc[w] = "settle" /\ cur[w] \in Task /\ deps[w][cur[w]] \subseteq completed[w]
    BY DEF Complete, Inv, CallInv, CurInv, Active
  <1> DEFINE n == Len(results[w]) + 1
  <1>2. results[w] \in Seq(Task) /\ Len(results[w]) \in Nat /\ DOMAIN results[w] = 1 .. Len(results[w])
    BY DEF TypeOK
  <1>3. /\ results'[w] = Append(results[w], cur[w])
        /\ completed'[w] = completed[w] \cup {cur[w]}
        /\ deps'[w] = deps[w] /\ pc'[w] = "loop"
    BY DEF Complete, Goto, TypeOK
  <1>4. /\ DOMAIN results'[w] = 1 .. n /\ results'[w][n] = cur[w]
        /\ \A i \in DOMAIN results[w] : results'[w][i] = results[w][i]
    BY <1>1, <1>2, <1>3
  <1>5. cur[w] \notin completed[w] /\ Returned(w) = completed[w]
    BY <1>1 DEF ResultsInv, Active
  <1>6. Returned(w)' = completed'[w]
    BY <1>2, <1>3, <1>4, <1>5 DEF Returned
  <1>7. ASSUME NEW i \in 1 .. n, NEW j \in 1 .. n, results'[w][i] = results'[w][j]
        PROVE  i = j
    <2>1. i \in DOMAIN results[w] \/ i = n
      BY <1>2
    <2>2. j \in DOMAIN results[w] \/ j = n
      BY <1>2
    <2>3. \A k \in DOMAIN results[w] : results[w][k] # cur[w]
      BY <1>5 DEF Returned
    <2> QED BY <1>4, <1>7, <2>1, <2>2, <2>3 DEF ResultsInv
  <1>8. ASSUME NEW i \in 1 .. n
        PROVE  deps[w][results'[w][i]] \subseteq {results'[w][j] : j \in 1 .. (i - 1)}
    <2>1. \A j \in 1 .. (i - 1) : j \in DOMAIN results[w]
      BY <1>2
    <2>2. {results'[w][j] : j \in 1 .. (i - 1)} = {results[w][j] : j \in 1 .. (i - 1)}
      BY <1>4, <2>1
    <2>3. CASE i \in DOMAIN results[w]
      BY <1>4, <2>2, <2>3 DEF ResultsInv
    <2>4. CASE i = n
      <3>1. {results[w][j] : j \in 1 .. (i - 1)} = completed[w]
        BY <1>2, <1>5, <2>4 DEF Returned
      <3> QED BY <1>1, <1>4, <2>2, <2>4, <3>1
    <2> QED BY <1>2, <2>3, <2>4
  <1>9. pc'[w] \notin Active
    BY <1>3 DEF Active
  <1> QED BY <1>3, <1>4, <1>6, <1>7, <1>8, <1>9 DEF ResultsInv

LEMMA ResultsStep ==
    ASSUME TypeOK, Inv, NEW w \in Workflow, Step(w), NEW v \in Workflow, ResultsInv(v)
    PROVE  ResultsInv(v)'
  <1>1. CASE v # w
    <2>1. /\ deps'[v] = deps[v] /\ pc'[v] = pc[v] /\ completed'[v] = completed[v]
          /\ cur'[v] = cur[v] /\ results'[v] = results[v]
      BY <1>1 DEF Step, Order, Reject, Submit, SubmitDone, Dispatch, Finish, Deny, DenyAudit,
             NoRuntime, Start, RunFails, RunSucceeds, VerifyPasses, VerifyFails, Audit,
             Complete, Requeue, Abort, Goto, schedVars, TypeOK
    <2> QED BY <2>1, SameResults DEF ResultsInv
  <1>2. CASE v = w /\ Complete(w)
    BY <1>2, CompleteResults
  <1>3. CASE v = w /\ Dispatch(w)
    <2>1. PICK i \in DOMAIN pending[w] : cur' = [cur EXCEPT ![w] = pending[w][i].task]
      BY <1>3 DEF Dispatch, BestOf, BestAt, ReadyAt
    <2>2. pending[w][i].task \in Task /\ pending[w][i].task \in Waiting(w)
      BY WaitingType DEF Waiting
    <2>3. task[w][pending[w][i].task].state \in {"Created", "Queued"}
      BY <2>2 DEF Inv, CallInv, QueueInv
    <2>4. pending[w][i].task \notin completed[w]
      BY <2>2, <2>3 DEF Inv, CallInv, DoneInv
    <2>5. cur'[w] \notin completed[w]
      BY <2>1, <2>4 DEF TypeOK
    <2>6. completed' = completed /\ results' = results /\ deps' = deps
      BY <1>3 DEF Dispatch
    <2> QED BY <1>3, <2>5, <2>6, SameResults
  <1>4. CASE v = w /\ (Deny(w) \/ DenyAudit(w) \/ NoRuntime(w) \/ Start(w) \/ RunFails(w)
                         \/ RunSucceeds(w) \/ VerifyPasses(w) \/ VerifyFails(w) \/ Audit(w))
    <2>1. pc[w] \in Active /\ UNCHANGED <<deps, completed, cur, results>>
      BY <1>4 DEF Deny, DenyAudit, NoRuntime, Start, RunFails, RunSucceeds, VerifyPasses,
             VerifyFails, Audit, schedVars, Active
    <2> QED BY <1>4, <2>1, SameResults DEF ResultsInv
  <1>5. CASE v = w /\ (Order(w) \/ Reject(w) \/ Submit(w) \/ SubmitDone(w) \/ Finish(w)
                         \/ Requeue(w) \/ Abort(w))
    <2>1. pc'[w] \notin Active /\ UNCHANGED <<deps, completed, results>>
      BY <1>5 DEF Order, Reject, Submit, SubmitDone, Finish, Requeue, Abort, Goto, schedVars,
             Active, TypeOK
    <2> QED BY <1>5, <2>1, SameResults
  <1> QED BY <1>1, <1>2, <1>3, <1>4, <1>5 DEF Step

\* The results `run_workflow` returns are in dependency order, each task once
\* (sdk/src/engine.rs, the `results.push` of the dispatch loop).
THEOREM ResultsFollowDependencies == SafetySpec => []ResultsInDependencyOrder
  <1> DEFINE All == \A w \in Workflow : ResultsInv(w)
  <1>1. (TypeOK /\ Inv) /\ All /\ [Next]_vars => All'
    <2> SUFFICES ASSUME TypeOK, Inv, All, [Next]_vars, NEW v \in Workflow
                 PROVE  ResultsInv(v)'
      OBVIOUS
    <2>1. CASE UNCHANGED vars
      BY <2>1 DEF vars, ResultsInv, Returned
    <2>2. ASSUME NEW w \in Workflow, Step(w) PROVE ResultsInv(v)'
      BY <2>2, ResultsStep
    <2> QED BY <2>1, <2>2 DEF Next, Terminated
  <1>2. All => ResultsInDependencyOrder
    BY DEF ResultsInv, ResultsInDependencyOrder
  <1>3. Init => All
    BY InitResults
  <1> HIDE DEF All
  <1> QED BY <1>1, <1>2, <1>3, InvariantHolds, PTL DEF SafetySpec

------------------------------------------------------------------------------
\* Events and audit records

\* An execution of the task stops before a runtime.
Unreached(w, t) == IsDenied(w, t) \/ Runtime[CapabilityOf[w][t]] = None

\* The retry budget holds, and only a task that reached a runtime is retried.
BudgetInv(w) ==
    \A t \in Task :
        /\ task[w][t].attempts <= MAX_TASK_RETRIES
        /\ task[w][t].state = "Created" \/ Unreached(w, t) => task[w][t].attempts = 0

\* What has been seen of a task that is not being executed: its failed attempts,
\* and the last one if it has completed.
Seen(tk) ==
    CASE tk.state = "Created"   -> <<>>
      [] tk.state = "Queued"    -> Failures(tk.attempts)
      [] tk.state = "Completed" ->
             Failures(tk.attempts) \o <<"TaskStarted", "TaskCompleted", "audit">>

RestInv(w) ==
    \A t \in Task \ {cur[w]} :
        /\ task[w][t].state \in {"Created", "Queued", "Completed"}
        /\ history[w][t] = Seen(task[w][t])

\* What has been seen of the task being executed, after each step of `execute`.
StageInv(w) ==
    LET t    == cur[w]
        tk   == task[w][t]
        past == Failures(tk.attempts)
    IN  /\ pc[w] = "exec" => history[w][t] = past
        /\ pc[w] = "denied" =>
              IsDenied(w, t) /\ history[w][t] = past \o <<"PolicyViolation">>
        /\ pc[w] \in {"run", "verify"} =>
              ~ Unreached(w, t) /\ history[w][t] = past \o <<"TaskStarted">>
        /\ pc[w] = "audit" =>
              /\ ~ Unreached(w, t)
              /\ history[w][t] = past \o <<"TaskStarted",
                     IF tk.state = "Failed" THEN "TaskFailed" ELSE "TaskCompleted">>
        /\ pc[w] = "settle" \/ (pc[w] = "err" /\ t # None) =>
              /\ tk.state \in {"Queued", "Completed", "Failed"}
              /\ tk.state = "Queued" <=> Unreached(w, t)
              /\ history[w][t] = ExpectedHistory(w, t)
        /\ pc[w] = "err" /\ t # None =>
              /\ tk.state # "Completed"
              /\ tk.state = "Failed" => tk.attempts = MAX_TASK_RETRIES

HistoryInv(w) == BudgetInv(w) /\ RestInv(w) /\ StageInv(w)

\* Events and audit of every call, wherever it is.
HistInv == \A w \in Workflow : HistoryInv(w)

\* No failed attempt, and one more.
LEMMA FailuresGrow ==
    /\ Failures(0) = <<>>
    /\ \A k \in Nat : /\ Failures(k) \in Seq(Observable)
                      /\ Failures(k) \o FailedAttempt = Failures(k + 1)
  <1>1. Failures(0) = <<>>
    BY DEF Failures
  <1>2. \A i \in 1 .. 3 : FailedAttempt[i] \in Observable
    BY DEF FailedAttempt, Observable
  <1>3. FailedAttempt \in Seq(Observable) /\ Len(FailedAttempt) = 3
    BY DEF FailedAttempt, Observable
  <1> SUFFICES ASSUME NEW k \in Nat
               PROVE  /\ Failures(k) \in Seq(Observable)
                      /\ Failures(k) \o FailedAttempt = Failures(k + 1)
    BY <1>1
  <1>4. ASSUME NEW j \in Nat PROVE Failures(j) \in Seq(Observable) /\ Len(Failures(j)) = 3 * j
    <2>1. 3 * j \in Nat
      OBVIOUS
    <2>2. \A i \in 1 .. (3 * j) : 1 + ((i - 1) % 3) \in 1 .. 3
      OBVIOUS
    <2>3. \A i \in 1 .. (3 * j) : FailedAttempt[1 + ((i - 1) % 3)] \in Observable
      BY <2>2, <1>2
    <2> HIDE DEF FailedAttempt
    <2>4. Failures(j) \in [1 .. (3 * j) -> Observable]
      BY <2>3 DEF Failures
    <2> QED BY <2>1, <2>4, SeqDef, LenProperties
  <1>5. Failures(k) \in Seq(Observable) /\ Len(Failures(k)) = 3 * k
    BY <1>4
  <1>6. Failures(k + 1) \in Seq(Observable) /\ Len(Failures(k + 1)) = 3 * (k + 1)
    BY <1>4
  <1> DEFINE f == Failures(k) \o FailedAttempt
  <1>7. /\ f \in Seq(Observable) /\ Len(f) = 3 * k + 3
        /\ \A i \in 1 .. (3 * k + 3) :
              f[i] = IF i <= 3 * k THEN Failures(k)[i] ELSE FailedAttempt[i - 3 * k]
    <2>1. PICK s1 \in Seq(Observable), s2 \in Seq(Observable), n \in Nat :
            s1 = Failures(k) /\ s2 = FailedAttempt /\ n = 3 * k
      BY <1>3, <1>5
    <2>2. Len(s1) = n /\ Len(s2) = 3
      BY <2>1, <1>3, <1>5
    <2>3. /\ s1 \o s2 \in Seq(Observable) /\ Len(s1 \o s2) = n + 3
          /\ \A i \in 1 .. (n + 3) : (s1 \o s2)[i] = IF i <= n THEN s1[i] ELSE s2[i - n]
      <3>1. /\ s1 \o s2 \in Seq(Observable) /\ Len(s1 \o s2) = Len(s1) + Len(s2)
            /\ \A i \in 1 .. Len(s1) + Len(s2) :
                  (s1 \o s2)[i] = IF i <= Len(s1) THEN s1[i] ELSE s2[i - Len(s1)]
        BY ONLY ConcatProperties, s1 \in Seq(Observable), s2 \in Seq(Observable)
      <3> QED BY <2>2, <3>1
    <2> HIDE DEF FailedAttempt
    <2> QED BY <2>1, <2>3
  <1>8. \A i \in 1 .. (3 * k + 3) : Failures(k + 1)[i] = FailedAttempt[1 + ((i - 1) % 3)]
    <2>1. 3 * (k + 1) = 3 * k + 3
      OBVIOUS
    <2> QED BY <2>1 DEF Failures
  <1>9. ASSUME NEW i \in 1 .. (3 * k + 3) PROVE f[i] = Failures(k + 1)[i]
    <2>1. CASE i <= 3 * k
      <3>1. Failures(k)[i] = FailedAttempt[1 + ((i - 1) % 3)]
        BY <2>1 DEF Failures
      <3> HIDE DEF f
      <3> QED BY <1>7, <1>8, <2>1, <3>1
    <2>2. CASE i > 3 * k
      <3>1. i - 3 * k \in 1 .. 3
        BY <2>2
      <3>2. 1 + ((i - 1) % 3) = i - 3 * k
        BY <3>1
      <3> HIDE DEF f
      <3> QED BY <1>7, <1>8, <2>2, <3>2
    <2>3. i \in Int /\ 3 * k \in Int
      OBVIOUS
    <2>4. i <= 3 * k \/ i > 3 * k
      BY <2>3
    <2> HIDE DEF f
    <2> QED BY <2>1, <2>2, <2>4
  <1>10. f = Failures(k + 1)
    <2> HIDE DEF f
    <2>1. Len(f) = Len(Failures(k + 1)) /\ Len(f) = 3 * k + 3
      BY <1>6, <1>7
    <2> QED BY <1>6, <1>7, <1>9, <2>1, SeqEqual
  <1> QED BY <1>5, <1>10

\* What is published next comes last.
LEMMA NextSeen ==
    ASSUME NEW past \in Seq(Observable), NEW a \in Observable, NEW b \in Observable,
           NEW c \in Observable
    PROVE  /\ Append(past, a) = past \o <<a>>
           /\ Append(past \o <<a>>, b) = past \o <<a, b>>
           /\ Append(past \o <<a, b>>, c) = past \o <<a, b, c>>
           /\ <<>> \o <<a, b>> = <<a, b>> /\ <<>> \o <<a>> = <<a>>
  <1>1. <<a>> \in Seq(Observable) /\ <<b>> \in Seq(Observable) /\ <<c>> \in Seq(Observable)
        /\ <<a, b>> \in Seq(Observable)
    OBVIOUS
  <1>2. Append(<<a>>, b) = <<a, b>> /\ Append(<<a, b>>, c) = <<a, b, c>>
    <2>1. Append(<<a>>, b) = <<a, b>>
      <3>1. /\ Append(<<a>>, b) \in Seq(Observable) /\ Len(Append(<<a>>, b)) = 2
            /\ Append(<<a>>, b)[1] = a /\ Append(<<a>>, b)[2] = b
        BY <1>1, AppendProperties
      <3>2. PICK u \in Seq(Observable), v \in Seq(Observable) :
              u = Append(<<a>>, b) /\ v = <<a, b>>
        BY <1>1, <3>1
      <3>3. Len(v) = 2 /\ v[1] = a /\ v[2] = b
        BY <3>2
      <3>4. \A i \in 1 .. 2 : u[i] = v[i]
        BY <3>1, <3>2, <3>3
      <3> QED BY <3>1, <3>2, <3>3, <3>4, SeqEqual
    <2>2. Append(<<a, b>>, c) = <<a, b, c>>
      <3>1. /\ Append(<<a, b>>, c) \in Seq(Observable) /\ Len(Append(<<a, b>>, c)) = 3
            /\ Append(<<a, b>>, c)[1] = a /\ Append(<<a, b>>, c)[2] = b
            /\ Append(<<a, b>>, c)[3] = c
        BY <1>1, AppendProperties
      <3>2. <<a, b, c>> \in Seq(Observable)
        OBVIOUS
      <3>3. PICK u \in Seq(Observable), v \in Seq(Observable) :
              u = Append(<<a, b>>, c) /\ v = <<a, b, c>>
        BY <3>1, <3>2
      <3>4. Len(v) = 3 /\ v[1] = a /\ v[2] = b /\ v[3] = c
        BY <3>3
      <3>5. \A i \in 1 .. 3 : u[i] = v[i]
        BY <3>1, <3>3, <3>4
      <3> QED BY <3>1, <3>3, <3>4, <3>5, SeqEqual
    <2> QED BY <2>1, <2>2
  <1>3. <<a>> \o <<b>> = <<a, b>> /\ <<a, b>> \o <<c>> = <<a, b, c>>
    BY <1>1, <1>2, AppendIsConcat
  <1>4. past \o <<a>> \in Seq(Observable) /\ past \o <<a, b>> \in Seq(Observable)
    BY <1>1, ConcatProperties
  <1>5. Append(past, a) = past \o <<a>>
    BY AppendIsConcat
  <1>6. Append(past \o <<a>>, b) = past \o <<a, b>>
    <2>1. Append(past \o <<a>>, b) = (past \o <<a>>) \o <<b>>
      BY <1>4, AppendIsConcat
    <2>2. (past \o <<a>>) \o <<b>> = past \o (<<a>> \o <<b>>)
      BY <1>1, ConcatAssociative
    <2> QED BY <2>1, <2>2, <1>3
  <1>7. Append(past \o <<a, b>>, c) = past \o <<a, b, c>>
    <2>1. Append(past \o <<a, b>>, c) = (past \o <<a, b>>) \o <<c>>
      BY <1>4, AppendIsConcat
    <2>2. (past \o <<a, b>>) \o <<c>> = past \o (<<a, b>> \o <<c>>)
      BY <1>1, ConcatAssociative
    <2> QED BY <2>1, <2>2, <1>3
  <1>8. <<>> \o <<a, b>> = <<a, b>> /\ <<>> \o <<a>> = <<a>>
    BY <1>1, ConcatEmptySeq
  <1> QED BY <1>5, <1>6, <1>7, <1>8

\* What a step of `execute` does to the task it executes, and to no other.
LEMMA ExecEffect ==
    ASSUME NEW w \in Workflow, TypeOK, CallInv(w),
           \/ Deny(w) \/ DenyAudit(w) \/ NoRuntime(w) \/ Start(w) \/ RunFails(w)
           \/ RunSucceeds(w) \/ VerifyPasses(w) \/ VerifyFails(w) \/ Audit(w) \/ Abort(w)
    PROVE  /\ cur[w] \in Task /\ cur' = cur /\ pc[w] \in Active
           /\ \A t \in Task \ {cur[w]} : task'[w][t] = task[w][t] /\ history'[w][t] = history[w][t]
           /\ task[w][cur[w]] \in TaskRecord
           /\ task'[w][cur[w]].attempts = task[w][cur[w]].attempts
           /\ task'[w][cur[w]].state = "Created" => task[w][cur[w]].state = "Created"
  <1>1. pc[w] \in Active
    BY ExecGoes
  <1>2. cur[w] \in Task /\ task[w][cur[w]] \in TaskRecord
    BY <1>1 DEF CallInv, CurInv, TypeOK, TaskRecord
  <1>3. cur' = cur
    BY ExecGoes
  <1>4. \A t \in Task \ {cur[w]} : history'[w][t] = history[w][t]
    <2>1. ASSUME NEW e, Publish(w, e)
          PROVE  \A t \in Task \ {cur[w]} : history'[w][t] = history[w][t]
      BY <2>1, <1>2 DEF Publish, TypeOK
    <2>2. history' = history \/ \E e : Publish(w, e)
      BY ExecShows
    <2> QED BY <2>1, <2>2
  <1>5. task' = task \/ \E s \in TaskState \ {"Created", "Retry"} : Transition(w, s)
    BY ExecTask
  <1>6. ASSUME NEW s \in TaskState \ {"Created", "Retry"}, Transition(w, s)
        PROVE  /\ \A t \in Task \ {cur[w]} : task'[w][t] = task[w][t]
               /\ task'[w][cur[w]].attempts = task[w][cur[w]].attempts
               /\ task'[w][cur[w]].state = "Created" => task[w][cur[w]].state = "Created"
    <2>1. task'[w][cur[w]] = TransitionTo(task[w][cur[w]], s)
      BY <1>2, <1>6 DEF Transition, TypeOK
    <2>2. \A t \in Task \ {cur[w]} : task'[w][t] = task[w][t]
      BY <1>2, <1>6 DEF Transition, TypeOK
    <2> QED BY <2>1, <2>2, <1>2, <1>6 DEF TransitionTo, TaskRecord
  <1> QED BY <1>1, <1>2, <1>3, <1>4, <1>5, <1>6

\* A step of another call shows nothing of this call's tasks.
LEMMA OthersKeepHistory ==
    ASSUME TypeOK, NEW w \in Workflow, Step(w), NEW v \in Workflow, v # w, HistoryInv(v)
    PROVE  HistoryInv(v)'
  <1>1. cur'[v] = cur[v] /\ pc'[v] = pc[v]
    BY StepIsLocal
  <1>2. task'[v] = task[v]
    BY StepIsLocal
  <1>3. history'[v] = history[v]
    BY StepIsLocal
  <1> QED BY <1>1, <1>2, <1>3
          DEF HistoryInv, BudgetInv, RestInv, StageInv, ExpectedHistory

\* A step of `execute` keeps the budgets and what is known of the other tasks.
LEMMA ExecKeepsRest ==
    ASSUME NEW w \in Workflow, TypeOK, CallInv(w), HistoryInv(w),
           \/ Deny(w) \/ DenyAudit(w) \/ NoRuntime(w) \/ Start(w) \/ RunFails(w)
           \/ RunSucceeds(w) \/ VerifyPasses(w) \/ VerifyFails(w) \/ Audit(w) \/ Abort(w)
    PROVE  BudgetInv(w)' /\ RestInv(w)'
  <1>1. BudgetInv(w)'
    BY ExecEffect DEF HistoryInv, BudgetInv, Unreached, IsDenied
  <1>2. RestInv(w)'
    BY ExecEffect DEF HistoryInv, RestInv, Seen
  <1> QED BY <1>1, <1>2

\* Every step of `execute` shows of its task what the task's state calls for.
LEMMA ExecHistory ==
    ASSUME NEW w \in Workflow, TypeOK, CallInv(w), HistoryInv(w),
           \/ Deny(w) \/ DenyAudit(w) \/ NoRuntime(w) \/ Start(w) \/ RunFails(w)
           \/ RunSucceeds(w) \/ VerifyPasses(w) \/ VerifyFails(w) \/ Audit(w) \/ Abort(w)
    PROVE  HistoryInv(w)'
  <1>1. BudgetInv(w)' /\ RestInv(w)'
    BY ExecKeepsRest
  <1>2. PICK t \in Task, k \in Nat, past \in Seq(Observable) :
          t = cur[w] /\ k = task[w][t].attempts /\ past = Failures(k)
    BY ExecEffect, FailuresGrow DEF TaskRecord
  <1>3. /\ cur'[w] = t /\ t # None /\ pc'[w] \in Locations
        /\ task[w][t] \in TaskRecord /\ task'[w][t].attempts = k
    <2>1. cur'[w] = t /\ t # None /\ task[w][t] \in TaskRecord /\ task'[w][t].attempts = k
      BY <1>2, ExecEffect, EngineAssumption
    <2>2. pc'[w] \in Locations
      BY ExecGoes DEF Goto, TypeOK
    <2> QED BY <2>1, <2>2
  <1>4. {"PolicyViolation", "TaskStarted", "TaskFailed", "TaskCompleted", "audit",
         "audit.error"} \subseteq Observable
    BY DEF Observable
  <1>19. /\ \A e \in Observable : Append(past, e) = past \o <<e>> /\ <<>> \o <<e>> = <<e>>
         /\ \A d, e \in Observable : /\ Append(past \o <<d>>, e) = past \o <<d, e>>
                                       /\ <<>> \o <<d, e>> = <<d, e>>
    BY NextSeen
  <1>20. /\ Append(past \o <<"TaskStarted", "TaskFailed">>, "audit.error")
               = past \o <<"TaskStarted", "TaskFailed", "audit.error">>
         /\ Append(past \o <<"TaskStarted", "TaskCompleted">>, "audit")
               = past \o <<"TaskStarted", "TaskCompleted", "audit">>
         /\ Append(past \o <<"PolicyViolation">>, "audit.error")
               = past \o <<"PolicyViolation", "audit.error">>
         /\ <<>> \o <<"PolicyViolation", "audit.error">> = <<"PolicyViolation", "audit.error">>
    <2>1. ASSUME NEW d \in Observable, NEW e \in Observable
          PROVE  <<>> \o <<d, e>> = <<d, e>> /\ Append(past \o <<d>>, e) = past \o <<d, e>>
      BY <1>19
    <2>2. ASSUME NEW c \in Observable, NEW d \in Observable, NEW e \in Observable
          PROVE  Append(past \o <<c, d>>, e) = past \o <<c, d, e>>
      BY NextSeen
    <2> QED BY ONLY <1>4, <2>1, <2>2
  <1>5. StageInv(w) /\ BudgetInv(w)
    BY DEF HistoryInv
  <1>6. Unreached(w, t) => k = 0 /\ past = <<>>
    BY <1>2, <1>5, FailuresGrow DEF BudgetInv
  <1>7. ASSUME NEW e, Publish(w, e) PROVE history'[w][t] = Append(history[w][t], e)
    BY <1>2, <1>7 DEF Publish, TypeOK
  <1>8. ASSUME NEW error \in BOOLEAN, RecordAudit(w, error)
        PROVE  history'[w][t] = Append(history[w][t], IF error THEN "audit.error" ELSE "audit")
    BY <1>2, <1>8 DEF RecordAudit, TypeOK
  <1>9. ASSUME NEW s, Transition(w, s), <<task[w][t].state, s>> \in Edges
        PROVE  task'[w][t].state = s
    <2>1. task'[w][t] = TransitionTo(task[w][t], s)
      BY <1>9, <1>2 DEF Transition, TypeOK
    <2> QED BY <2>1, <1>3, <1>9, TransitionState
  <1>10. CASE Deny(w)
    <2>1. pc[w] = "exec" /\ pc'[w] = "denied" /\ IsDenied(w, t)
      BY <1>2, <1>10 DEF Deny, Goto, TypeOK
    <2>2. history'[w][t] = past \o <<"PolicyViolation">>
      <3>1. history[w][t] = past
        BY <2>1, <1>2, <1>5 DEF StageInv
      <3>2. history'[w][t] = Append(history[w][t], "PolicyViolation")
        BY <1>7, <1>10 DEF Deny
      <3> QED BY <3>1, <3>2, <1>4, <1>19
    <2> QED BY <1>1, <1>2, <1>3, <2>1, <2>2 DEF HistoryInv, StageInv, IsDenied
  <1>11. CASE DenyAudit(w)
    <2>1. pc[w] = "denied" /\ pc'[w] = "settle" /\ IsDenied(w, t) /\ task' = task
          /\ task[w][t].state = "Queued"
      BY <1>2, <1>5, <1>11 DEF DenyAudit, Goto, TypeOK, StageInv, CallInv, CurInv
    <2>2. history'[w][t] = <<"PolicyViolation", "audit.error">>
      <3>1. history[w][t] = past \o <<"PolicyViolation">>
        BY <2>1, <1>2, <1>5 DEF StageInv
      <3>2. history'[w][t] = Append(history[w][t], "audit.error")
        BY <1>8, <1>11 DEF DenyAudit
      <3> QED BY <3>1, <3>2, <2>1, <1>6, <1>20 DEF Unreached
    <2> QED BY <1>1, <1>2, <1>3, <2>1, <2>2
            DEF HistoryInv, StageInv, IsDenied, Unreached, ExpectedHistory
  <1>12. CASE NoRuntime(w)
    <2>1. pc[w] = "exec" /\ pc'[w] = "settle" /\ ~ IsDenied(w, t) /\ Unreached(w, t)
          /\ task' = task /\ task[w][t].state = "Queued"
      BY <1>2, <1>12 DEF NoRuntime, Goto, TypeOK, Unreached, CallInv, CurInv
    <2>2. history'[w][t] = <<"audit.error">>
      <3>1. history[w][t] = past
        BY <2>1, <1>2, <1>5 DEF StageInv
      <3>2. history'[w][t] = Append(history[w][t], "audit.error")
        BY <1>8, <1>12 DEF NoRuntime
      <3> QED BY <3>1, <3>2, <2>1, <1>4, <1>6, <1>19
    <2> QED BY <1>1, <1>2, <1>3, <2>1, <2>2
            DEF HistoryInv, StageInv, IsDenied, Unreached, ExpectedHistory
  <1>13. CASE Start(w)
    <2>1. pc[w] = "exec" /\ pc'[w] = "run" /\ ~ Unreached(w, t)
      BY <1>2, <1>13 DEF Start, Goto, TypeOK, Unreached
    <2>2. history'[w][t] = past \o <<"TaskStarted">>
      <3>1. history[w][t] = past
        BY <2>1, <1>2, <1>5 DEF StageInv
      <3>2. history'[w][t] = Append(history[w][t], "TaskStarted")
        BY <1>7, <1>13 DEF Start
      <3> QED BY <3>1, <3>2, <1>4, <1>19
    <2> QED BY <1>1, <1>2, <1>3, <2>1, <2>2 DEF HistoryInv, StageInv, Unreached, IsDenied
  <1>14. CASE RunSucceeds(w)
    <2>1. pc[w] = "run" /\ pc'[w] = "verify" /\ ~ Unreached(w, t) /\ history' = history
      BY <1>2, <1>5, <1>14 DEF RunSucceeds, Goto, TypeOK, StageInv
    <2>2. history'[w][t] = past \o <<"TaskStarted">>
      BY <2>1, <1>2, <1>5 DEF StageInv
    <2> QED BY <1>1, <1>2, <1>3, <2>1, <2>2 DEF HistoryInv, StageInv, Unreached, IsDenied
  <1>15. CASE RunFails(w) \/ VerifyFails(w)
    <2>1. pc[w] \in {"run", "verify"} /\ pc'[w] = "audit" /\ ~ Unreached(w, t)
      BY <1>2, <1>5, <1>15 DEF RunFails, VerifyFails, Goto, TypeOK, StageInv
    <2>2. history'[w][t] = past \o <<"TaskStarted", "TaskFailed">>
      <3>1. history[w][t] = past \o <<"TaskStarted">>
        BY <2>1, <1>2, <1>5 DEF StageInv
      <3>2. history'[w][t] = Append(history[w][t], "TaskFailed")
        BY <1>7, <1>15 DEF RunFails, VerifyFails
      <3> QED BY <3>1, <3>2, <1>4, <1>19
    <2>3. task'[w][t].state = "Failed"
      <3>1. <<task[w][t].state, "Failed">> \in Edges
        BY <1>2, <1>15 DEF RunFails, VerifyFails, CallInv, CurInv, Edges
      <3> QED BY <3>1, <1>9, <1>15 DEF RunFails, VerifyFails
    <2> QED BY <1>1, <1>2, <1>3, <2>1, <2>2, <2>3 DEF HistoryInv, StageInv, Unreached, IsDenied
  <1>16. CASE VerifyPasses(w)
    <2>1. pc[w] = "verify" /\ pc'[w] = "audit" /\ ~ Unreached(w, t)
      BY <1>2, <1>5, <1>16 DEF VerifyPasses, Goto, TypeOK, StageInv
    <2>2. history'[w][t] = past \o <<"TaskStarted", "TaskCompleted">>
      <3>1. history[w][t] = past \o <<"TaskStarted">>
        BY <2>1, <1>2, <1>5 DEF StageInv
      <3>2. history'[w][t] = Append(history[w][t], "TaskCompleted")
        BY <1>7, <1>16 DEF VerifyPasses
      <3> QED BY <3>1, <3>2, <1>4, <1>19
    <2>3. task'[w][t].state = "Completed"
      <3>1. <<task[w][t].state, "Completed">> \in Edges
        BY <1>2, <1>16 DEF VerifyPasses, CallInv, CurInv, Edges
      <3> QED BY <3>1, <1>9, <1>16 DEF VerifyPasses
    <2> QED BY <1>1, <1>2, <1>3, <2>1, <2>2, <2>3 DEF HistoryInv, StageInv, Unreached, IsDenied
  <1>17. CASE Audit(w)
    <2>1. /\ pc[w] = "audit" /\ pc'[w] = "settle" /\ ~ Unreached(w, t) /\ task' = task
          /\ task[w][t].state \in {"Failed", "Completed"}
          /\ history[w][t] = past \o <<"TaskStarted",
                 IF task[w][t].state = "Failed" THEN "TaskFailed" ELSE "TaskCompleted">>
      BY <1>2, <1>5, <1>17 DEF Audit, Goto, TypeOK, StageInv, CallInv, CurInv
    <2>2. history'[w][t] = Append(history[w][t],
             IF task[w][t].state = "Failed" THEN "audit.error" ELSE "audit")
      BY <1>2, <1>8, <1>17 DEF Audit
    <2>3. CASE task[w][t].state = "Failed"
      <3>1. history'[w][t] = past \o <<"TaskStarted", "TaskFailed", "audit.error">>
        BY <2>1, <2>2, <2>3, <1>20
      <3>2. history'[w][t] = Failures(k + 1)
        BY <3>1, <1>2, FailuresGrow DEF FailedAttempt
      <3> QED BY <1>1, <1>2, <1>3, <2>1, <2>3, <3>2
              DEF HistoryInv, StageInv, Unreached, IsDenied, ExpectedHistory
    <2>4. CASE task[w][t].state = "Completed"
      <3>1. history'[w][t] = past \o <<"TaskStarted", "TaskCompleted", "audit">>
        BY <2>1, <2>2, <2>4, <1>20
      <3> QED BY <1>1, <1>2, <1>3, <2>1, <2>4, <3>1
              DEF HistoryInv, StageInv, Unreached, IsDenied, ExpectedHistory
    <2> QED BY <2>1, <2>3, <2>4
  <1>18. CASE Abort(w)
    <2>1. /\ pc[w] = "settle" /\ pc'[w] = "err" /\ task' = task /\ history' = history
          /\ task[w][t].state # "Completed" /\ ~ CanRequeue(task[w][t])
      BY <1>2, <1>18 DEF Abort, Goto, TypeOK
    <2>2. task[w][t].state = "Failed" => k = MAX_TASK_RETRIES
      BY <2>1, <1>2, <1>5, EngineAssumption DEF CanRequeue, BudgetInv
    <2> QED BY <1>1, <1>2, <1>3, <1>5, <2>1, <2>2
            DEF HistoryInv, StageInv, Unreached, IsDenied, ExpectedHistory
  <1> QED BY <1>10, <1>11, <1>12, <1>13, <1>14, <1>15, <1>16, <1>17, <1>18

\* Ordering, submission and the end of a call show nothing.
LEMMA QuietHistory ==
    ASSUME NEW w \in Workflow, TypeOK, CallInv(w), HistoryInv(w),
           Order(w) \/ Reject(w) \/ Submit(w) \/ SubmitDone(w) \/ Finish(w)
    PROVE  HistoryInv(w)'
  <1>1. /\ pc[w] \in {"entry", "submit", "loop"} /\ pc'[w] \in {"submit", "loop", "ok", "err"}
        /\ UNCHANGED <<cur, task, history>>
    BY DEF Order, Reject, Submit, SubmitDone, Finish, Goto, TypeOK
  <1>2. cur[w] = None
    BY <1>1 DEF CallInv, CurInv
  <1> QED BY <1>1, <1>2 DEF HistoryInv, BudgetInv, RestInv, StageInv, Unreached, IsDenied

\* `execute` starts with the task's failed attempts, if any, on record.
LEMMA DispatchHistory ==
    ASSUME NEW w \in Workflow, TypeOK, CallInv(w), HistoryInv(w), Dispatch(w)
    PROVE  HistoryInv(w)'
  <1>1. PICK i \in DOMAIN pending[w] :
          /\ cur' = [cur EXCEPT ![w] = pending[w][i].task]
          /\ task' = IF task[w][pending[w][i].task].state = "Created"
                     THEN [task EXCEPT ![w][pending[w][i].task] = TransitionTo(@, "Queued")]
                     ELSE task
    BY DEF Dispatch, BestOf, BestAt, ReadyAt
  <1>2. PICK t \in Task : t = pending[w][i].task /\ t \in Waiting(w)
    BY <1>1, WaitingType DEF Waiting
  <1>3. pc[w] = "loop" /\ pc'[w] = "exec" /\ cur'[w] = t /\ history' = history
    BY <1>1, <1>2 DEF Dispatch, Goto, TypeOK
  <1>4. cur[w] = None /\ None \notin Task
    BY <1>3, EngineAssumption DEF CallInv, CurInv
  <1>5. task[w][t] \in TaskRecord /\ task[w][t].state \in {"Created", "Queued"}
    BY <1>2 DEF CallInv, QueueInv, TypeOK, TaskRecord
  <1>6. /\ task'[w][t].state = "Queued" /\ task'[w][t].attempts = task[w][t].attempts
        /\ \A u \in Task \ {t} : task'[w][u] = task[w][u]
    <2>1. CASE task[w][t].state = "Created"
      <3>1. task' = [task EXCEPT ![w][t] = TransitionTo(@, "Queued")]
        BY <1>1, <1>2, <2>1
      <3>2. task'[w][t] = TransitionTo(task[w][t], "Queued")
        BY <3>1 DEF TypeOK
      <3>3. task'[w][t].state = "Queued"
        BY <2>1, <3>2, <1>5, TransitionState DEF Edges
      <3>4. task'[w][t].attempts = task[w][t].attempts
        BY <3>2, <1>5 DEF TransitionTo, TaskRecord
      <3> QED BY <3>1, <3>3, <3>4 DEF TypeOK
    <2>2. CASE task[w][t].state = "Queued"
      BY <1>1, <1>2, <2>2
    <2> QED BY <1>5, <2>1, <2>2
  <1>7. history[w][t] = Failures(task[w][t].attempts)
    <2>1. history[w][t] = Seen(task[w][t])
      BY <1>4 DEF HistoryInv, RestInv
    <2>2. task[w][t].state = "Created" => task[w][t].attempts = 0
      BY DEF HistoryInv, BudgetInv
    <2> QED BY <2>1, <2>2, <1>5, FailuresGrow DEF Seen
  <1>8. BudgetInv(w)'
    BY <1>6 DEF HistoryInv, BudgetInv, Unreached, IsDenied
  <1>9. RestInv(w)'
    BY <1>3, <1>4, <1>6 DEF HistoryInv, RestInv, Seen
  <1>10. StageInv(w)'
    BY <1>3, <1>6, <1>7 DEF StageInv
  <1> QED BY <1>8, <1>9, <1>10 DEF HistoryInv

\* A completed task shows its failed attempts and its completion.
LEMMA CompleteHistory ==
    ASSUME NEW w \in Workflow, TypeOK, CallInv(w), HistoryInv(w), Complete(w)
    PROVE  HistoryInv(w)'
  <1>1. /\ pc[w] = "settle" /\ pc'[w] = "loop" /\ cur'[w] = None
        /\ task[w][cur[w]].state = "Completed" /\ UNCHANGED <<task, history>>
    BY DEF Complete, Goto, TypeOK
  <1>2. cur[w] \in Task /\ None \notin Task
    BY <1>1, EngineAssumption DEF CallInv, CurInv, Active
  <1>3. history[w][cur[w]] = Seen(task[w][cur[w]])
    BY <1>1 DEF HistoryInv, StageInv, ExpectedHistory, Seen
  <1>4. RestInv(w)'
    BY <1>1, <1>2, <1>3 DEF HistoryInv, RestInv, Seen
  <1> QED BY <1>1, <1>4 DEF HistoryInv, BudgetInv, StageInv, Unreached, IsDenied

\* `requeue` counts one more attempt.
LEMMA RecoveredAttempts ==
    ASSUME NEW tk \in TaskRecord, tk.state = "Failed"
    PROVE  Recovered(tk).attempts = tk.attempts + 1
  <1> DEFINE a == TransitionTo(tk, "Rollback")
             b == TransitionTo(a, "Retry")
  <1>1. a.attempts = tk.attempts /\ a.state = "Rollback"
    BY DEF TransitionTo, CanTransition, Edges
  <1> HIDE DEF a
  <1>2. b.attempts = tk.attempts + 1 /\ b.state = "Retry"
    BY <1>1 DEF TransitionTo, CanTransition, Edges
  <1> HIDE DEF b
  <1>3. TransitionTo(b, "Queued").attempts = tk.attempts + 1
    BY <1>2 DEF TransitionTo, CanTransition, Edges
  <1> QED BY <1>3 DEF Recovered, a, b

\* A retried task shows its failed attempts, the last one included.
LEMMA RequeueHistory ==
    ASSUME NEW w \in Workflow, TypeOK, CallInv(w), HistoryInv(w), Requeue(w)
    PROVE  HistoryInv(w)'
  <1>1. /\ pc[w] = "settle" /\ pc'[w] = "loop" /\ cur'[w] = None /\ history' = history
        /\ task[w][cur[w]].state = "Failed" /\ task[w][cur[w]].attempts < MAX_TASK_RETRIES
    BY DEF Requeue, Goto, TypeOK, CanRequeue
  <1>2. PICK t \in Task, k \in Nat : t = cur[w] /\ k = task[w][t].attempts
    BY <1>1 DEF CallInv, CurInv, Active, TypeOK
  <1>3. task[w][t] \in TaskRecord /\ None \notin Task
    BY EngineAssumption DEF TypeOK, TaskRecord
  <1>4. task'[w][t].state = "Queued" /\ task'[w][t].attempts = k + 1
    <2>1. task'[w][t] = Recovered(task[w][t])
      BY <1>2 DEF Requeue, TypeOK
    <2> QED BY <1>1, <1>2, <1>3, <2>1, RecoveredState, RecoveredAttempts
  <1>5. \A u \in Task \ {t} : task'[w][u] = task[w][u]
    BY <1>2 DEF Requeue, TypeOK
  <1>6. history[w][t] = Failures(k + 1) /\ ~ Unreached(w, t)
    BY <1>1, <1>2 DEF HistoryInv, StageInv, ExpectedHistory
  <1>7. BudgetInv(w)'
    <2>1. k + 1 <= MAX_TASK_RETRIES
      BY <1>1, <1>2, EngineAssumption
    <2> QED BY <1>4, <1>5, <1>6, <2>1 DEF HistoryInv, BudgetInv, Unreached, IsDenied
  <1>8. RestInv(w)'
    BY <1>1, <1>2, <1>3, <1>4, <1>5, <1>6 DEF HistoryInv, RestInv, Seen
  <1>9. StageInv(w)'
    BY <1>1 DEF StageInv
  <1> QED BY <1>7, <1>8, <1>9 DEF HistoryInv

\* Every step of every call keeps the history of every call truthful.
LEMMA HistoryStep == TypeOK /\ Inv /\ HistInv /\ [Next]_vars => HistInv'
  <1> SUFFICES ASSUME TypeOK, Inv, HistInv, [Next]_vars, NEW v \in Workflow
               PROVE  HistoryInv(v)'
    BY DEF HistInv
  <1>1. HistoryInv(v) /\ CallInv(v)
    BY DEF HistInv, Inv
  <1>2. CASE UNCHANGED vars
    BY <1>1, <1>2 DEF vars, HistoryInv, BudgetInv, RestInv, StageInv, ExpectedHistory
  <1>3. ASSUME NEW w \in Workflow, Step(w) PROVE HistoryInv(v)'
    <2>1. CASE v # w
      BY <1>1, <1>3, <2>1, OthersKeepHistory
    <2>2. CASE v = w
      BY <1>1, <1>3, <2>2, ExecHistory, QuietHistory, DispatchHistory, CompleteHistory,
         RequeueHistory DEF Step
    <2> QED BY <2>1, <2>2
  <1> QED BY <1>2, <1>3 DEF Next, Terminated

LEMMA InitHistory == Init => HistInv
  <1> SUFFICES ASSUME Init, NEW w \in Workflow PROVE HistoryInv(w)
    BY DEF HistInv
  <1>1. /\ pc[w] = "entry"
        /\ \A t \in Task : /\ task[w][t].state = "Created" /\ task[w][t].attempts = 0
                           /\ history[w][t] = <<>>
    BY DEF Init, NewTask
  <1> QED BY <1>1, EngineAssumption DEF HistoryInv, BudgetInv, RestInv, StageInv, Seen

\* Events and audit tell the truth about `execute`, for any number of calls,
\* tasks and retries: each attempt that reached a runtime shows one TaskStarted
\* and its outcome, each execution one audit record, a denied task nothing but
\* its violation, and a task is Failed only when its budget is spent.
THEOREM HistoryTellsTheTruth == SafetySpec => []HistoryMatchesState
  <1>1. TypeOK /\ Inv /\ HistInv => HistoryMatchesState
    <2> SUFFICES ASSUME TypeOK, Inv, HistInv, NEW w \in Workflow,
                        pc[w] \in {"loop", "ok", "err"}, NEW t \in Task
                 PROVE  /\ task[w][t].state \in {"Created", "Queued", "Completed", "Failed"}
                        /\ history[w][t] = ExpectedHistory(w, t)
                        /\ task[w][t].attempts <= MAX_TASK_RETRIES
                        /\ task[w][t].state = "Failed" =>
                               pc[w] = "err" /\ task[w][t].attempts = MAX_TASK_RETRIES
      BY DEF HistoryMatchesState
    <2>1. CallInv(w) /\ BudgetInv(w) /\ RestInv(w) /\ StageInv(w)
      BY DEF Inv, HistInv, HistoryInv
    <2>2. CASE t # cur[w]
      BY <2>1, <2>2 DEF RestInv, BudgetInv, Seen, ExpectedHistory
    <2>3. CASE t = cur[w]
      <3>1. pc[w] = "err" /\ cur[w] # None
        BY <2>1, <2>3, EngineAssumption DEF CallInv, CurInv
      <3> QED BY <2>1, <2>3, <3>1 DEF StageInv, BudgetInv
    <2> QED BY <2>2, <2>3
  <1>2. Init => HistInv
    BY InitHistory
  <1>3. TypeOK /\ Inv /\ HistInv /\ [Next]_vars => HistInv'
    BY HistoryStep
  <1> QED BY <1>1, <1>2, <1>3, InvariantHolds, PTL DEF SafetySpec
==============================================================================
