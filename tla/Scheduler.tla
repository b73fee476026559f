------------------------------ MODULE Scheduler ------------------------------
(***************************************************************************)
(* The four-layer scheduler (scheduler/src/lib.rs) driven by one owner that *)
(* submits tasks, marks them completed and asks for the next one, in any    *)
(* order.  The same task may be submitted again, as a retry does.           *)
(***************************************************************************)
EXTENDS SchedulerQueue, FiniteSets

CONSTANTS
    Deps,          \* Deps[t]: `depends_on` of task t
    Submissions,   \* the [task, priority, factors] the owner may submit
    MaxPending,    \* bound on the queue length
    MaxClock       \* bound on the number of dispatch cycles

ASSUME DepsAssumption == Deps \in [Task -> SUBSET Task]
ASSUME SubmissionsAssumption ==
    Submissions \subseteq [task : Task, priority : Priority, factors : ScoreFactors]
ASSUME BoundsAssumption == MaxPending \in Nat /\ MaxClock \in Nat

VARIABLES
    pending,       \* the queue, a Vec<Pending>
    completed,     \* ids whose dependents are unblocked
    clock,         \* dispatch cycles so far
    dispatched     \* what the last dispatch_next returned: <<>> or <<entry>>

vars == <<pending, completed, clock, dispatched>>

TypeOK ==
    /\ pending \in Seq(Pending)
    /\ completed \subseteq Task
    /\ clock \in Nat
    /\ dispatched \in Seq(Pending) /\ Len(dispatched) <= 1
    /\ \A i \in DOMAIN pending : pending[i].enqueued_at <= clock

Init ==
    /\ pending = <<>>
    /\ completed = {}
    /\ clock = 0
    /\ dispatched = <<>>

SubmitScored(s) ==
    /\ Len(pending) < MaxPending
    /\ pending' = Enqueue(pending, s.task, s.priority, s.factors, clock)
    /\ UNCHANGED <<completed, clock, dispatched>>

MarkCompleted(t) ==
    /\ completed' = completed \cup {t}
    /\ UNCHANGED <<pending, clock, dispatched>>

\* `dispatch_next` returning Some: the clock advances, the best entry leaves.
DispatchSome ==
    /\ clock < MaxClock
    /\ \E i \in BestAt(pending, Deps, completed, clock + 1) :
          /\ dispatched' = <<pending[i]>>
          /\ pending' = SwapRemove(pending, i)
    /\ clock' = clock + 1
    /\ UNCHANGED completed

\* `dispatch_next` returning None: the clock advances all the same.
DispatchNone ==
    /\ clock < MaxClock
    /\ BestAt(pending, Deps, completed, clock + 1) = {}
    /\ dispatched' = <<>>
    /\ clock' = clock + 1
    /\ UNCHANGED <<pending, completed>>

Next ==
    \/ \E s \in Submissions : SubmitScored(s)
    \/ \E t \in Task : MarkCompleted(t)
    \/ DispatchSome
    \/ DispatchNone

Spec == Init /\ [][Next]_vars

------------------------------------------------------------------------------

Ready == ReadyAt(pending, Deps, completed)

\* dispatch_next overtakes a ready entry p only with an entry submitted so few
\* cycles after p that aging has not yet made up the whole score range: the
\* anti-starvation argument of `dispatch_next` and DEFAULT_AGING_RATE.
BoundedOvertaking ==
    [][\A i \in Ready : (clock' # clock /\ dispatched' # <<>>) =>
          AgingRate * (dispatched'[1].enqueued_at - pending[i].enqueued_at) <= MaxScore]_vars

\* dispatch_next never answers None while a task is ready, whatever its factors
\* are: the failure that `norm` closes for a NaN factor.
NoneOnlyWhenNothingReady ==
    [][(clock' # clock /\ dispatched' = <<>>) => Ready = {}]_vars

\* No entry without dependencies waits longer than the cycles aging needs to
\* cover the whole score range plus one cycle per competing entry, although
\* higher-priority tasks keep arriving: the queue starves nobody.
WaitIsBounded ==
    \A i \in DOMAIN pending :
        Deps[pending[i].task] = {} =>
            AgingRate * (clock - pending[i].enqueued_at - MaxPending) <= MaxScore
==============================================================================
