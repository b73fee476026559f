--------------------------- MODULE SchedulerProofs ---------------------------
(***************************************************************************)
(* Type correctness, bounded overtaking and bounded waiting of the          *)
(* scheduler, for every set of tasks, every aging rate and every submission; *)
(* and the order in which the steps of any workflow are handed to it.        *)
(***************************************************************************)
EXTENDS Scheduler, Decisions, SchedulerQueueProofs, FiniteSetTheorems

\* Every step of the scheduler keeps the queue well formed and no entry is
\* stamped later than the clock, so its age never underflows.
THEOREM TypeCorrect == Spec => []TypeOK
  <1>1. Init => TypeOK
    BY DEF Init, TypeOK
  <1>2. TypeOK /\ [Next]_vars => TypeOK'
    <2> SUFFICES ASSUME TypeOK, [Next]_vars PROVE TypeOK'
      OBVIOUS
    <2>1. ASSUME NEW s \in Submissions, SubmitScored(s) PROVE TypeOK'
      <3> DEFINE e == [task |-> s.task, priority |-> s.priority,
                       factors |-> s.factors, enqueued_at |-> clock]
      <3>1. e \in Pending
        BY SubmissionsAssumption DEF Pending, TypeOK
      <3>2. pending' = Append(pending, e)
        BY <2>1 DEF SubmitScored, Enqueue
      <3>3. pending' \in Seq(Pending) /\ Len(pending') = Len(pending) + 1
        BY <3>1, <3>2 DEF TypeOK
      <3>4. \A i \in DOMAIN pending' : pending'[i] = e \/
               (i \in DOMAIN pending /\ pending'[i] = pending[i])
        BY <3>1, <3>2 DEF TypeOK
      <3>5. e.enqueued_at = clock
        OBVIOUS
      <3> HIDE DEF e
      <3> QED BY <2>1, <3>3, <3>4, <3>5 DEF TypeOK, SubmitScored
    <2>2. ASSUME NEW t \in Task, MarkCompleted(t) PROVE TypeOK'
      BY <2>2 DEF MarkCompleted, TypeOK
    <2>3. CASE DispatchSome
      <3>1. PICK i \in DOMAIN pending : /\ dispatched' = <<pending[i]>>
                                        /\ pending' = SwapRemove(pending, i)
        BY <2>3 DEF DispatchSome, BestAt, ReadyAt
      <3>2. pending[i] \in Pending
        BY <3>1 DEF TypeOK
      <3>3. dispatched' \in Seq(Pending) /\ Len(dispatched') <= 1
        BY <3>1, <3>2
      <3>4. /\ pending' \in Seq(Pending)
            /\ \A k \in DOMAIN pending' : \E j \in DOMAIN pending : pending'[k] = pending[j]
        BY <3>1, SwapRemoveType DEF TypeOK
      <3>5. \A j \in DOMAIN pending : pending[j].enqueued_at \in Nat
        <4>1. \A j \in DOMAIN pending : pending[j] \in Pending
          BY DEF TypeOK
        <4> QED BY <4>1 DEF Pending
      <3> QED BY <2>3, <3>3, <3>4, <3>5 DEF DispatchSome, TypeOK
    <2>4. CASE DispatchNone
      <3>1. \A j \in DOMAIN pending : pending[j].enqueued_at \in Nat
        <4>1. \A j \in DOMAIN pending : pending[j] \in Pending
          BY DEF TypeOK
        <4> QED BY <4>1 DEF Pending
      <3>2. dispatched' \in Seq(Pending) /\ Len(dispatched') <= 1
        BY <2>4 DEF DispatchNone
      <3> QED BY <2>4, <3>1, <3>2 DEF DispatchNone, TypeOK
    <2>5. CASE UNCHANGED vars
      BY <2>5 DEF vars, TypeOK
    <2> QED BY <2>1, <2>2, <2>3, <2>4, <2>5 DEF Next
  <1> QED BY <1>1, <1>2, PTL DEF Spec

\* The entries that may still be dispatched before entry i: aging has not made
\* up the whole score range between them.
Rivals(queue, i) ==
    {j \in DOMAIN queue :
        AgingRate * (queue[j].enqueued_at - queue[i].enqueued_at) <= MaxScore}

\* What overtakes a ready entry is one of its rivals.
LEMMA BestIsRival ==
    ASSUME TypeOK, NEW b \in BestAt(pending, Deps, completed, clock + 1), NEW i \in Ready
    PROVE  b \in Rivals(pending, i)
  <1> DEFINE now == clock + 1
  <1>3. b \in DOMAIN pending /\ i \in DOMAIN pending
    BY DEF BestAt, ReadyAt, Ready
  <1>4. pending[b] \in Pending /\ pending[i] \in Pending
    BY <1>3 DEF TypeOK
  <1>5. /\ Score(pending[b].factors, pending[b].priority) \in 0 .. MaxScore
        /\ Score(pending[i].factors, pending[i].priority) \in 0 .. MaxScore
    BY <1>4, ScoreRange DEF Pending
  <1>6. \/ EffectiveScore(pending[b], now) > EffectiveScore(pending[i], now)
        \/ EffectiveScore(pending[b], now) = EffectiveScore(pending[i], now)
    <2>1. PICK si \in 0 .. 800 : si = Score(pending[i].factors, pending[i].priority)
      BY <1>5 DEF MaxScore
    <2>2. si # NaN
      BY ONLY <2>1, NaNAssumption
    <2>3. Score(pending[i].factors, pending[i].priority) # NaN
      BY ONLY <2>1, <2>2
    <2> QED BY <2>3 DEF BestAt, Ready
  <1>7. PICK eb \in Nat, ei \in Nat, sb \in 0 .. MaxScore, si \in 0 .. MaxScore :
           /\ eb = pending[b].enqueued_at /\ ei = pending[i].enqueued_at
           /\ sb = Score(pending[b].factors, pending[b].priority)
           /\ si = Score(pending[i].factors, pending[i].priority)
    BY <1>4, <1>5 DEF Pending
  <1>8. \/ sb + AgingRate * (now - eb) > si + AgingRate * (now - ei)
        \/ sb + AgingRate * (now - eb) = si + AgingRate * (now - ei)
    BY <1>6, <1>7 DEF EffectiveScore
  <1>9. PICK r \in Nat, n \in Nat : r = AgingRate /\ n = now
    BY AgingAssumption DEF TypeOK
  <1>10. sb + r * (n - eb) >= si + r * (n - ei)
    BY <1>8, <1>9 DEF MaxScore
  <1>11. r * (eb - ei) <= 800
    <2>1. PICK x \in Nat, y \in Nat, z \in Nat : x = r * n /\ y = r * eb /\ z = r * ei
      OBVIOUS
    <2>2. r * (n - eb) = x - y /\ r * (n - ei) = x - z /\ r * (eb - ei) = y - z
      BY ONLY r \in Nat, n \in Nat, eb \in Nat, ei \in Nat, <2>1
    <2>3. sb \in 0 .. 800 /\ si \in 0 .. 800 /\ sb + (x - y) >= si + (x - z)
      BY <1>10, <2>2 DEF MaxScore
    <2> QED BY ONLY x \in Nat, y \in Nat, z \in Nat, <2>2, <2>3
  <1> QED BY <1>3, <1>7, <1>9, <1>11 DEF Rivals, MaxScore

\* However many higher-priority tasks arrive, a ready task is overtaken only by
\* tasks submitted at most MaxScore / AgingRate cycles after it.
THEOREM OvertakingBounded == Spec => BoundedOvertaking
  <1> DEFINE Bound == \A i \in Ready : (clock' # clock /\ dispatched' # <<>>) =>
          AgingRate * (dispatched'[1].enqueued_at - pending[i].enqueued_at) <= MaxScore
  <1>1. TypeOK /\ [Next]_vars => [Bound]_vars
    <2> SUFFICES ASSUME TypeOK, Next PROVE Bound
      BY DEF vars
    <2>1. CASE DispatchSome
      <3>1. PICK b \in BestAt(pending, Deps, completed, clock + 1) : dispatched' = <<pending[b]>>
        BY <2>1 DEF DispatchSome
      <3>2. \A i \in Ready : b \in Rivals(pending, i)
        BY BestIsRival
      <3> QED BY <3>1, <3>2 DEF Rivals
    <2>2. CASE \E s \in Submissions : SubmitScored(s)
      BY <2>2 DEF SubmitScored
    <2>3. CASE \E t \in Task : MarkCompleted(t)
      BY <2>3 DEF MarkCompleted
    <2>4. CASE DispatchNone
      BY <2>4 DEF DispatchNone
    <2> QED BY <2>1, <2>2, <2>3, <2>4 DEF Next
  <1> QED BY <1>1, TypeCorrect, PTL DEF Spec, BoundedOvertaking

\* dispatch_next answers None only when no task is ready, whatever f32 values
\* callers put into the factors of the waiting tasks.
THEOREM NoneMeansNothingReady == Spec => NoneOnlyWhenNothingReady
  <1> DEFINE Empty == (clock' # clock /\ dispatched' = <<>>) => Ready = {}
  <1>1. TypeOK /\ [Next]_vars => [Empty]_vars
    <2> SUFFICES ASSUME TypeOK, Next PROVE Empty
      BY DEF vars
    <2>1. CASE DispatchSome
      <3>1. PICK i \in DOMAIN pending : dispatched' = <<pending[i]>>
        BY <2>1 DEF DispatchSome, BestAt, ReadyAt
      <3> QED BY <3>1
    <2>2. CASE DispatchNone
      <3>1. BestAt(pending, Deps, completed, clock + 1) = {}
        BY <2>2 DEF DispatchNone
      <3> QED BY <3>1, BestExists DEF TypeOK, Ready
    <2>3. CASE \E s \in Submissions : SubmitScored(s)
      BY <2>3 DEF SubmitScored
    <2>4. CASE \E t \in Task : MarkCompleted(t)
      BY <2>4 DEF MarkCompleted
    <2> QED BY <2>1, <2>2, <2>3, <2>4 DEF Next
  <1> QED BY <1>1, TypeCorrect, PTL DEF Spec, NoneOnlyWhenNothingReady

------------------------------------------------------------------------------
\* Bounded waiting

\* Each cycle an entry without dependencies waits past the score range, one of
\* its rivals leaves, and none arrives.
WaitInv ==
    /\ Len(pending) <= MaxPending
    /\ \A i \in DOMAIN pending :
          Deps[pending[i].task] = {} =>
              AgingRate * (clock - pending[i].enqueued_at
                              + Cardinality(Rivals(pending, i)) - MaxPending) <= MaxScore

\* Rivals are positions of the queue: as many as it has at most.
LEMMA RivalsFinite ==
    ASSUME NEW queue \in Seq(Pending), NEW i \in DOMAIN queue
    PROVE  /\ Rivals(queue, i) \subseteq DOMAIN queue /\ IsFiniteSet(Rivals(queue, i))
           /\ Cardinality(Rivals(queue, i)) \in Nat
           /\ Cardinality(Rivals(queue, i)) <= Len(queue)
  <1>1. PICK n \in Nat : n = Len(queue) /\ DOMAIN queue = 1 .. n
    OBVIOUS
  <1>2. IsFiniteSet(1 .. n) /\ Cardinality(1 .. n) = n
    <2>1. 1 \in Int /\ n \in Int /\ (IF 1 > n THEN 0 ELSE n - 1 + 1) = n
      OBVIOUS
    <2> QED BY <2>1, FS_Interval
  <1>3. Rivals(queue, i) \subseteq 1 .. n
    BY <1>1 DEF Rivals
  <1> QED BY <1>1, <1>2, <1>3, FS_Subset, FS_CardinalityType

\* The stamps of the entries are cycles.
LEMMA StampType ==
    ASSUME NEW queue \in Seq(Pending), NEW i \in DOMAIN queue
    PROVE  queue[i].task \in Task /\ queue[i].enqueued_at \in Nat
  <1>1. queue[i] \in Pending
    OBVIOUS
  <1> QED BY <1>1 DEF Pending

\* Where the entries of the queue were before a `swap_remove`.
LEMMA SwapRemoveOrigin ==
    ASSUME NEW S, NEW queue \in Seq(S), NEW i \in DOMAIN queue
    PROVE  \E f \in [DOMAIN SwapRemove(queue, i) -> DOMAIN queue \ {i}] :
              /\ \A j, k \in DOMAIN SwapRemove(queue, i) : f[j] = f[k] => j = k
              /\ \A k \in DOMAIN SwapRemove(queue, i) : SwapRemove(queue, i)[k] = queue[f[k]]
  <1>1. PICK n \in Nat : n = Len(queue) /\ DOMAIN queue = 1 .. n
    OBVIOUS
  <1>2. i \in 1 .. n
    BY <1>1
  <1> DEFINE f == [k \in 1 .. (n - 1) |-> IF k = i THEN n ELSE k]
  <1>3. DOMAIN SwapRemove(queue, i) = 1 .. (n - 1)
    BY <1>1 DEF SwapRemove
  <1>4. \A k \in 1 .. (n - 1) : f[k] \in 1 .. n /\ f[k] # i
    BY <1>2
  <1>5. \A j, k \in 1 .. (n - 1) : f[j] = f[k] => j = k
    BY <1>2
  <1>6. \A k \in 1 .. (n - 1) : SwapRemove(queue, i)[k] = queue[f[k]]
    BY <1>1 DEF SwapRemove
  <1>7. f \in [1 .. (n - 1) -> (1 .. n) \ {i}]
    BY <1>4
  <1> HIDE DEF f
  <1> DEFINE old == 1 .. n
             new == 1 .. (n - 1)
             shorter == SwapRemove(queue, i)
  <1>8. f \in [new -> old \ {i}] /\ (\A j, k \in new : f[j] = f[k] => j = k)
        /\ \A k \in new : shorter[k] = queue[f[k]]
    BY <1>5, <1>6, <1>7
  <1>9. DOMAIN queue = old /\ DOMAIN shorter = new
    BY <1>1, <1>3
  <1> HIDE DEF old, new, shorter
  <1>10. \E g \in [DOMAIN shorter -> DOMAIN queue \ {i}] :
            /\ \A j, k \in DOMAIN shorter : g[j] = g[k] => j = k
            /\ \A k \in DOMAIN shorter : shorter[k] = queue[g[k]]
    BY ONLY <1>8, <1>9
  <1> QED BY <1>10 DEF shorter

\* A cycle that dispatches one of the rivals of an entry leaves it one fewer.
LEMMA RivalLeaves ==
    ASSUME TypeOK, TypeOK', NEW b \in DOMAIN pending, pending' = SwapRemove(pending, b),
           NEW i \in DOMAIN pending, b \in Rivals(pending, i),
           NEW k \in DOMAIN pending', pending'[k] = pending[i]
    PROVE  Cardinality(Rivals(pending', k)) <= Cardinality(Rivals(pending, i)) - 1
  <1>1. PICK f \in [DOMAIN pending' -> DOMAIN pending \ {b}] :
          /\ \A j, l \in DOMAIN pending' : f[j] = f[l] => j = l
          /\ \A j \in DOMAIN pending' : pending'[j] = pending[f[j]]
    <2>1. pending \in Seq(Pending)
      BY DEF TypeOK
    <2> QED BY <2>1, SwapRemoveOrigin
  <1>2. \A j \in Rivals(pending', k) : j \in DOMAIN pending' /\ f[j] \in Rivals(pending, i) \ {b}
    BY <1>1 DEF Rivals
  <1> DEFINE g == [j \in Rivals(pending', k) |-> f[j]]
  <1>3. g \in Injection(Rivals(pending', k), Rivals(pending, i) \ {b})
    BY <1>1, <1>2 DEF Injection, IsInjective
  <1>4. /\ IsFiniteSet(Rivals(pending, i) \ {b})
        /\ Cardinality(Rivals(pending, i) \ {b}) = Cardinality(Rivals(pending, i)) - 1
    BY RivalsFinite, FS_RemoveElement DEF TypeOK
  <1> QED BY <1>3, <1>4, FS_Injection

\* Submitting keeps the waits bounded: the new entry waits no cycle yet, and it
\* is a rival only of entries that are still within the score range.
LEMMA SubmitKeepsWait ==
    ASSUME TypeOK, TypeOK', WaitInv, NEW s \in Submissions, SubmitScored(s)
    PROVE  WaitInv'
  <1> DEFINE e == [task |-> s.task, priority |-> s.priority,
                   factors |-> s.factors, enqueued_at |-> clock]
  <1>1. e \in Pending /\ e.enqueued_at = clock /\ e.task = s.task
    BY SubmissionsAssumption DEF Pending, TypeOK
  <1>2. pending' = Append(pending, e) /\ clock' = clock /\ Len(pending) < MaxPending
    BY DEF SubmitScored, Enqueue
  <1> HIDE DEF e
  <1>3. PICK n \in Nat : n = Len(pending) /\ DOMAIN pending = 1 .. n
    BY DEF TypeOK
  <1>4. /\ DOMAIN pending' = 1 .. (n + 1) /\ Len(pending') = n + 1 /\ pending'[n + 1] = e
        /\ \A j \in 1 .. n : pending'[j] = pending[j]
    BY <1>1, <1>2, <1>3 DEF TypeOK
  <1>5. n + 1 <= MaxPending /\ MaxPending \in Nat
    BY <1>2, <1>3, BoundsAssumption
  <1>6. PICK r \in Nat, c \in Nat : r = AgingRate /\ c = clock
    BY AgingAssumption DEF TypeOK
  <1>7. SUFFICES ASSUME NEW i \in 1 .. (n + 1), Deps[pending'[i].task] = {}
                 PROVE  AgingRate * (clock' - pending'[i].enqueued_at
                                       + Cardinality(Rivals(pending', i)) - MaxPending) <= MaxScore
    BY <1>4, <1>5 DEF WaitInv
  <1>8. PICK m \in Nat : m = Cardinality(Rivals(pending', i)) /\ m <= n + 1
    BY <1>4, <1>7, RivalsFinite DEF TypeOK
  <1>9. PICK p \in Nat : p = pending'[i].enqueued_at /\ p <= c
    BY <1>2, <1>4, <1>6, <1>7, StampType DEF TypeOK
  <1>10. CASE r * (c - p) <= 800
    <2>1. r * (c - p + m - MaxPending) <= 800
      <3>1. m - MaxPending <= 0 /\ m - MaxPending \in Int /\ c - p \in Int
        BY <1>5, <1>8
      <3>2. r * (m - MaxPending) <= 0
        BY <3>1
      <3>3. r * (c - p + m - MaxPending) = r * (c - p) + r * (m - MaxPending)
        BY <3>1
      <3> QED BY <3>1, <3>2, <3>3, <1>10
    <2> QED BY <2>1, <1>2, <1>6, <1>8, <1>9 DEF MaxScore
  <1>11. CASE ~ (r * (c - p) <= 800)
    <2>1. i \in 1 .. n
      <3>1. CASE i = n + 1
        <4>1. p = c
          BY <3>1, <1>1, <1>4, <1>6, <1>9
        <4>2. r * (c - c) = 0
          BY <1>6
        <4> QED BY <4>1, <4>2, <1>11
      <3> QED BY <3>1, <1>7
    <2>2. Rivals(pending', i) = Rivals(pending, i)
      <3>1. n + 1 \notin Rivals(pending', i)
        BY <1>1, <1>4, <1>6, <1>9, <1>11 DEF Rivals, MaxScore
      <3> QED BY <2>1, <3>1, <1>3, <1>4 DEF Rivals
    <2>3. pending[i] = pending'[i] /\ i \in DOMAIN pending
      BY <2>1, <1>3, <1>4
    <2> QED BY <2>2, <2>3, <1>2, <1>7 DEF WaitInv
  <1> QED BY <1>10, <1>11

\* Dispatching keeps the waits bounded: one cycle more, one rival less.
LEMMA DispatchKeepsWait ==
    ASSUME TypeOK, TypeOK', WaitInv, DispatchSome
    PROVE  WaitInv'
  <1>1. PICK b \in BestAt(pending, Deps, completed, clock + 1) :
          pending' = SwapRemove(pending, b)
    BY DEF DispatchSome
  <1>2. b \in DOMAIN pending /\ clock' = clock + 1
    BY DEF DispatchSome, BestAt, ReadyAt
  <1>3. PICK n \in Nat : n = Len(pending) /\ Len(pending') = n - 1
    BY <1>1, <1>2, SwapRemoveType DEF TypeOK
  <1>4. Len(pending') <= MaxPending
    BY <1>3, BoundsAssumption DEF WaitInv
  <1>5. SUFFICES ASSUME NEW k \in DOMAIN pending', Deps[pending'[k].task] = {}
                 PROVE  AgingRate * (clock' - pending'[k].enqueued_at
                                       + Cardinality(Rivals(pending', k)) - MaxPending) <= MaxScore
    BY <1>4 DEF WaitInv
  <1>6. PICK i \in DOMAIN pending : pending'[k] = pending[i]
    BY <1>1, <1>2, <1>5, SwapRemoveType DEF TypeOK
  <1>7. i \in Ready
    BY <1>5, <1>6 DEF Ready, ReadyAt, DependenciesMet
  <1>8. Cardinality(Rivals(pending', k)) <= Cardinality(Rivals(pending, i)) - 1
    BY <1>1, <1>2, <1>6, <1>7, BestIsRival, RivalLeaves
  <1>9. PICK r \in Nat, c \in Nat, p \in Nat, l \in Nat, m \in Nat, M \in Nat :
          /\ r = AgingRate /\ c = clock /\ p = pending[i].enqueued_at /\ M = MaxPending
          /\ l = Cardinality(Rivals(pending', k)) /\ m = Cardinality(Rivals(pending, i))
    <2>1. Cardinality(Rivals(pending', k)) \in Nat
      BY RivalsFinite DEF TypeOK
    <2>2. Cardinality(Rivals(pending, i)) \in Nat
      BY RivalsFinite DEF TypeOK
    <2> QED BY <2>1, <2>2, StampType, AgingAssumption, BoundsAssumption DEF TypeOK
  <1>10. r * (c - p + m - M) <= 800
    BY <1>5, <1>6, <1>9 DEF WaitInv, MaxScore
  <1>11. l <= m - 1
    BY <1>8, <1>9
  <1>12. r * ((c + 1) - p + l - M) <= 800
    <2>1. PICK x \in Int, y \in Int : x = c - p + m - M /\ y = (c + 1) - p + l - M
      OBVIOUS
    <2>2. y <= x
      BY <1>11, <2>1
    <2>3. r * y <= r * x
      BY <2>2
    <2> QED BY <1>10, <2>1, <2>3
  <1> QED BY <1>2, <1>6, <1>9, <1>12 DEF MaxScore

\* The strengthened bound holds in every state.
THEOREM WaitInvHolds == Spec => []WaitInv
  <1>1. Init => WaitInv
    BY BoundsAssumption DEF Init, WaitInv
  <1>2. TypeOK /\ TypeOK' /\ WaitInv /\ [Next]_vars => WaitInv'
    <2> SUFFICES ASSUME TypeOK, TypeOK', WaitInv, [Next]_vars PROVE WaitInv'
      OBVIOUS
    <2>1. CASE \E s \in Submissions : SubmitScored(s)
      BY <2>1, SubmitKeepsWait
    <2>2. CASE UNCHANGED vars \/ \E t \in Task : MarkCompleted(t)
      BY <2>2 DEF vars, MarkCompleted, WaitInv, Rivals
    <2>3. CASE DispatchSome
      BY <2>3, DispatchKeepsWait
    <2>4. CASE DispatchNone
      <3>1. clock \in Nat /\ pending \in Seq(Pending) /\ pending' = pending
        BY <2>4 DEF DispatchNone, TypeOK
      <3>2. Ready = {}
        BY <2>4, <3>1, BestExists DEF DispatchNone, Ready
      <3>3. \A i \in DOMAIN pending : Deps[pending[i].task] # {}
        BY <3>2 DEF Ready, ReadyAt, DependenciesMet
      <3> QED BY <3>1, <3>3 DEF WaitInv
    <2> QED BY <2>1, <2>2, <2>3, <2>4 DEF Next
  <1> QED BY <1>1, <1>2, TypeCorrect, PTL DEF Spec

\* The queue starves nobody: whatever keeps arriving, an entry without
\* dependencies waits no longer than the cycles aging needs to cover the score
\* range plus one cycle per competing entry.
THEOREM NobodyStarves == Spec => []WaitIsBounded
  <1>1. TypeOK /\ WaitInv => WaitIsBounded
    <2> SUFFICES ASSUME TypeOK, WaitInv, NEW i \in DOMAIN pending, Deps[pending[i].task] = {}
                 PROVE  AgingRate * (clock - pending[i].enqueued_at - MaxPending) <= MaxScore
      BY DEF WaitIsBounded
    <2>1. PICK r \in Nat, c \in Nat, p \in Nat, m \in Nat, M \in Nat :
            /\ r = AgingRate /\ c = clock /\ p = pending[i].enqueued_at /\ M = MaxPending
            /\ m = Cardinality(Rivals(pending, i))
      BY RivalsFinite, StampType, AgingAssumption, BoundsAssumption DEF TypeOK
    <2>2. r * (c - p + m - M) <= 800
      BY <2>1 DEF WaitInv, MaxScore
    <2>3. PICK x \in Int, y \in Int : x = c - p + m - M /\ y = c - p - M
      OBVIOUS
    <2>4. r * y <= r * x
      BY <2>3
    <2> QED BY <2>1, <2>2, <2>3, <2>4 DEF MaxScore
  <1> QED BY <1>1, TypeCorrect, WaitInvHolds, PTL

-----------------------------------------------------------------------------
(* The order of a workflow: lists without repetitions.                     *)

\* What holds of 0 and passes from each number to the next holds up to N.
LEMMA UpTo ==
    ASSUME NEW N \in Nat, NEW G, 0 \in G, \A n \in 1 .. N : n - 1 \in G => n \in G
    PROVE  N \in G
  <1> DEFINE T == (0 .. N) \ G
  <1> SUFFICES ASSUME N \notin G PROVE FALSE
    OBVIOUS
  <1>1. T \in SUBSET Nat /\ T # {}
    OBVIOUS
  <1> HIDE DEF T
  <1>2. PICK n \in T : \A k \in T : n <= k
    BY <1>1, LeastNatural
  <1>3. n \in 1 .. N /\ n \notin G
    BY <1>2 DEF T
  <1>4. n - 1 \notin T
    BY <1>2, <1>3
  <1>5. n - 1 \in G
    BY <1>3, <1>4 DEF T
  <1> QED BY <1>3, <1>5

\* A new element at the end.
LEMMA AppendOnce ==
    ASSUME NEW R, NEW a \in Seq(R), NEW x \in R
    PROVE  /\ Append(a, x) \in Seq(R)
           /\ Range(Append(a, x)) = Range(a) \cup {x}
           /\ IsInjective(a) /\ x \notin Range(a) => IsInjective(Append(a, x))
  <1> DEFINE b == Append(a, x)
             n == Len(a)
  <1>1. n \in Nat /\ DOMAIN a = 1 .. n
    OBVIOUS
  <1>2. b \in Seq(R) /\ DOMAIN b = 1 .. n + 1
    OBVIOUS
  <1>3. b[n + 1] = x /\ \A i \in 1 .. n : b[i] = a[i]
    OBVIOUS
  <1> HIDE DEF b, n
  <1>4. Range(b) = Range(a) \cup {x}
    BY <1>1, <1>2, <1>3 DEF Range
  <1>5. ASSUME IsInjective(a), x \notin Range(a), NEW i \in 1 .. n + 1, NEW j \in 1 .. n + 1, b[i] = b[j]
        PROVE  i = j
    <2>1. ASSUME NEW k \in 1 .. n PROVE b[k] # x /\ b[k] = a[k] /\ k \in DOMAIN a
      BY <1>1, <1>3, <1>5 DEF Range
    <2>2. CASE i = n + 1 \/ j = n + 1
      BY <1>1, <1>3, <1>5, <2>1, <2>2
    <2>3. CASE i # n + 1 /\ j # n + 1
      <3>1. i \in 1 .. n /\ j \in 1 .. n
        BY <1>1, <2>3
      <3> QED BY <1>5, <2>1, <3>1 DEF IsInjective
    <2> QED BY <2>2, <2>3
  <1>6. IsInjective(a) /\ x \notin Range(a) => IsInjective(b)
    BY <1>2, <1>5 DEF IsInjective
  <1> QED BY <1>2, <1>4, <1>6 DEF b

\* Two lists with no element in common.
LEMMA ConcatOnce ==
    ASSUME NEW R, NEW a \in Seq(R), NEW b \in Seq(R), IsInjective(a), IsInjective(b),
           Range(a) \cap Range(b) = {}
    PROVE  /\ a \o b \in Seq(R)
           /\ Range(a \o b) = Range(a) \cup Range(b)
           /\ IsInjective(a \o b)
  <1> DEFINE c == a \o b
             m == Len(a)
             n == Len(b)
  <1>1. m \in Nat /\ n \in Nat /\ DOMAIN a = 1 .. m /\ DOMAIN b = 1 .. n
    OBVIOUS
  <1>2. c \in Seq(R) /\ DOMAIN c = 1 .. m + n
    OBVIOUS
  <1>3. /\ \A i \in 1 .. m : c[i] = a[i]
        /\ \A i \in 1 .. n : c[m + i] = b[i]
    OBVIOUS
  <1> HIDE DEF c, m, n
  <1>4. ASSUME NEW i \in 1 .. m + n, i \notin 1 .. m
        PROVE  i - m \in 1 .. n /\ c[i] = b[i - m]
    <2>1. i - m \in 1 .. n /\ m + (i - m) = i
      BY <1>1, <1>4
    <2> QED BY <1>3, <2>1
  <1>5. Range(c) = Range(a) \cup Range(b)
    <2>1. ASSUME NEW y \in Range(c) PROVE y \in Range(a) \cup Range(b)
      BY <1>1, <1>2, <1>3, <1>4 DEF Range
    <2>2. ASSUME NEW y \in Range(a) PROVE y \in Range(c)
      <3>1. PICK i \in 1 .. m : y = a[i]
        BY <1>1 DEF Range
      <3>2. i \in 1 .. m + n
        BY <1>1
      <3> QED BY <1>2, <1>3, <3>1, <3>2 DEF Range
    <2>3. ASSUME NEW y \in Range(b) PROVE y \in Range(c)
      <3>1. PICK i \in 1 .. n : y = b[i]
        BY <1>1 DEF Range
      <3>2. m + i \in 1 .. m + n
        BY <1>1
      <3> QED BY <1>2, <1>3, <3>1, <3>2 DEF Range
    <2> QED BY <2>1, <2>2, <2>3
  <1>6. ASSUME NEW i \in 1 .. m + n, NEW j \in 1 .. m + n, c[i] = c[j]
        PROVE  i = j
    <2>1. CASE i \in 1 .. m /\ j \in 1 .. m
      BY <1>1, <1>3, <1>6, <2>1 DEF IsInjective
    <2>2. CASE i \notin 1 .. m /\ j \notin 1 .. m
      <3>1. i - m = j - m
        BY <1>1, <1>4, <1>6, <2>2 DEF IsInjective
      <3> QED BY <1>1, <3>1
    <2>3. \A k \in 1 .. m : c[k] \in Range(a)
      BY <1>1, <1>3 DEF Range
    <2>4. \A k \in 1 .. m + n : k \notin 1 .. m => c[k] \in Range(b)
      BY <1>1, <1>4 DEF Range
    <2>5. i \in 1 .. m <=> j \in 1 .. m
      BY <1>6, <2>3, <2>4
    <2> QED BY <2>1, <2>2, <2>5
  <1>7. IsInjective(c)
    BY <1>2, <1>6 DEF IsInjective
  <1> QED BY <1>2, <1>5, <1>7 DEF c

\* The last element taken away.
LEMMA FrontOnce ==
    ASSUME NEW R, NEW a \in Seq(R), IsInjective(a), a # <<>>
    PROVE  /\ Last(a) \in Range(a)
           /\ Front(a) \in Seq(R) /\ IsInjective(Front(a))
           /\ Range(Front(a)) = Range(a) \ {Last(a)}
  <1> DEFINE n == Len(a)
             b == Front(a)
  <1>1. n \in Nat \ {0} /\ DOMAIN a = 1 .. n /\ a[n] = Last(a)
    BY DEF Last
  <1>2. b \in Seq(R) /\ DOMAIN b = 1 .. n - 1 /\ \A i \in 1 .. n - 1 : b[i] = a[i]
    BY <1>1 DEF Front
  <1> HIDE DEF n, b
  <1>3. Last(a) \in Range(a)
    <2>1. n \in DOMAIN a
      BY <1>1
    <2> QED BY <1>1, <2>1 DEF Range
  <1>4. \A i \in 1 .. n - 1 : i \in DOMAIN a /\ i # n
    BY <1>1
  <1>5. IsInjective(b)
    BY <1>2, <1>4 DEF IsInjective
  <1>6. Range(b) = Range(a) \ {Last(a)}
    <2>1. ASSUME NEW y \in Range(b) PROVE y \in Range(a) \ {Last(a)}
      <3>1. PICK i \in 1 .. n - 1 : y = a[i]
        BY <1>2 DEF Range
      <3>2. i \in DOMAIN a /\ n \in DOMAIN a /\ i # n
        BY <1>1, <1>4
      <3> QED BY <1>1, <3>1, <3>2 DEF Range, IsInjective
    <2>2. ASSUME NEW y \in Range(a) \ {Last(a)} PROVE y \in Range(b)
      <3>1. PICK i \in 1 .. n : y = a[i] /\ i # n
        BY <1>1 DEF Range
      <3>2. i \in DOMAIN b
        BY <1>1, <1>2, <3>1
      <3> QED BY <1>2, <3>1, <3>2 DEF Range
    <2> QED BY <2>1, <2>2
  <1> QED BY <1>2, <1>3, <1>5, <1>6 DEF b

\* A list of numbers up to n without repetitions has them all exactly if it has
\* n elements.
LEMMA OnceCovers ==
    ASSUME NEW n \in Nat, NEW s \in Seq(1 .. n), IsInjective(s)
    PROVE  Range(s) = 1 .. n <=> Len(s) = n
  <1> DEFINE m == Len(s)
  <1>1. m \in Nat /\ DOMAIN s = 1 .. m /\ s \in [1 .. m -> 1 .. n]
    OBVIOUS
  <1> HIDE DEF m
  <1>2. s \in Injection(1 .. m, 1 .. n)
    BY <1>1 DEF Injection
  <1>3. IsFiniteSet(1 .. n) /\ Cardinality(1 .. n) = n /\ Cardinality(1 .. m) = m
    BY <1>1, FS_Interval
  <1>4. Cardinality(1 .. m) = Cardinality(1 .. n) <=> s \in Surjection(1 .. m, 1 .. n)
    BY <1>2, <1>3, FS_Injection
  <1>5. s \in Surjection(1 .. m, 1 .. n) <=> Range(s) = 1 .. n
    BY <1>1 DEF Surjection, Range
  <1> QED BY <1>3, <1>4, <1>5 DEF m

-----------------------------------------------------------------------------
(* The order of a workflow: the loops.                                     *)

\* One turn of each of the loops: of a filter, of Kahn's algorithm and of the
\* reader of a definition.
Turn(loop, c, a, x) ==
    CASE loop = "kept" -> IF x \in c THEN Append(a, x) ELSE a
      [] loop = "order" -> Advance(c, a)
      [] loop = "line" -> DefinitionLine(a, x)

\* f follows the loop for n turns.
Turns(f, loop, c, base, xs, n) ==
    f[0] = base /\ \A i \in 1 .. n : f[i] = Turn(loop, c, f[i - 1], xs[i])

\* Each of the loops is a function: there is one on every prefix.
LEMMA LoopExists ==
    ASSUME NEW loop, NEW c, NEW base, NEW xs, NEW N \in Nat
    PROVE  \E f : f = [n \in 0 .. N |-> IF n = 0 THEN base ELSE Turn(loop, c, f[n - 1], xs[n])]
  <1> DEFINE G == {n \in 0 .. N : \E f : Turns(f, loop, c, base, xs, n)}
  <1>1. 0 \in G
    <2>1. Turns([n \in {0} |-> base], loop, c, base, xs, 0)
      BY DEF Turns
    <2> QED BY <2>1
  <1>2. ASSUME NEW n \in 1 .. N, n - 1 \in G PROVE n \in G
    <2>1. PICK f : Turns(f, loop, c, base, xs, n - 1)
      BY <1>2
    <2> DEFINE g == [i \in 0 .. n |-> IF i = n THEN Turn(loop, c, f[n - 1], xs[n]) ELSE f[i]]
    <2>2. \A i \in 0 .. n - 1 : g[i] = f[i]
      OBVIOUS
    <2>3. g[n] = Turn(loop, c, f[n - 1], xs[n])
      OBVIOUS
    <2> HIDE DEF g
    <2>4. \A i \in 1 .. n : g[i] = Turn(loop, c, g[i - 1], xs[i])
      <3> TAKE i \in 1 .. n
      <3>1. i - 1 \in 0 .. n - 1 /\ g[i - 1] = f[i - 1]
        BY <2>2
      <3>2. CASE i = n
        BY <2>3, <3>1, <3>2
      <3>3. CASE i # n
        <4>1. i \in 1 .. (n - 1) /\ i \in 0 .. (n - 1)
          BY <3>3
        <4>2. f[i] = Turn(loop, c, f[i - 1], xs[i])
          BY <2>1, <4>1 DEF Turns
        <4> QED BY <2>2, <3>1, <4>1, <4>2
      <3> QED BY <3>2, <3>3
    <2>5. g[0] = base
      BY <2>1, <2>2 DEF Turns
    <2> QED BY <2>4, <2>5 DEF Turns
  <1> HIDE DEF G
  <1>3. N \in G
    BY <1>1, <1>2, UpTo
  <1>4. PICK f : Turns(f, loop, c, base, xs, N)
    BY <1>3 DEF G
  <1> DEFINE h == [n \in 0 .. N |-> f[n]]
  <1>5. h = [n \in 0 .. N |-> IF n = 0 THEN base ELSE Turn(loop, c, h[n - 1], xs[n])]
    <2>1. ASSUME NEW n \in 0 .. N
          PROVE  f[n] = IF n = 0 THEN base ELSE Turn(loop, c, h[n - 1], xs[n])
      <3>1. CASE n = 0
        BY <1>4, <3>1 DEF Turns
      <3>2. CASE n # 0
        <4>1. n \in 1 .. N /\ n - 1 \in 0 .. N
          BY <3>2
        <4>2. h[n - 1] = f[n - 1]
          BY <4>1
        <4>3. f[n] = Turn(loop, c, f[n - 1], xs[n])
          BY <1>4, <4>1 DEF Turns
        <4> QED BY <3>2, <4>2, <4>3
      <3> QED BY <3>1, <3>2
    <2> QED BY <2>1
  <1> QED BY <1>5

\* What a loop written as a function on 0 .. N computes.
LEMMA LoopUnfolds ==
    ASSUME NEW loop, NEW c, NEW base, NEW xs, NEW N \in Nat, NEW f,
           f = CHOOSE g : g = [n \in 0 .. N |-> IF n = 0 THEN base ELSE Turn(loop, c, g[n - 1], xs[n])]
    PROVE  Turns(f, loop, c, base, xs, N)
  <1>1. f = [n \in 0 .. N |-> IF n = 0 THEN base ELSE Turn(loop, c, f[n - 1], xs[n])]
    BY LoopExists
  <1>2. f[0] = base
    BY <1>1
  <1>3. \A i \in 1 .. N : f[i] = Turn(loop, c, f[i - 1], xs[i])
    <2> TAKE i \in 1 .. N
    <2>1. i \in 0 .. N /\ i # 0
      OBVIOUS
    <2> QED BY <1>1, <2>1
  <1> QED BY <1>2, <1>3 DEF Turns

\* A filter keeps what is in the set, once each if nothing is repeated.
LEMMA KeptIs ==
    ASSUME NEW R, NEW s \in Seq(R), NEW S
    PROVE  /\ Kept(s, S) \in Seq(R) /\ Range(Kept(s, S)) = Range(s) \cap S
           /\ IsInjective(s) => IsInjective(Kept(s, S))
  <1> DEFINE N == Len(s)
             f == CHOOSE g : g = [n \in 0 .. N |->
                    IF n = 0 THEN <<>> ELSE IF s[n] \in S THEN Append(g[n - 1], s[n]) ELSE g[n - 1]]
             h == CHOOSE g : g = [n \in 0 .. N |-> IF n = 0 THEN <<>> ELSE Turn("kept", S, g[n - 1], s[n])]
             upto(n) == {s[i] : i \in 1 .. n}
             Good(n) == /\ f[n] \in Seq(R) /\ Range(f[n]) = upto(n) \cap S
                        /\ IsInjective(s) => IsInjective(f[n])
             G == {n \in 0 .. N : Good(n)}
  <1>1. N \in Nat /\ DOMAIN s = 1 .. N /\ \A i \in 1 .. N : s[i] \in R
    OBVIOUS
  <1>2. Kept(s, S) = f[N]
    BY DEF Kept
  <1>3. f = h
    BY DEF Turn
  <1> HIDE DEF f, N
  <1>4. Turns(f, "kept", S, <<>>, s, N)
    BY <1>1, <1>3, LoopUnfolds
  <1>5. 0 \in G
    <2>1. f[0] = <<>> /\ 0 \in 0 .. N
      BY <1>1, <1>4 DEF Turns
    <2>2. <<>> \in Seq(R) /\ Range(<<>>) = {} /\ IsInjective(<<>>)
      BY DEF Range, IsInjective
    <2>3. upto(0) = {}
      OBVIOUS
    <2> QED BY <2>1, <2>2, <2>3
  <1>6. ASSUME NEW n \in 1 .. N, n - 1 \in G PROVE n \in G
    <2> DEFINE a == f[n - 1]
               x == s[n]
    <2>1. f[n] = IF x \in S THEN Append(a, x) ELSE a
      BY <1>4 DEF Turns, Turn
    <2>2. /\ a \in Seq(R) /\ Range(a) = upto(n - 1) \cap S /\ x \in R
          /\ IsInjective(s) => IsInjective(a)
      BY <1>1, <1>6
    <2>3. upto(n) = upto(n - 1) \cup {x}
      BY <1>1
    <2>4. IsInjective(s) => x \notin upto(n - 1)
      <3>1. \A i \in 1 .. n - 1 : i \in DOMAIN s /\ n \in DOMAIN s /\ i # n
        BY <1>1
      <3> QED BY <3>1 DEF IsInjective
    <2> HIDE DEF a, upto, x
    <2>5. /\ Append(a, x) \in Seq(R) /\ Range(Append(a, x)) = Range(a) \cup {x}
          /\ IsInjective(a) /\ x \notin Range(a) => IsInjective(Append(a, x))
      BY <2>2, AppendOnce
    <2>6. ASSUME x \in S PROVE Good(n)
      <3>1. f[n] = Append(a, x)
        BY <2>1, <2>6
      <3>2. Range(f[n]) = upto(n) \cap S
        BY <2>2, <2>3, <2>5, <2>6, <3>1
      <3>3. IsInjective(s) => IsInjective(f[n])
        BY <2>2, <2>4, <2>5, <3>1
      <3> QED BY <2>5, <3>1, <3>2, <3>3
    <2>7. ASSUME x \notin S PROVE Good(n)
      <3>1. f[n] = a
        BY <2>1, <2>7
      <3>2. Range(f[n]) = upto(n) \cap S
        BY <2>2, <2>3, <2>7, <3>1
      <3> QED BY <2>2, <3>1, <3>2
    <2>8. Good(n)
      BY <2>6, <2>7
    <2> QED BY <1>1, <2>8
  <1> HIDE DEF Good
  <1>7. N \in G
    <2> HIDE DEF G
    <2> QED BY <1>1, <1>5, <1>6, UpTo
  <1>8. Good(N)
    BY <1>7
  <1>9. upto(N) = Range(s)
    BY <1>1 DEF Range
  <1> QED BY <1>2, <1>8, <1>9 DEF Good

\* The steps of a set, in order.
LEMMA InOrderIs ==
    ASSUME NEW dag, NEW n \in Nat, DOMAIN dag = 1 .. n, NEW S \in SUBSET DOMAIN dag
    PROVE  /\ InOrder(dag, S) \in Seq(DOMAIN dag) /\ Range(InOrder(dag, S)) = S
           /\ IsInjective(InOrder(dag, S))
  <1> DEFINE s == [i \in DOMAIN dag |-> i]
  <1>1. s \in Seq(DOMAIN dag) /\ Range(s) = DOMAIN dag /\ IsInjective(s)
    BY DEF Range, IsInjective
  <1> HIDE DEF s
  <1>2. /\ Kept(s, S) \in Seq(DOMAIN dag) /\ Range(Kept(s, S)) = Range(s) \cap S
        /\ IsInjective(Kept(s, S))
    BY <1>1, KeptIs
  <1> QED BY <1>1, <1>2 DEF InOrder, s

-----------------------------------------------------------------------------
(* The order of a workflow: Kahn's algorithm.                              *)

\* A DAG as `add_step` makes it: steps whose dependencies are positions, of
\* this DAG or not, in any order, doubled or not.
IsDag(dag) ==
    /\ dag \in Seq(Range(dag))
    /\ \A i \in DOMAIN dag : dag[i].deps \in Seq(Nat)

\* The dependencies of step i that are not in O yet.
Waiting(dag, i, O) == {k \in DOMAIN dag[i].deps : dag[i].deps[k] \notin O}

\* The invariant of the loop: no step is in the order or on the stack twice or
\* in both; a step's indegree counts what it waits for; the steps that wait for
\* nothing are those in the order or on the stack; the order so far is legal.
LoopInv(dag, order, ready, indegree) ==
    /\ order \in Seq(DOMAIN dag) /\ ready \in Seq(DOMAIN dag)
    /\ IsInjective(order) /\ IsInjective(ready) /\ Range(order) \cap Range(ready) = {}
    /\ \A i \in DOMAIN dag : indegree[i] = Cardinality(Waiting(dag, i, Range(order)))
    /\ \A i \in DOMAIN dag : i \in Range(order) \cup Range(ready) <=> indegree[i] = 0
    /\ \A j \in DOMAIN order : Range(dag[order[j]].deps) \subseteq {order[l] : l \in 1 .. j - 1}

\* Nothing to wait for.
LEMMA NoneWaiting ==
    ASSUME NEW dag, IsDag(dag), NEW i \in DOMAIN dag, NEW O
    PROVE  /\ IsFiniteSet(Waiting(dag, i, O)) /\ Cardinality(Waiting(dag, i, O)) \in Nat
           /\ Cardinality(Waiting(dag, i, O)) = 0 <=> Range(dag[i].deps) \subseteq O
  <1> DEFINE ds == dag[i].deps
             W  == Waiting(dag, i, O)
  <1>1. ds \in Seq(Nat)
    BY DEF IsDag
  <1>2. DOMAIN ds = 1 .. Len(ds) /\ Len(ds) \in Nat
    BY <1>1
  <1>3. W \in SUBSET DOMAIN ds /\ (W = {} <=> Range(ds) \subseteq O)
    BY DEF Waiting, Range
  <1> HIDE DEF W, ds
  <1>4. IsFiniteSet(DOMAIN ds)
    BY <1>2, FS_Interval
  <1>5. IsFiniteSet(W) /\ Cardinality(W) \in Nat
    BY <1>3, <1>4, FS_Subset, FS_CardinalityType
  <1>6. Cardinality(W) = 0 <=> W = {}
    BY <1>5, FS_EmptySet
  <1> QED BY <1>3, <1>5, <1>6 DEF W, ds

\* One step more in the order: each step waits for it as often as it names it less.
LEMMA WaitsLess ==
    ASSUME NEW dag, IsDag(dag), NEW i \in DOMAIN dag, NEW O, NEW x, x \notin O
    PROVE  /\ Times(dag, i, x) \in Nat
           /\ Cardinality(Waiting(dag, i, O \cup {x})) = Cardinality(Waiting(dag, i, O)) - Times(dag, i, x)
           /\ Times(dag, i, x) = 0 => Waiting(dag, i, O \cup {x}) = Waiting(dag, i, O)
  <1> DEFINE T == {k \in DOMAIN dag[i].deps : dag[i].deps[k] = x}
             W == Waiting(dag, i, O)
             V == Waiting(dag, i, O \cup {x})
  <1>1. V = W \ T /\ W \cap T = T /\ T \subseteq W
    BY DEF Waiting
  <1>2. Times(dag, i, x) = Cardinality(T)
    BY DEF Times
  <1>3. IsFiniteSet(W)
    BY NoneWaiting
  <1> HIDE DEF T, W, V
  <1>4. Cardinality(W \ T) = Cardinality(W) - Cardinality(W \cap T)
    BY <1>3, FS_Difference
  <1>5. IsFiniteSet(T)
    BY <1>1, <1>3, FS_Subset
  <1>6. Cardinality(T) \in Nat /\ (Cardinality(T) = 0 <=> T = {})
    BY <1>5, FS_CardinalityType, FS_EmptySet
  <1>7. Cardinality(T) = 0 => V = W
    BY <1>1, <1>6
  <1>8. Cardinality(V) = Cardinality(W) - Cardinality(T)
    BY <1>1, <1>4
  <1> QED BY <1>2, <1>6, <1>7, <1>8 DEF W, V

\* Before the loop.
LEMMA LoopStarts ==
    ASSUME NEW dag, IsDag(dag), NEW indegree, indegree = [i \in DOMAIN dag |-> Indegree(dag, i)]
    PROVE  LoopInv(dag, <<>>, InOrder(dag, {i \in DOMAIN dag : Indegree(dag, i) = 0}), indegree)
  <1> DEFINE S == {i \in DOMAIN dag : Indegree(dag, i) = 0}
             ready == InOrder(dag, S)
             order == <<>>
  <1>1. PICK n \in Nat : DOMAIN dag = 1 .. n
    BY DEF IsDag
  <1>2. ready \in Seq(DOMAIN dag) /\ Range(ready) = S /\ IsInjective(ready)
    BY <1>1, InOrderIs
  <1>3. order \in Seq(DOMAIN dag) /\ Range(order) = {} /\ IsInjective(order) /\ DOMAIN order = {}
    BY DEF Range, IsInjective
  <1>4. ASSUME NEW i \in DOMAIN dag
        PROVE  Cardinality(Waiting(dag, i, {})) = indegree[i]
    <2> DEFINE ds == dag[i].deps
    <2>1. ds \in Seq(Nat)
      BY DEF IsDag
    <2>2. DOMAIN ds = 1 .. Len(ds) /\ Len(ds) \in Nat
      BY <2>1
    <2>3. Waiting(dag, i, {}) = DOMAIN ds
      BY DEF Waiting
    <2>4. Cardinality(1 .. Len(ds)) = Len(ds)
      BY <2>2, FS_Interval
    <2>5. indegree[i] = Len(ds)
      BY DEF Indegree
    <2> HIDE DEF ds
    <2> QED BY <2>2, <2>3, <2>4, <2>5
  <1>5. \A i \in DOMAIN dag : i \in S <=> indegree[i] = 0
    OBVIOUS
  <1> HIDE DEF S, ready, order
  <1>6. LoopInv(dag, order, ready, indegree)
    BY <1>2, <1>3, <1>4, <1>5 DEF LoopInv
  <1> QED BY <1>6 DEF order, ready, S

\* A turn of the loop.
LEMMA PopKeeps ==
    ASSUME NEW dag, IsDag(dag), NEW st, LoopInv(dag, st.order, st.ready, st.indegree), st.ready # <<>>
    PROVE  LET new == Pop(dag, st)
           IN  /\ LoopInv(dag, new.order, new.ready, new.indegree)
               /\ Len(new.order) = Len(st.order) + 1
  <1> DEFINE D == DOMAIN dag
             order == st.order
             ready == st.ready
             indegree == st.indegree
             node == Last(ready)
             left == [i \in D |-> indegree[i] - Times(dag, i, node)]
             freed == {i \in D : Times(dag, i, node) > 0 /\ left[i] = 0}
             after == Append(order, node)
             stack == Front(ready) \o InOrder(dag, freed)
  <1>1. /\ order \in Seq(D) /\ ready \in Seq(D)
        /\ IsInjective(order) /\ IsInjective(ready) /\ Range(order) \cap Range(ready) = {}
    BY DEF LoopInv
  <1>2. \A i \in D : indegree[i] = Cardinality(Waiting(dag, i, Range(order)))
    BY DEF LoopInv
  <1>3. \A i \in D : i \in Range(order) \cup Range(ready) <=> indegree[i] = 0
    BY DEF LoopInv
  <1>4. \A j \in DOMAIN order : Range(dag[order[j]].deps) \subseteq {order[l] : l \in 1 .. j - 1}
    BY DEF LoopInv
  <1>5. Pop(dag, st) = [order |-> after, ready |-> stack, indegree |-> left]
    BY DEF Pop
  <1>6. ready # <<>>
    OBVIOUS
  <1>7. PICK n \in Nat : D = 1 .. n
    BY DEF IsDag
  <1>8. freed \in SUBSET D
    OBVIOUS
  <1>9. /\ \A i \in D : left[i] = indegree[i] - Times(dag, i, node)
        /\ \A i \in D : i \in freed <=> Times(dag, i, node) > 0 /\ left[i] = 0
    OBVIOUS
  <1> HIDE DEF order, ready, indegree, left, freed, node
  <1>10. /\ node \in Range(ready)
         /\ Front(ready) \in Seq(D) /\ IsInjective(Front(ready))
         /\ Range(Front(ready)) = Range(ready) \ {node}
    BY <1>1, <1>6, FrontOnce DEF node
  <1>11. node \in D /\ node \notin Range(order)
    <2>1. Range(ready) \subseteq D
      BY <1>1 DEF Range
    <2> QED BY <1>1, <1>10, <2>1
  <1>12. /\ InOrder(dag, freed) \in Seq(D) /\ Range(InOrder(dag, freed)) = freed
         /\ IsInjective(InOrder(dag, freed))
    BY <1>7, <1>8, InOrderIs
  <1>13. after \in Seq(D) /\ Range(after) = Range(order) \cup {node} /\ IsInjective(after)
    BY <1>1, <1>11, AppendOnce
  <1>14. ASSUME NEW i \in D
         PROVE  /\ Times(dag, i, node) \in Nat
                /\ left[i] = Cardinality(Waiting(dag, i, Range(after)))
                /\ left[i] \in Nat
                /\ Times(dag, i, node) = 0 => left[i] = indegree[i]
                /\ indegree[i] \in Nat
    <2>1. /\ Times(dag, i, node) \in Nat
          /\ Cardinality(Waiting(dag, i, Range(order) \cup {node}))
               = Cardinality(Waiting(dag, i, Range(order))) - Times(dag, i, node)
      BY <1>11, WaitsLess
    <2>2. Cardinality(Waiting(dag, i, Range(order))) \in Nat /\ Cardinality(Waiting(dag, i, Range(after))) \in Nat
      BY NoneWaiting
    <2>3. left[i] = indegree[i] - Times(dag, i, node)
      BY <1>9
    <2>4. indegree[i] = Cardinality(Waiting(dag, i, Range(order)))
      BY <1>2
    <2>5. left[i] = Cardinality(Waiting(dag, i, Range(after)))
      BY <1>13, <2>1, <2>3, <2>4
    <2> QED BY <2>1, <2>2, <2>3, <2>4, <2>5
  <1>15. \A i \in freed : i \in D /\ i \notin Range(order) \cup Range(ready)
    <2> TAKE i \in freed
    <2>1. i \in D
      BY <1>8
    <2>2. indegree[i] # 0
      BY <1>9, <1>14, <2>1
    <2> QED BY <1>3, <2>1, <2>2
  <1>16. stack \in Seq(D) /\ Range(stack) = (Range(ready) \ {node}) \cup freed /\ IsInjective(stack)
    <2>1. Range(Front(ready)) \cap Range(InOrder(dag, freed)) = {}
      BY <1>10, <1>12, <1>15
    <2> QED BY <1>10, <1>12, <2>1, ConcatOnce
  <1>17. Range(after) \cap Range(stack) = {}
    BY <1>1, <1>10, <1>13, <1>15, <1>16
  <1>18. ASSUME NEW i \in D
         PROVE  i \in Range(after) \cup Range(stack) <=> left[i] = 0
    <2>1. i \in Range(after) \cup Range(stack) <=> i \in Range(order) \cup Range(ready) \cup freed
      BY <1>10, <1>13, <1>16
    <2>2. i \in freed <=> Times(dag, i, node) > 0 /\ left[i] = 0
      BY <1>9
    <2>3. i \in Range(order) \cup Range(ready) <=> indegree[i] = 0
      BY <1>3
    <2>4. left[i] = indegree[i] - Times(dag, i, node)
      BY <1>9
    <2>5. Times(dag, i, node) \in Nat /\ left[i] \in Nat /\ indegree[i] \in Nat
      BY <1>14
    <2>6. left[i] = 0 <=> indegree[i] = 0 \/ (Times(dag, i, node) > 0 /\ left[i] = 0)
      BY <2>4, <2>5
    <2> QED BY <2>1, <2>2, <2>3, <2>6
  <1>19. /\ Len(order) \in Nat /\ DOMAIN order = 1 .. Len(order)
         /\ DOMAIN after = 1 .. Len(order) + 1 /\ Len(after) = Len(order) + 1
         /\ after[Len(order) + 1] = node /\ \A j \in 1 .. Len(order) : after[j] = order[j]
    BY <1>1, <1>11
  <1> HIDE DEF after, stack
  <1>20. ASSUME NEW j \in DOMAIN after
         PROVE  Range(dag[after[j]].deps) \subseteq {after[l] : l \in 1 .. j - 1}
    <2> DEFINE before(s) == {s[l] : l \in 1 .. j - 1}
    <2>1. before(after) = before(order)
      BY <1>19
    <2>2. CASE j \in DOMAIN order
      BY <1>4, <1>19, <2>1, <2>2
    <2>3. CASE j = Len(order) + 1
      <3>1. indegree[node] = 0
        BY <1>3, <1>10, <1>11
      <3>2. Range(dag[node].deps) \subseteq Range(order)
        BY <1>2, <1>11, <3>1, NoneWaiting
      <3>3. Range(order) = before(order)
        BY <1>19, <2>3 DEF Range
      <3> QED BY <1>19, <2>1, <2>3, <3>2, <3>3
    <2> QED BY <1>19, <2>2, <2>3
  <1>21. LoopInv(dag, after, stack, left)
    BY <1>13, <1>14, <1>16, <1>17, <1>18, <1>20 DEF LoopInv
  <1> QED BY <1>5, <1>19, <1>21 DEF order

\* What the loop ends with: all steps are in the order or none is on the stack.
LEMMA LoopEnds ==
    ASSUME NEW dag, IsDag(dag)
    PROVE  \E ready, indegree : /\ LoopInv(dag, Ordered(dag), ready, indegree)
                                /\ Len(Ordered(dag)) = Len(dag) \/ ready = <<>>
  <1> DEFINE N == Len(dag)
             counts == [i \in DOMAIN dag |-> Indegree(dag, i)]
             base == [order |-> <<>>, indegree |-> counts,
                      ready |-> InOrder(dag, {i \in DOMAIN dag : Indegree(dag, i) = 0})]
             f == CHOOSE g : g = [n \in 0 .. N |->
                    IF n = 0 THEN base ELSE Advance(dag, g[n - 1])]
             h == CHOOSE g : g = [n \in 0 .. N |-> IF n = 0 THEN base ELSE Turn("order", dag, g[n - 1], dag[n])]
             Good(n, st) == /\ LoopInv(dag, st.order, st.ready, st.indegree)
                            /\ Len(st.order) = n \/ st.ready = <<>>
             G == {n \in 0 .. N : Good(n, f[n])}
  <1>1. N \in Nat
    BY DEF IsDag
  <1>2. Ordered(dag) = f[N].order
    BY DEF Ordered
  <1>3. f = h
    BY DEF Turn
  <1>4. LoopInv(dag, base.order, base.ready, base.indegree) /\ base.order = <<>>
    <2> HIDE DEF counts
    <2>1. LoopInv(dag, <<>>, InOrder(dag, {i \in DOMAIN dag : Indegree(dag, i) = 0}), counts)
      BY LoopStarts DEF counts
    <2> QED BY <2>1
  <1> HIDE DEF f, h, base, counts, N
  <1>5. Turns(f, "order", dag, base, dag, N)
    BY <1>1, <1>3, LoopUnfolds DEF h
  <1>6. 0 \in G
    <2>1. f[0] = base /\ 0 \in 0 .. N
      BY <1>1, <1>5 DEF Turns
    <2>2. Len(base.order) = 0
      BY <1>4
    <2> QED BY <1>4, <2>1, <2>2
  <1>7. ASSUME NEW n \in 1 .. N, n - 1 \in G PROVE n \in G
    <2> DEFINE a == f[n - 1]
               b == Pop(dag, a)
    <2>1. Good(n - 1, a)
      BY <1>7
    <2>2. f[n] = IF a.ready = <<>> THEN a ELSE b
      BY <1>5 DEF Turns, Turn, Advance
    <2> HIDE DEF a
    <2>3. CASE a.ready = <<>>
      BY <1>1, <2>1, <2>2, <2>3
    <2>4. CASE a.ready # <<>>
      <3>1. LoopInv(dag, b.order, b.ready, b.indegree) /\ Len(b.order) = Len(a.order) + 1
        BY <2>1, <2>4, PopKeeps
      <3>2. Len(a.order) = n - 1
        BY <2>1, <2>4
      <3>3. f[n] = b
        BY <2>2, <2>4
      <3> HIDE DEF b
      <3> QED BY <1>1, <3>1, <3>2, <3>3
    <2> QED BY <2>3, <2>4
  <1>8. N \in G
    <2> HIDE DEF G
    <2> QED BY <1>1, <1>6, <1>7, UpTo
  <1>9. Good(N, f[N])
    BY <1>8
  <1> QED BY <1>2, <1>9 DEF N

\* No step can come first of those that are left, if each of them waits.
LEMMA StuckHasNoOrder ==
    ASSUME NEW dag, IsDag(dag), NEW order, NEW indegree, LoopInv(dag, order, <<>>, indegree),
           Range(order) # DOMAIN dag, NEW s, Legal(dag, s), NEW n \in Nat, DOMAIN s = 1 .. n
    PROVE  FALSE
  <1> DEFINE D == DOMAIN dag
             T == {j \in 1 .. n : s[j] \notin Range(order)}
  <1>1. \A i \in D : i \in Range(order) <=> Cardinality(Waiting(dag, i, Range(order))) = 0
    BY DEF LoopInv, Range
  <1>2. Range(order) \subseteq D
    BY DEF LoopInv, Range
  <1>3. Range(s) = D
    BY DEF Legal
  <1>4. T # {} /\ T \in SUBSET Nat
    <2>1. PICK x \in D : x \notin Range(order)
      BY <1>2
    <2>2. PICK j \in 1 .. n : s[j] = x
      BY <1>3, <2>1 DEF Range
    <2>3. j \in T
      BY <2>1, <2>2
    <2> QED BY <2>3
  <1> HIDE DEF T
  <1>5. PICK j \in T : \A k \in T : j <= k
    BY <1>4, LeastNatural
  <1>6. j \in 1 .. n /\ s[j] \notin Range(order) /\ s[j] \in D
    BY <1>3, <1>5 DEF T, Range
  <1>7. Range(dag[s[j]].deps) \subseteq {s[l] : l \in 1 .. j - 1}
    BY <1>6 DEF Legal
  <1>8. \A l \in 1 .. j - 1 : s[l] \in Range(order)
    <2> TAKE l \in 1 .. j - 1
    <2>1. l \in 1 .. n /\ ~(j <= l)
      BY <1>6
    <2>2. l \notin T
      BY <1>5, <2>1
    <2> QED BY <2>1, <2>2 DEF T
  <1>9. Range(dag[s[j]].deps) \subseteq Range(order)
    BY <1>7, <1>8
  <1>10. Cardinality(Waiting(dag, s[j], Range(order))) = 0
    BY <1>6, <1>9, NoneWaiting
  <1> QED BY <1>1, <1>6, <1>10

\* How many numbers there are from 1 to n.
LEMMA UpToHas == \A n \in Nat : Cardinality(1 .. n) = n
  BY FS_Interval

\* topological_order gives every step once, after all its dependencies, or
\* nothing, and nothing only for a DAG that cannot be ordered at all: a cycle or
\* a dependency that is no step of it.  For every DAG, with any steps, and
\* dependencies doubled, on the step itself or on no step.
THEOREM WorkflowOrderIsRight ==
    ASSUME NEW dag, IsDag(dag)
    PROVE  OrderIsRight(dag)
  <1> DEFINE D == DOMAIN dag
             order == Ordered(dag)
  <1>1. PICK ready, indegree : /\ LoopInv(dag, order, ready, indegree)
                               /\ Len(order) = Len(dag) \/ ready = <<>>
    BY LoopEnds
  <1>2. Len(dag) \in Nat /\ D = 1 .. Len(dag)
    BY DEF IsDag
  <1>3. order \in Seq(D) /\ IsInjective(order)
    BY <1>1 DEF LoopInv
  <1>4. Range(order) = D <=> Len(order) = Len(dag)
    BY <1>2, <1>3, OnceCovers
  <1>5. Len(order) = Len(dag) => Legal(dag, order)
    BY <1>1, <1>3, <1>4 DEF LoopInv, Legal
  <1>6. topological_order(dag) = IF Foreign(dag) \/ Len(order) # Len(dag) THEN <<>> ELSE order
    BY DEF topological_order
  <1>7. ASSUME NEW s \in SetToSeqs(D), Legal(dag, s)
        PROVE  ~Foreign(dag) /\ Len(order) = Len(dag)
    <2>1. Cardinality(D) = Len(dag)
      BY <1>2, UpToHas
    <2>2. DOMAIN s = 1 .. Len(dag)
      BY <2>1 DEF SetToSeqs
    <2>3. ~Foreign(dag)
      <3> SUFFICES ASSUME NEW i \in D, NEW k \in DOMAIN dag[i].deps PROVE dag[i].deps[k] \in D
        BY DEF Foreign
      <3>1. PICK j \in DOMAIN s : s[j] = i
        BY <1>7 DEF Legal, Range
      <3>2. Range(dag[i].deps) \subseteq {s[l] : l \in 1 .. j - 1}
        BY <1>7, <3>1 DEF Legal
      <3>3. \A l \in 1 .. j - 1 : l \in DOMAIN s
        BY <1>2, <2>2
      <3>4. {s[l] : l \in 1 .. j - 1} \subseteq D
        BY <1>7, <3>3 DEF Legal, Range
      <3> QED BY <3>2, <3>4 DEF Range
    <2>4. ASSUME Len(order) # Len(dag) PROVE FALSE
      <3>1. LoopInv(dag, order, <<>>, indegree)
        BY <1>1, <2>4
      <3>2. Range(order) # D
        BY <1>4, <2>4
      <3> HIDE DEF order
      <3> QED BY <1>2, <1>7, <2>2, <3>1, <3>2, StuckHasNoOrder
    <2> QED BY <2>3, <2>4
  <1>8. ASSUME Len(order) = Len(dag) PROVE Runnable(dag)
    <2>1. Cardinality(D) = Len(dag)
      BY <1>2, UpToHas
    <2> HIDE DEF order
    <2>2. order \in [1 .. Len(dag) -> D]
      BY <1>3, <1>8
    <2>3. \A i, j \in 1 .. Len(dag) : i # j => order[i] # order[j]
      BY <1>3, <2>2 DEF IsInjective
    <2>4. order \in SetToSeqs(D)
      BY <2>1, <2>2, <2>3 DEF SetToSeqs
    <2> QED BY <1>5, <1>8, <2>4 DEF Runnable
  <1> HIDE DEF order
  <1>9. CASE Runnable(dag)
    <2>1. ~Foreign(dag) /\ Len(order) = Len(dag)
      BY <1>7, <1>9 DEF Runnable
    <2> QED BY <1>5, <1>6, <1>9, <2>1 DEF OrderIsRight
  <1>10. CASE ~Runnable(dag)
    BY <1>6, <1>8, <1>10 DEF OrderIsRight
  <1> QED BY <1>9, <1>10

\* A list of any elements.
LEMMA ListOf ==
    ASSUME NEW S, NEW s \in Seq(S)
    PROVE  /\ Len(s) \in Nat /\ DOMAIN s = 1 .. Len(s)
           /\ \A i \in DOMAIN s : s[i] \in S
           /\ s \in Seq(Range(s))
  <1>1. s \in [1 .. Len(s) -> Range(s)] /\ Len(s) \in Nat
    BY DEF Range
  <1> QED BY <1>1

\* A step as a planner and a definition name it.
Steps(Name) == [name : Name, capability : STRING, deps : Seq(Nat)]

\* A DAG whose steps depend on earlier ones only has an order.
LEMMA EarlierIsLegal ==
    ASSUME NEW dag, IsDag(dag), \A i \in DOMAIN dag : Range(dag[i].deps) \subseteq 1 .. i - 1
    PROVE  Legal(dag, topological_order(dag))
  <1> DEFINE N == Len(dag)
             s == [i \in 1 .. N |-> i]
  <1>1. N \in Nat /\ DOMAIN dag = 1 .. N
    BY DEF IsDag
  <1> HIDE DEF N
  <1>2. s \in [1 .. N -> 1 .. N] /\ \A i \in 1 .. N : s[i] = i
    OBVIOUS
  <1> HIDE DEF s
  <1>3. s \in SetToSeqs(DOMAIN dag)
    BY <1>1, <1>2, UpToHas DEF SetToSeqs
  <1>4. Range(s) = DOMAIN dag /\ IsInjective(s)
    BY <1>1, <1>2 DEF Range, IsInjective
  <1>5. ASSUME NEW i \in 1 .. N
        PROVE  Range(dag[s[i]].deps) \subseteq {s[j] : j \in 1 .. i - 1}
    <2>1. \A j \in 1 .. i - 1 : s[j] = j
      BY <1>1, <1>2
    <2>2. {s[j] : j \in 1 .. i - 1} = 1 .. i - 1
      BY <2>1
    <2> QED BY <1>1, <1>2, <2>2
  <1>6. Legal(dag, s)
    BY <1>1, <1>2, <1>4, <1>5 DEF Legal
  <1> QED BY <1>3, <1>6, WorkflowOrderIsRight DEF Runnable, OrderIsRight

\* Whatever subtasks a planner returns, whatever they depend on, their plan can
\* be run: its order puts every step after the steps it depends on.
THEOREM PlansCanRun ==
    ASSUME NEW Name, NEW subtasks \in Seq(Steps(Name))
    PROVE  Legal(plan(subtasks), topological_order(plan(subtasks)))
  <1> DEFINE dag == plan(subtasks)
  <1>1. dag = [i \in DOMAIN subtasks |-> [subtasks[i] EXCEPT !.deps = Kept(@, 1 .. i - 1)]]
    BY DEF plan
  <1>2. ASSUME NEW i \in DOMAIN subtasks
        PROVE  dag[i] \in Steps(Name) /\ Range(dag[i].deps) \subseteq 1 .. i - 1
    <2> DEFINE ds == subtasks[i].deps
               k == Kept(ds, 1 .. i - 1)
    <2>1. subtasks[i] \in Steps(Name)
      BY ListOf
    <2>2. ds \in Seq(Nat)
      BY <2>1 DEF Steps
    <2>3. dag[i] = [subtasks[i] EXCEPT !.deps = k]
      BY <1>1
    <2> HIDE DEF dag, ds
    <2>4. k \in Seq(Nat) /\ Range(k) = Range(ds) \cap (1 .. i - 1)
      BY <2>2, KeptIs
    <2> HIDE DEF k
    <2>5. dag[i] \in Steps(Name) /\ dag[i].deps = k
      BY <2>1, <2>3, <2>4 DEF Steps
    <2> QED BY <2>4, <2>5
  <1>3. PICK n \in Nat : DOMAIN subtasks = 1 .. n
    BY ListOf
  <1>4. DOMAIN dag = 1 .. n
    BY <1>1, <1>3
  <1> HIDE DEF dag
  <1>5. dag \in [1 .. n -> Steps(Name)]
    BY <1>1, <1>2, <1>3
  <1>6. dag \in Seq(Steps(Name))
    BY <1>5
  <1>7. \A i \in 1 .. n : dag[i].deps \in Seq(Nat)
    BY <1>5 DEF Steps
  <1>8. IsDag(dag)
    BY <1>4, <1>6, <1>7, ListOf DEF IsDag
  <1>9. \A i \in DOMAIN dag : Range(dag[i].deps) \subseteq 1 .. i - 1
    BY <1>2, <1>3, <1>4
  <1>10. Legal(dag, topological_order(dag))
    BY <1>8, <1>9, EarlierIsLegal
  <1> QED BY <1>10 DEF dag

\* What has been read of a definition.
WellRead(st) ==
    /\ DOMAIN st = {"ok", "dag"} /\ st.ok \in BOOLEAN
    /\ st.dag \in Seq(Steps(STRING))
    /\ \A i \in DOMAIN st.dag : Range(st.dag[i].deps) \subseteq 1 .. i - 1
    /\ \A i, j \in DOMAIN st.dag : st.dag[i].name = st.dag[j].name => i = j

Lines == [form : STRING, name : STRING, capability : STRING, deps : Seq(STRING)]

\* A line adds at most one step, of a new name, that depends on steps above.
LEMMA LineKeeps ==
    ASSUME NEW st, WellRead(st), NEW line \in Lines
    PROVE  WellRead(DefinitionLine(st, line))
  <1> DEFINE deps == Kept(line.deps, Range(line.deps) \ {""})
             dag == st.dag
             n == Len(dag)
             at == [i \in DOMAIN deps |-> CHOOSE p \in Positions(dag, deps[i]) : TRUE]
             step == Step(line.name, line.capability, at)
             refused == \/ line.name = "" \/ line.capability = ""
                        \/ \E i \in DOMAIN deps : Positions(dag, deps[i]) = {}
                        \/ Positions(dag, line.name) # {}
  <1>1. WellRead([st EXCEPT !.ok = FALSE])
    BY DEF WellRead
  <1>2. dag \in Seq(Steps(STRING)) /\ n \in Nat /\ DOMAIN dag = 1 .. n
    BY ListOf DEF WellRead
  <1>3. line.name \in STRING /\ line.capability \in STRING /\ line.deps \in Seq(STRING)
    BY DEF Lines
  <1>4. deps \in Seq(STRING)
    BY <1>3, KeptIs
  <1>5. DefinitionLine(st, line) \in
            {st, [st EXCEPT !.ok = FALSE]} \cup {[st EXCEPT !.dag = add_step(@, step)] : x \in {y \in {0} : ~refused}}
    BY DEF DefinitionLine
  <1>6. ASSUME ~refused PROVE WellRead([st EXCEPT !.dag = add_step(@, step)])
    <2>1. \A i \in DOMAIN deps : Positions(dag, deps[i]) # {}
      BY <1>6
    <2>2. Positions(dag, line.name) = {}
      BY <1>6
    <2>3. \A x : Positions(dag, x) \subseteq 1 .. n
      BY <1>2 DEF Positions
    <2>4. \A i \in DOMAIN deps : at[i] \in 1 .. n
      BY <2>1, <2>3
    <2>5. DOMAIN at = DOMAIN deps
      OBVIOUS
    <2> HIDE DEF at, deps, dag, n
    <2>6. Len(deps) \in Nat /\ DOMAIN deps = 1 .. Len(deps)
      BY <1>4, ListOf
    <2>7. at \in Seq(Nat) /\ Range(at) \subseteq 1 .. n
      <3>1. at \in [1 .. Len(deps) -> Nat]
        BY <2>4, <2>6, <1>2 DEF at
      <3> QED BY <2>4, <2>5, <2>6, <3>1 DEF Range
    <2>8. step \in Steps(STRING) /\ step.name = line.name /\ step.deps = at
      BY <1>3, <2>7 DEF Step, Steps
    <2> HIDE DEF step
    <2> DEFINE new == Append(dag, step)
    <2>9. /\ new \in Seq(Steps(STRING)) /\ DOMAIN new = 1 .. n + 1
          /\ new[n + 1] = step /\ \A i \in 1 .. n : new[i] = dag[i]
      BY <1>2, <2>8 DEF n
    <2>10. \A i \in 1 .. n + 1 : i \in 1 .. n \/ i = n + 1
      BY <1>2
    <2>11. /\ \A i \in 1 .. n : Range(dag[i].deps) \subseteq 1 .. i - 1
           /\ \A i, j \in 1 .. n : dag[i].name = dag[j].name => i = j
      BY <1>2 DEF WellRead, dag
    <2>12. \A i \in 1 .. n : dag[i].name # line.name
      BY <1>2, <2>2 DEF Positions
    <2>13. [st EXCEPT !.dag = add_step(@, step)] = [st EXCEPT !.dag = new]
      BY DEF add_step, dag
    <2> HIDE DEF new
    <2>14. \A i \in 1 .. n + 1 : Range(new[i].deps) \subseteq 1 .. i - 1
      <3>1. (n + 1) - 1 = n
        BY <1>2
      <3> QED BY <2>7, <2>8, <2>9, <2>10, <2>11, <3>1
    <2>15. \A i, j \in 1 .. n + 1 : new[i].name = new[j].name => i = j
      BY <2>8, <2>9, <2>10, <2>11, <2>12
    <2>16. LET t == [st EXCEPT !.dag = new]
           IN  DOMAIN t = {"ok", "dag"} /\ t.ok \in BOOLEAN /\ t.dag = new
      BY DEF WellRead
    <2>17. WellRead([st EXCEPT !.dag = new])
      BY <2>9, <2>14, <2>15, <2>16 DEF WellRead
    <2> QED BY <2>13, <2>17
  <1> HIDE DEF deps, step, refused
  <1> QED BY <1>1, <1>5, <1>6

\* A definition that is accepted has steps, of different names, and can be run:
\* its order puts every step after the steps it depends on, whatever the lines.
THEOREM DefinitionsCanRun ==
    ASSUME NEW lines \in Seq(Lines), from_definition(lines).ok
    PROVE  LET dag == from_definition(lines).dag
           IN  /\ dag # <<>> /\ Legal(dag, topological_order(dag))
               /\ \A i, j \in DOMAIN dag : dag[i].name = dag[j].name => i = j
  <1> DEFINE N == Len(lines)
             base == [ok |-> TRUE, dag |-> <<>>]
             f == CHOOSE g : g = [n \in 0 .. N |->
                    IF n = 0 THEN base ELSE DefinitionLine(g[n - 1], lines[n])]
             h == CHOOSE g : g = [n \in 0 .. N |-> IF n = 0 THEN base ELSE Turn("line", 0, g[n - 1], lines[n])]
             G == {n \in 0 .. N : WellRead(f[n])}
             end == f[N]
  <1>1. N \in Nat /\ \A n \in 1 .. N : lines[n] \in Lines
    OBVIOUS
  <1>2. from_definition(lines) = [end EXCEPT !.ok = @ /\ end.dag # <<>>]
    BY DEF from_definition
  <1>3. f = h
    BY DEF Turn
  <1> HIDE DEF f, h, N
  <1>4. Turns(f, "line", 0, base, lines, N)
    BY <1>1, <1>3, LoopUnfolds DEF h
  <1>5. 0 \in G
    <2>1. f[0] = base /\ 0 \in 0 .. N
      BY <1>1, <1>4 DEF Turns
    <2>2. WellRead(base)
      BY DEF WellRead
    <2> QED BY <2>1, <2>2
  <1>6. ASSUME NEW n \in 1 .. N, n - 1 \in G PROVE n \in G
    <2>1. f[n] = DefinitionLine(f[n - 1], lines[n])
      BY <1>4 DEF Turns, Turn
    <2>2. WellRead(f[n - 1]) /\ lines[n] \in Lines
      BY <1>1, <1>6
    <2>3. WellRead(f[n])
      BY <2>1, <2>2, LineKeeps
    <2> QED BY <1>1, <2>3
  <1>7. N \in G
    <2> HIDE DEF G
    <2> QED BY <1>1, <1>5, <1>6, UpTo
  <1>8. WellRead(end)
    BY <1>7
  <1> HIDE DEF end
  <1>9. from_definition(lines).dag = end.dag /\ end.dag # <<>>
    BY <1>2, <1>8 DEF WellRead
  <1> DEFINE dag == end.dag
  <1>10. /\ dag \in Seq(Steps(STRING))
         /\ \A i \in DOMAIN dag : Range(dag[i].deps) \subseteq 1 .. i - 1
         /\ \A i, j \in DOMAIN dag : dag[i].name = dag[j].name => i = j
    BY <1>8 DEF WellRead
  <1> HIDE DEF dag
  <1>11. IsDag(dag)
    <2>1. dag \in Seq(Range(dag)) /\ \A i \in DOMAIN dag : dag[i] \in Steps(STRING)
      BY <1>10, ListOf
    <2>2. \A i \in DOMAIN dag : dag[i].deps \in Seq(Nat)
      BY <2>1 DEF Steps
    <2> QED BY <2>1, <2>2 DEF IsDag
  <1>12. Legal(dag, topological_order(dag))
    BY <1>10, <1>11, EarlierIsLegal
  <1> QED BY <1>9, <1>10, <1>12 DEF dag
==============================================================================
