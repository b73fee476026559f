------------------------ MODULE SchedulerQueueProofs ------------------------
(***************************************************************************)
(* Facts about the operators of the scheduler's queue, for the proofs about *)
(* the scheduler and about the engine that drives it.                       *)
(***************************************************************************)
EXTENDS SchedulerQueue, SequenceTheorems, WellFoundedInduction, TLAPS

\* Whatever f32 a caller put in a factor, `norm` brings it into 0.0 ..= 1.0.
LEMMA NormRange ==
    ASSUME NEW v \in Int \cup {NaN}
    PROVE  Norm(v) \in 0 .. One
  BY NaNAssumption DEF Norm, One

\* `score` of any factors and priority is a number within 0 .. MaxScore.
LEMMA ScoreRange ==
    ASSUME NEW factors \in ScoreFactors, NEW priority \in Priority
    PROVE  Score(factors, priority) \in 0 .. MaxScore
  <1> DEFINE n == [f \in FactorName |-> Norm(factors[f])]
  <1>1. \A f \in FactorName : n[f] \in 0 .. 4
    BY NormRange DEF ScoreFactors, One
  <1>2. ~ \E f \in FactorName : n[f] = NaN
    BY <1>1, NaNAssumption
  <1>3. BaseWeight(priority) \in 0 .. 400
    BY DEF BaseWeight, Priority
  <1>4. /\ n["deadline"] \in 0 .. 4 /\ n["importance"] \in 0 .. 4
        /\ n["runtime_fit"] \in 0 .. 4 /\ n["confidence"] \in 0 .. 4
        /\ n["cost_efficiency"] \in 0 .. 4 /\ n["energy"] \in 0 .. 4
    BY <1>1 DEF FactorName
  <1>5. Score(factors, priority)
          = BaseWeight(priority) + 30 * n["deadline"] + 25 * n["importance"]
              + 15 * n["runtime_fit"] + 10 * n["confidence"]
              + 10 * n["cost_efficiency"] + 10 * n["energy"]
    BY <1>2 DEF Score
  <1> QED
    <2>1. PICK b \in 0 .. 400 : b = BaseWeight(priority)
      BY <1>3
    <2>2. PICK f1 \in 0 .. 4, f2 \in 0 .. 4, f3 \in 0 .. 4, f4 \in 0 .. 4, f5 \in 0 .. 4,
               f6 \in 0 .. 4 :
             /\ f1 = n["deadline"] /\ f2 = n["importance"] /\ f3 = n["runtime_fit"]
             /\ f4 = n["confidence"] /\ f5 = n["cost_efficiency"] /\ f6 = n["energy"]
      <3> HIDE DEF n
      <3> QED BY <1>4
    <2>3. Score(factors, priority)
            = b + 30 * f1 + 25 * f2 + 15 * f3 + 10 * f4 + 10 * f5 + 10 * f6
      <3> HIDE DEF n
      <3> QED BY <1>5, <2>1, <2>2
    <2> QED BY <2>3 DEF MaxScore

\* Removing by swap keeps a queue of entries a queue of entries, one shorter,
\* each of whose entries was in the queue before.
LEMMA SwapRemoveType ==
    ASSUME NEW S, NEW queue \in Seq(S), NEW i \in DOMAIN queue
    PROVE  /\ SwapRemove(queue, i) \in Seq(S)
           /\ Len(SwapRemove(queue, i)) = Len(queue) - 1
           /\ \A k \in DOMAIN SwapRemove(queue, i) :
                 \E j \in DOMAIN queue : SwapRemove(queue, i)[k] = queue[j]
  <1>1. Len(queue) \in Nat /\ DOMAIN queue = 1 .. Len(queue) /\ Len(queue) - 1 \in Nat
    OBVIOUS
  <1>2. \A k \in 1 .. (Len(queue) - 1) : k \in DOMAIN queue /\ Len(queue) \in DOMAIN queue
    BY <1>1
  <1>3. DOMAIN SwapRemove(queue, i) = 1 .. (Len(queue) - 1)
    BY DEF SwapRemove
  <1>4. \A k \in 1 .. (Len(queue) - 1) :
           SwapRemove(queue, i)[k] = IF k = i THEN queue[Len(queue)] ELSE queue[k]
    BY DEF SwapRemove
  <1>5. SwapRemove(queue, i) \in [1 .. (Len(queue) - 1) -> S]
    BY <1>1, <1>2 DEF SwapRemove
  <1>6. SwapRemove(queue, i) \in Seq(S) /\ Len(SwapRemove(queue, i)) = Len(queue) - 1
    <2>1. SwapRemove(queue, i) \in Seq(S)
      BY <1>1, <1>5, SeqDef
    <2>2. DOMAIN SwapRemove(queue, i) = 1 .. Len(SwapRemove(queue, i))
          /\ Len(SwapRemove(queue, i)) \in Nat
      BY <2>1
    <2>3. \A a, b \in Nat : 1 .. a = 1 .. b => a = b
      <3> SUFFICES ASSUME NEW a \in Nat, NEW b \in Nat, 1 .. a = 1 .. b PROVE a = b
        OBVIOUS
      <3>1. (a \in 1 .. a <=> a \in 1 .. b) /\ (b \in 1 .. a <=> b \in 1 .. b)
        OBVIOUS
      <3> QED BY <3>1
    <2> QED BY <1>1, <1>3, <2>1, <2>2, <2>3
  <1>7. ASSUME NEW k \in 1 .. (Len(queue) - 1)
        PROVE  \E j \in DOMAIN queue : SwapRemove(queue, i)[k] = queue[j]
    <2>1. CASE k = i
      BY <1>2, <1>4, <2>1
    <2>2. CASE k # i
      BY <1>2, <1>4, <2>2
    <2> QED BY <2>1, <2>2
  <1> QED BY <1>3, <1>6, <1>7

\* Removing entry i by swap leaves exactly the tasks of the other entries, and
\* keeps a queue without repeated tasks free of them.
LEMMA SwapRemoveTasks ==
    ASSUME NEW queue \in Seq(Pending), NEW i \in DOMAIN queue,
           \A j, k \in DOMAIN queue : queue[j].task = queue[k].task => j = k
    PROVE  LET q == SwapRemove(queue, i)
           IN  /\ \A j, k \in DOMAIN q : q[j].task = q[k].task => j = k
               /\ \A k \in DOMAIN q : q[k].task # queue[i].task
               /\ \A j \in DOMAIN queue : j # i => \E k \in DOMAIN q : q[k] = queue[j]
  <1> DEFINE q == SwapRemove(queue, i)
             n == Len(queue)
  <1>1. n \in Nat /\ DOMAIN queue = 1 .. n /\ i \in 1 .. n
    OBVIOUS
  <1>2. DOMAIN q = 1 .. (n - 1)
    BY DEF SwapRemove
  <1>3. \A k \in 1 .. (n - 1) : q[k] = IF k = i THEN queue[n] ELSE queue[k]
    BY DEF SwapRemove
  <1> DEFINE src(k) == IF k = i THEN n ELSE k
  <1>4. \A k \in 1 .. (n - 1) : q[k] = queue[src(k)] /\ src(k) \in 1 .. n /\ src(k) # i
    BY <1>1, <1>3
  <1>5. \A j, k \in 1 .. (n - 1) : src(j) = src(k) => j = k
    BY <1>1
  <1>6. \A j \in 1 .. n : j # i => \E k \in 1 .. (n - 1) : src(k) = j
    <2> SUFFICES ASSUME NEW j \in 1 .. n, j # i
                 PROVE  \E k \in 1 .. (n - 1) : src(k) = j
      OBVIOUS
    <2>1. CASE j = n
      <3>1. i \in 1 .. (n - 1)
        <4> HIDE DEF n
        <4> QED BY <1>1, <2>1
      <3>2. src(i) = j
        BY <2>1
      <3> QED BY <3>1, <3>2
    <2>2. CASE j # n
      <3>1. j \in 1 .. (n - 1)
        <4> HIDE DEF n
        <4> QED BY <1>1, <2>2
      <3>2. src(j) = j
        OBVIOUS
      <3> QED BY <3>1, <3>2
    <2> QED BY <2>1, <2>2
  <1> HIDE DEF q, src, n
  <1>7. \A j, k \in DOMAIN q : q[j].task = q[k].task => j = k
    BY <1>1, <1>2, <1>4, <1>5
  <1>8. \A k \in DOMAIN q : q[k].task # queue[i].task
    BY <1>1, <1>2, <1>4
  <1>9. \A j \in DOMAIN queue : j # i => \E k \in DOMAIN q : q[k] = queue[j]
    BY <1>1, <1>2, <1>4, <1>6
  <1> QED BY <1>7, <1>8, <1>9 DEF q

\* A non-empty set of naturals has a least element.
LEMMA LeastNatural ==
    ASSUME NEW T \in SUBSET Nat, T # {}
    PROVE  \E m \in T : \A x \in T : m <= x
  <1>1. PICK m \in T : \A y \in T : ~ (<<y, m>> \in OpToRel(<, Nat))
    BY NatLessThanWellFounded, WFMin
  <1>2. \A y \in T : ~ (y < m)
    BY <1>1 DEF OpToRel
  <1> QED BY <1>2

\* The scan of `dispatch_next` finds something whenever something is ready.
LEMMA BestExists ==
    ASSUME NEW queue \in Seq(Pending), NEW d, NEW c, NEW now \in Nat,
           ReadyAt(queue, d, c) # {}
    PROVE  BestAt(queue, d, c, now) # {}
  <1> DEFINE R == ReadyAt(queue, d, c)
             E(i) == EffectiveScore(queue[i], now)
             K == MaxScore + AgingRate * now
             T == {K - E(i) : i \in R}
  <1>1. R \subseteq DOMAIN queue /\ DOMAIN queue \subseteq Nat /\ R # {}
    BY DEF ReadyAt
  <1>2. \A i \in R : queue[i] \in Pending
    BY <1>1
  <1>3. \A i \in R : Score(queue[i].factors, queue[i].priority) \in 0 .. MaxScore
    BY <1>2, ScoreRange DEF Pending
  <1>4. \A i \in R : Score(queue[i].factors, queue[i].priority) # NaN
    <2> TAKE i \in R
    <2>1. PICK s \in 0 .. 800 : s = Score(queue[i].factors, queue[i].priority)
      BY <1>3 DEF MaxScore
    <2>2. s # NaN
      BY ONLY s \in 0 .. 800, NaNAssumption
    <2> QED BY ONLY <2>1, <2>2
  <1>5. ASSUME NEW i \in R
        PROVE  E(i) \in Int /\ K - E(i) \in Nat
    <2>1. PICK e \in Nat, s \in 0 .. 800, r \in Nat :
             /\ e = queue[i].enqueued_at
             /\ s = Score(queue[i].factors, queue[i].priority)
             /\ r = AgingRate
      <3>1. queue[i].enqueued_at \in Nat
        BY <1>2 DEF Pending
      <3>2. Score(queue[i].factors, queue[i].priority) \in 0 .. 800
        BY <1>3 DEF MaxScore
      <3>3. AgingRate \in Nat
        BY AgingAssumption
      <3> QED BY ONLY <3>1, <3>2, <3>3
    <2>2. E(i) = s + r * (now - e) /\ K = 800 + r * now
      <3>1. E(i) = s + r * (now - e)
        BY ONLY <2>1 DEF EffectiveScore
      <3>2. MaxScore = 800
        BY ONLY DEF MaxScore
      <3>3. K = 800 + r * now
        BY <2>1, <3>2
      <3> QED BY <3>1, <3>3
    <2>3. PICK x \in Nat, y \in Nat : x = r * now /\ y = r * e
      OBVIOUS
    <2>4. r * (now - e) = x - y
      BY ONLY r \in Nat, now \in Nat, e \in Nat, <2>3
    <2>5. s \in 0 .. 800 /\ x \in Nat /\ y \in Nat
      OBVIOUS
    <2>6. E(i) = s + (x - y) /\ K = 800 + x
      BY <2>2, <2>3, <2>4
    <2> HIDE DEF E, K
    <2> QED BY ONLY <2>5, <2>6
  <1> HIDE DEF E, K
  <1>6. T \in SUBSET Nat /\ T # {}
    BY <1>1, <1>5
  <1>7. PICK m \in T : \A x \in T : m <= x
    BY <1>6, LeastNatural
  <1>8. PICK a \in R : m = K - E(a)
    BY <1>7
  <1>9. \A j \in R : E(j) <= E(a)
    <2> SUFFICES ASSUME NEW j \in R PROVE E(j) <= E(a)
      OBVIOUS
    <2>1. K - E(a) <= K - E(j)
      BY <1>7, <1>8
    <2>2. K \in Int
      BY AgingAssumption DEF K, MaxScore
    <2> QED BY <1>5, <2>1, <2>2
  <1> DEFINE U == {i \in R : E(i) = E(a)}
  <1>10. PICK b \in U : \A x \in U : b <= x
    <2>1. U \in SUBSET Nat /\ U # {}
      BY <1>1, <1>8
    <2> QED BY <2>1, LeastNatural
  <1>11. ASSUME NEW j \in R
         PROVE  E(b) > E(j) \/ (E(b) = E(j) /\ b <= j)
    BY <1>5, <1>9, <1>10, <1>11
  <1>12. b \in BestAt(queue, d, c, now)
    BY <1>4, <1>10, <1>11 DEF BestAt, E
  <1> QED BY <1>12
==============================================================================
