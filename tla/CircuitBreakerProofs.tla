------------------------ MODULE CircuitBreakerProofs ------------------------
(***************************************************************************)
(* Proofs about CircuitBreaker, for every number of executions and manual  *)
(* callers, all thresholds, delays and choices of listeners.               *)
(***************************************************************************)
EXTENDS CircuitBreaker, CircuitBreakerBuilder, FiniteSetTheorems, SequenceTheorems, TLAPS

\* What the stats and the trials of the current state object have to do with its kind.
StateConsistent ==
    /\ state = "closed" => capacity = ClosedCapacity
    /\ state = "halfOpen" => capacity = HalfOpenCapacity
    /\ state # "halfOpen" => trials = {}

IInv == TypeOK /\ StateConsistent /\ ThresholdsActedUpon /\ HalfOpenNeverExhausted

USE ThresholdAssumption, TimedAssumption, DelayAssumption, ActorAssumption

-----------------------------------------------------------------------------
(***************************************************************************)
(* Facts about the stats.                                                  *)
(***************************************************************************)
\* Every recorded result is a success or a failure.
LEMMA CountsAddUp ==
  ASSUME NEW w \in Seq(BOOLEAN)
  PROVE  /\ SuccessCount(w) \in Nat
         /\ FailureCount(w) \in Nat
         /\ Len(w) = SuccessCount(w) + FailureCount(w)
<1> DEFINE n == Len(w)
           A == {i \in 1..n : w[i]}
           B == {i \in 1..n : ~w[i]}
<1>1. n \in Nat
  OBVIOUS
<1>2. SuccessCount(w) = Cardinality(A) /\ FailureCount(w) = Cardinality(B)
  BY DEF SuccessCount, FailureCount
<1>3. A \in SUBSET (1..n) /\ B \in SUBSET (1..n) /\ A \cup B = 1..n /\ A \cap B = {}
  OBVIOUS
<1> HIDE DEF n, A, B
<1>4. IsFiniteSet(1..n) /\ Cardinality(1..n) = n
  BY <1>1, FS_Interval
<1>5. IsFiniteSet(A) /\ IsFiniteSet(B)
  BY <1>3, <1>4, FS_Subset
<1>6. Cardinality(A) \in Nat /\ Cardinality(B) \in Nat
  BY <1>5, FS_CardinalityType
<1>7. Cardinality(A \cup B) = Cardinality(A) + Cardinality(B) - Cardinality(A \cap B)
  BY <1>5, FS_Union
<1>8. Cardinality(A \cap B) = 0
  BY <1>3, FS_EmptySet
<1>9. n = Cardinality(A) + Cardinality(B)
  <2>1. Cardinality(A \cup B) = n
    BY <1>3, <1>4
  <2> QED  BY <1>1, <1>6, <1>7, <1>8, <2>1
<1> QED  BY <1>2, <1>6, <1>9 DEF n

\* A new stats object has reached no threshold.
LEMMA EmptyUndecided ==
  /\ ~ClosedFailuresExceeded(<<>>)
  /\ ~SuccessesExceeded(<<>>)
  /\ ~FailuresExceeded(<<>>)
<1>1. SuccessCount(<<>>) = 0 /\ FailureCount(<<>>) = 0
  <2>1. {i \in 1..Len(<<>>) : <<>>[i]} = {} /\ {i \in 1..Len(<<>>) : ~<<>>[i]} = {}
    BY Len(<<>>) = 0
  <2> QED  BY <2>1, FS_EmptySet DEF SuccessCount, FailureCount
<1>2. SuccessRate(<<>>) = 0 /\ FailureRate(<<>>) = 0
  BY DEF SuccessRate, FailureRate, Rate
<1> QED  BY <1>1, <1>2 DEF ClosedFailuresExceeded, SuccessesExceeded, FailuresExceeded, SuccessRateExceeded

\* The half-open state always counts, and its bitset holds at least one result.
LEMMA CapacitiesPositive == ClosedCapacity \in Nat /\ HalfOpenCapacity \in Nat \ {0}
BY DEF ClosedCapacity, HalfOpenCapacity, ExecutionsRequired

\* Rounding to hundredths loses nothing of the two shares together.
LEMMA RatesAddUp ==
  ASSUME NEW w \in Seq(BOOLEAN), w # <<>>
  PROVE  /\ SuccessRate(w) \in Int /\ FailureRate(w) \in Int
         /\ SuccessRate(w) + FailureRate(w) >= 100
<1> DEFINE n == Len(w)
           s == SuccessCount(w)
           f == FailureCount(w)
           a == (200 * s + n) \div (2 * n)
           b == (200 * f + n) \div (2 * n)
<1>1. s \in Nat /\ f \in Nat /\ n \in Nat /\ n = s + f /\ n > 0
  BY CountsAddUp, EmptySeq
<1>2. SuccessRate(w) = a /\ FailureRate(w) = b
  BY DEF SuccessRate, FailureRate, Rate
<1> HIDE DEF n, s, f
<1>3. a \in Int /\ 200 * s + n < 2 * n * (a + 1)
  BY <1>1
<1>4. b \in Int /\ 200 * f + n < 2 * n * (b + 1)
  BY <1>1
<1> HIDE DEF a, b
<1>5. 198 * n < 2 * n * (a + b)
  BY <1>1, <1>3, <1>4
<1>6. a + b > 99
  BY <1>1, <1>3, <1>4, <1>5
<1> QED  BY <1>2, <1>3, <1>4, <1>6

\* The thresholds leave no gap: stats that are full have reached one of them.
LEMMA UndecidedIsNotFull ==
  ASSUME NEW w \in Seq(BOOLEAN), ~SuccessesExceeded(w), ~FailuresExceeded(w)
  PROVE  Len(w) < HalfOpenCapacity
<1>1. CASE successThreshold # 0 \/ failureRateThreshold = 0
  BY <1>1, CountsAddUp DEF SuccessesExceeded, FailuresExceeded, HalfOpenCapacity, ExecutionsRequired
<1>2. CASE successThreshold = 0 /\ failureRateThreshold # 0
  <2>1. CASE Len(w) < failureExecutionThreshold
    BY <1>2, <2>1 DEF HalfOpenCapacity, ExecutionsRequired
  <2>2. CASE ~(Len(w) < failureExecutionThreshold)
    <3>1. ~SuccessRateExceeded(w) /\ ~(FailureRate(w) >= failureRateThreshold)
      BY <1>2, <2>2 DEF SuccessesExceeded, FailuresExceeded, ExecutionThresholdExceeded
    <3>2. w = <<>>
      BY <3>1, RatesAddUp DEF SuccessRateExceeded
    <3> QED  BY <3>2, CapacitiesPositive
  <2> QED  BY <2>1, <2>2
<1> QED  BY <1>1, <1>2

\* Recording adds one result and drops the oldest one when the bitset is full, or those that expired.
LEMMA RecordedType ==
  ASSUME TypeOK, NEW result \in BOOLEAN, NEW w \in Recorded(result)
  PROVE  w \in Seq(BOOLEAN) /\ (capacity # 0 => Len(w) <= capacity)
<1>1. CASE capacity = 0
  <2>1. PICK k \in Unexpired : w = Append(SubSeq(window, k, Len(window)), result)
    BY <1>1 DEF Recorded
  <2>2. SubSeq(window, k, Len(window)) \in Seq(BOOLEAN)
    BY <2>1, SubSeqProperties DEF TypeOK, Unexpired
  <2> QED  BY <1>1, <2>1, <2>2, AppendProperties
<1>2. CASE capacity # 0 /\ Len(window) < capacity
  BY <1>2, AppendProperties DEF TypeOK, Recorded
<1>3. CASE capacity # 0 /\ ~(Len(window) < capacity)
  <2>1. window # <<>> /\ Len(window) = capacity
    BY <1>3 DEF TypeOK
  <2>2. Tail(window) \in Seq(BOOLEAN) /\ Len(Tail(window)) = Len(window) - 1
    BY <2>1, HeadTailProperties DEF TypeOK
  <2>3. /\ Append(Tail(window), result) \in Seq(BOOLEAN)
        /\ Len(Append(Tail(window), result)) = Len(Tail(window)) + 1
    BY <2>2, AppendProperties
  <2>4. w = Append(Tail(window), result)
    BY <1>3 DEF Recorded
  <2> QED  BY <2>1, <2>2, <2>3, <2>4 DEF TypeOK
<1> QED  BY <1>1, <1>2, <1>3

-----------------------------------------------------------------------------
\* What the invariant says of each kind of state object.
ClosedInv ==
    /\ capacity = ClosedCapacity
    /\ ~ClosedFailuresExceeded(window)
    /\ trials = {}

HalfOpenInv ==
    /\ capacity = HalfOpenCapacity
    /\ ~SuccessesExceeded(window)
    /\ ~FailuresExceeded(window)
    /\ Len(window) < HalfOpenCapacity
    /\ permitted + Cardinality(trials) >= HalfOpenCapacity

\* The invariant, split by the state of the breaker.
LEMMA IInvByState ==
  IInv <=> /\ TypeOK
           /\ state = "closed" => ClosedInv
           /\ state = "open" => trials = {}
           /\ state = "halfOpen" => HalfOpenInv
BY DEF IInv, TypeOK, States, StateConsistent, ThresholdsActedUpon, HalfOpenNeverExhausted,
       ClosedInv, HalfOpenInv

\* The same split of the invariant after a step.
LEMMA IInvByStatePrime ==
  IInv' <=> /\ TypeOK'
            /\ state' = "closed" => ClosedInv'
            /\ state' = "open" => trials' = {}
            /\ state' = "halfOpen" => HalfOpenInv'
BY DEF IInv, TypeOK, States, StateConsistent, ThresholdsActedUpon, HalfOpenNeverExhausted,
       ClosedInv, HalfOpenInv

\* The parts of TypeOK that a step of the executions or of the manual callers takes along.
ActorsOK ==
    /\ pc \in [Executions -> PCs]
    /\ opPc \in [Operators -> {"idle", "resetListener"}]
    /\ healthy \in BOOLEAN

\* A transition to closed.
LEMMA ToClosedStep ==
  ASSUME IInv, ToClosed, ActorsOK'
  PROVE  IInv'
<1>1. TypeOK'
  BY CapacitiesPositive DEF IInv, TypeOK, ToClosed, ActorsOK, States
<1>2. ClosedInv'
  BY EmptyUndecided DEF ToClosed, ClosedInv
<1> QED  BY <1>1, <1>2, IInvByStatePrime DEF ToClosed

\* A transition to open.
LEMMA ToOpenStep ==
  ASSUME IInv, NEW w \in Seq(BOOLEAN), capacity # 0 => Len(w) <= capacity, NEW delay \in Nat,
         ToOpen(w, delay), ActorsOK'
  PROVE  IInv'
<1>1. TypeOK'
  BY DEF IInv, TypeOK, ToOpen, ActorsOK, States
<1> QED  BY <1>1, IInvByStatePrime DEF ToOpen

\* A transition to half-open, with or without an execution admitted along with it.
LEMMA ToHalfOpenStep ==
  ASSUME IInv, NEW H \in SUBSET Executions, H = {} \/ \E e \in Executions : H = {e},
         ToHalfOpen(H), ActorsOK', \A e \in H : pc'[e] = "running"
  PROVE  IInv'
<1>1. Cardinality(H) \in {0, 1}
  BY FS_EmptySet, FS_Singleton
<1>2. TypeOK'
  BY <1>1, CapacitiesPositive DEF IInv, TypeOK, ToHalfOpen, ActorsOK, States
<1>3. HalfOpenInv'
  <2>1. permitted' + Cardinality(trials') = HalfOpenCapacity
    BY <1>1, CapacitiesPositive DEF ToHalfOpen
  <2>2. Len(window') = 0
    BY DEF ToHalfOpen
  <2> QED  BY <2>1, <2>2, EmptyUndecided, CapacitiesPositive DEF ToHalfOpen, HalfOpenInv
<1> QED  BY <1>2, <1>3, IInvByStatePrime DEF ToHalfOpen

\* A result that is recorded without a transition.
LEMMA RecordOnlyStep ==
  ASSUME IInv, NEW e \in Executions, NEW result \in BOOLEAN, NEW w \in Recorded(result),
         pc[e] = "running", RecordOnly(e, w), UNCHANGED <<opPc, healthy>>,
         \/ /\ state = "closed"
            /\ ~ClosedFailuresExceeded(w)
            /\ UNCHANGED permitted
         \/ state = "open" /\ UNCHANGED permitted
         \/ /\ state = "halfOpen"
            /\ ~SuccessesExceeded(w)
            /\ ~FailuresExceeded(w)
            /\ ReleasePermit
  PROVE  IInv'
<1>1. w \in Seq(BOOLEAN) /\ (capacity # 0 => Len(w) <= capacity)
  BY RecordedType DEF IInv
<1>2. trials' \subseteq {d \in Executions : pc'[d] = "running"}
  BY DEF IInv, TypeOK, RecordOnly
<1>3. pc' \in [Executions -> PCs]
  BY DEF IInv, TypeOK, RecordOnly, PCs
<1>4. TypeOK'
  BY <1>1, <1>2, <1>3 DEF IInv, TypeOK, RecordOnly, ReleasePermit
<1>5. state' = "closed" => ClosedInv'
  BY IInvByState DEF IInv, RecordOnly, ClosedInv
<1>6. state' = "open" => trials' = {}
  BY IInvByState DEF IInv, RecordOnly
<1>7. ASSUME state' = "halfOpen" PROVE HalfOpenInv'
  <2>1. /\ state = "halfOpen"
        /\ ~SuccessesExceeded(w)
        /\ ~FailuresExceeded(w)
        /\ permitted' = permitted + 1
    BY <1>7 DEF RecordOnly, ReleasePermit
  <2>2. Len(w) < HalfOpenCapacity
    BY <1>1, <2>1, UndecidedIsNotFull
  <2>3. IsFiniteSet(trials)
    BY FS_Subset DEF IInv, TypeOK
  <2>4. /\ Cardinality(trials) \in Nat
        /\ Cardinality(trials \ {e}) \in Nat
        /\ Cardinality(trials \ {e}) >= Cardinality(trials) - 1
    <3>1. /\ IsFiniteSet(trials \ {e})
          /\ Cardinality(trials \ {e}) =
                IF e \in trials THEN Cardinality(trials) - 1 ELSE Cardinality(trials)
      BY <2>3, FS_RemoveElement
    <3>2. Cardinality(trials) \in Nat /\ Cardinality(trials \ {e}) \in Nat
      BY <2>3, <3>1, FS_CardinalityType
    <3> QED  BY <3>1, <3>2
  <2>5. permitted' + Cardinality(trials') >= HalfOpenCapacity
    BY <2>1, <2>4, IInvByState, CapacitiesPositive DEF IInv, TypeOK, HalfOpenInv, RecordOnly
  <2> QED  BY <2>1, <2>2, <2>5, IInvByState DEF HalfOpenInv, RecordOnly
<1> QED  BY <1>4, <1>5, <1>6, <1>7, IInvByStatePrime

\* Recording a result.
LEMMA RecordStep ==
  ASSUME IInv, NEW e \in Executions, NEW result \in BOOLEAN, Record(e, result)
  PROVE  IInv'
<1>1. pc[e] = "running" /\ UNCHANGED <<opPc, healthy>>
  BY DEF Record, RecordWhenClosed, RecordWhenOpen, RecordWhenHalfOpen, Outcome
<1>2. ASSUME NEW w \in Recorded(result), RecordAndOpen(e, result, w) PROVE IInv'
  <2>1. w \in Seq(BOOLEAN) /\ (capacity # 0 => Len(w) <= capacity)
    BY RecordedType DEF IInv
  <2>2. PICK delay \in (IF result THEN {Delay} ELSE DelaysAfterFailure) : ToOpen(w, delay)
    BY <1>2 DEF RecordAndOpen
  <2>3. delay \in Nat
    BY <2>2 DEF DelaysAfterFailure
  <2>4. ActorsOK'
    BY <1>1, <1>2 DEF RecordAndOpen, AfterTransition, ActorsOK, IInv, TypeOK, PCs
  <2> QED  BY <2>1, <2>2, <2>3, <2>4, ToOpenStep
<1>3. ASSUME RecordAndClose(e) PROVE IInv'
  <2>1. ActorsOK'
    BY <1>1, <1>3 DEF RecordAndClose, AfterTransition, ActorsOK, IInv, TypeOK, PCs
  <2> QED  BY <1>3, <2>1, ToClosedStep DEF RecordAndClose
<1>4. CASE RecordWhenClosed(e, result)
  <2>1. PICK w \in Recorded(result) :
               IF ClosedFailuresExceeded(w) THEN RecordAndOpen(e, result, w)
               ELSE RecordOnly(e, w) /\ UNCHANGED permitted
    BY <1>4 DEF RecordWhenClosed
  <2>2. CASE ClosedFailuresExceeded(w)
    BY <1>2, <2>1, <2>2
  <2>3. CASE ~ClosedFailuresExceeded(w)
    BY <1>1, <1>4, <2>1, <2>3, RecordOnlyStep DEF RecordWhenClosed
  <2> QED  BY <2>2, <2>3
<1>5. CASE RecordWhenOpen(e, result)
  BY <1>1, <1>5, RecordOnlyStep DEF RecordWhenOpen
<1>6. CASE RecordWhenHalfOpen(e, result)
  <2>1. PICK w \in Recorded(result) :
               IF SuccessesExceeded(w) THEN RecordAndClose(e)
               ELSE IF FailuresExceeded(w) THEN RecordAndOpen(e, result, w)
               ELSE RecordOnly(e, w) /\ ReleasePermit
    BY <1>6 DEF RecordWhenHalfOpen
  <2>2. CASE SuccessesExceeded(w)
    BY <1>3, <2>1, <2>2
  <2>3. CASE ~SuccessesExceeded(w) /\ FailuresExceeded(w)
    BY <1>2, <2>1, <2>3
  <2>4. CASE ~SuccessesExceeded(w) /\ ~FailuresExceeded(w)
    BY <1>1, <1>6, <2>1, <2>4, RecordOnlyStep DEF RecordWhenHalfOpen
  <2> QED  BY <2>2, <2>3, <2>4
<1> QED  BY <1>4, <1>5, <1>6 DEF Record

\* A step that leaves the breaker and its trials alone, and lets no running execution go.
LEMMA BreakerUnchangedStep ==
  ASSUME IInv, UNCHANGED <<breaker, trials>>, ActorsOK',
         \A e \in Executions : pc[e] = "running" => pc'[e] = "running"
  PROVE  IInv'
<1>1. UNCHANGED <<state, window, capacity, permitted, remaining>>
  BY DEF breaker
<1>2. TypeOK'
  BY <1>1 DEF IInv, TypeOK, ActorsOK
<1> QED  BY <1>1, <1>2, IInvByState, IInvByStatePrime DEF ClosedInv, HalfOpenInv

\* Acquiring a permit.
LEMMA AcquireStep ==
  ASSUME IInv, NEW e \in Executions, TryAcquirePermit(e)
  PROVE  IInv'
<1>1. CASE AcquireWhenClosed(e) \/ Reject(e)
  <2>1. ActorsOK' /\ \A d \in Executions : pc[d] = "running" => pc'[d] = "running"
    BY <1>1 DEF AcquireWhenClosed, Reject, Acquiring, Admit, ActorsOK, IInv, TypeOK, PCs
  <2> QED  BY <1>1, <2>1, BreakerUnchangedStep DEF AcquireWhenClosed, Reject
<1>2. CASE AcquireAfterDelay(e)
  <2>1. ActorsOK'
    BY <1>2 DEF AcquireAfterDelay, Admit, ActorsOK, IInv, TypeOK, PCs
  <2>2. CASE "halfOpen" \in Listened
    BY <1>2, <2>1, <2>2, ToHalfOpenStep DEF AcquireAfterDelay
  <2>3. CASE "halfOpen" \notin Listened
    <3>1. ToHalfOpen({e}) /\ pc'[e] = "running"
      BY <1>2, <2>3 DEF AcquireAfterDelay, Admit, IInv, TypeOK
    <3> QED  BY <2>1, <3>1, ToHalfOpenStep
  <2> QED  BY <2>2, <2>3
<1>3. CASE AcquireWhenHalfOpen(e)
  <2>1. e \notin trials
    BY <1>3 DEF AcquireWhenHalfOpen, Acquiring, IInv, TypeOK
  <2>2. /\ pc' = [pc EXCEPT ![e] = "running"]
        /\ permitted' = permitted - 1 /\ permitted > 0
        /\ trials' = trials \cup {e}
        /\ state = "halfOpen"
        /\ UNCHANGED <<state, window, capacity, remaining, opPc, healthy>>
    BY <1>3 DEF AcquireWhenHalfOpen, Admit, TakePermit
  <2>3. TypeOK'
    BY <2>2 DEF IInv, TypeOK, PCs
  <2>4. IsFiniteSet(trials)
    BY FS_Subset DEF IInv, TypeOK
  <2>5. Cardinality(trials') = Cardinality(trials) + 1 /\ Cardinality(trials) \in Nat
    BY <2>1, <2>2, <2>4, FS_AddElement, FS_CardinalityType
  <2>6. HalfOpenInv'
    BY <2>2, <2>5, IInvByState, CapacitiesPositive DEF HalfOpenInv, IInv, TypeOK
  <2> QED  BY <2>2, <2>3, <2>6, IInvByStatePrime
<1> QED  BY <1>1, <1>2, <1>3 DEF TryAcquirePermit

\* The manual operations.
LEMMA OperatorInv ==
  ASSUME IInv, NEW o \in Operators, OperatorStep(o)
  PROVE  IInv'
<1>1. ActorsOK' /\ pc' = pc
  BY DEF OperatorStep, Open, HalfOpen, Close, Reset, ResetListenerReturns, ActorsOK, IInv, TypeOK
<1>2. ASSUME ResetStats PROVE IInv'
  <2>1. TypeOK'
    BY <1>1, <1>2 DEF ResetStats, IInv, TypeOK, ActorsOK
  <2>2. Len(<<>>) = 0
    OBVIOUS
  <2> QED  BY <1>2, <2>1, <2>2, EmptyUndecided, CapacitiesPositive, IInvByState, IInvByStatePrime
           DEF ResetStats, ClosedInv, HalfOpenInv
<1>3. CASE Open(o)
  BY <1>1, <1>3, ToOpenStep DEF Open, IInv, TypeOK
<1>4. CASE HalfOpen(o)
  BY <1>1, <1>4, ToHalfOpenStep DEF HalfOpen
<1>5. CASE Close(o)
  BY <1>1, <1>5, ToClosedStep DEF Close
<1>6. CASE Reset(o)
  BY <1>1, <1>2, <1>6, ToClosedStep DEF Reset
<1>7. CASE ResetListenerReturns(o)
  BY <1>2, <1>7 DEF ResetListenerReturns
<1> QED  BY <1>3, <1>4, <1>5, <1>6, <1>7 DEF OperatorStep

\* A new breaker is closed, without results and without trial executions.
LEMMA InitIInv == Init => IInv
<1> SUFFICES ASSUME Init PROVE IInv
  OBVIOUS
<1>1. TypeOK
  <2>1. <<>> \in Seq(BOOLEAN) /\ Len(<<>>) = 0
    BY EmptySeq
  <2>2. pc \in [Executions -> PCs] /\ opPc \in [Operators -> {"idle", "resetListener"}]
    BY DEF Init, PCs
  <2>3. healthy \in BOOLEAN
    BY DEF Init
  <2> QED  BY <2>1, <2>2, <2>3, CapacitiesPositive DEF Init, TypeOK, States
<1>2. ClosedInv
  BY EmptyUndecided DEF Init, ClosedInv
<1> QED  BY <1>1, <1>2, IInvByState DEF Init

\* Every step keeps the invariant.
LEMMA NextIInv == IInv /\ [Next]_vars => IInv'
<1> SUFFICES ASSUME IInv, [Next]_vars PROVE IInv'
  OBVIOUS
<1>1. ASSUME NEW e \in Executions, ExecutionStep(e) PROVE IInv'
  <2>1. CASE TryAcquirePermit(e)
    BY <2>1, AcquireStep
  <2>2. CASE \E result \in BOOLEAN : Record(e, result)
    BY <2>2, RecordStep
  <2>3. CASE RecordListenerReturns(e)
    <3>1. ActorsOK' /\ \A d \in Executions : pc[d] = "running" => pc'[d] = "running"
      BY <2>3 DEF RecordListenerReturns, ActorsOK, IInv, TypeOK, PCs
    <3> QED  BY <2>3, <3>1, BreakerUnchangedStep DEF RecordListenerReturns
  <2> QED  BY <1>1, <2>1, <2>2, <2>3 DEF ExecutionStep
<1>2. ASSUME NEW o \in Operators, OperatorStep(o) PROVE IInv'
  BY <1>2, OperatorInv
<1>3. CASE Tick
  <2>1. TypeOK'
    BY <1>3 DEF Tick, IInv, TypeOK
  <2> QED  BY <1>3, <2>1, IInvByState, IInvByStatePrime DEF Tick, ClosedInv, HalfOpenInv
<1>4. CASE Heal
  <2>1. ActorsOK' /\ \A d \in Executions : pc[d] = "running" => pc'[d] = "running"
    BY <1>4 DEF Heal, ActorsOK, IInv, TypeOK
  <2> QED  BY <1>4, <2>1, BreakerUnchangedStep DEF Heal
<1>5. CASE UNCHANGED vars
  <2>1. ActorsOK' /\ \A d \in Executions : pc[d] = "running" => pc'[d] = "running"
    BY <1>5 DEF vars, ActorsOK, IInv, TypeOK
  <2> QED  BY <1>5, <2>1, BreakerUnchangedStep DEF vars, breaker
<1> QED  BY <1>1, <1>2, <1>3, <1>4, <1>5 DEF Next

-----------------------------------------------------------------------------
\* The inductive invariant holds in every reachable state of the breaker.
THEOREM Invariance == Spec => []IInv
<1>1. Init => IInv
  BY InitIInv
<1>2. IInv /\ [Next]_vars => IInv'
  BY NextIInv
<1> QED  BY <1>1, <1>2, PTL DEF Spec

\* Type correctness; the stats never hold more results than their capacity.
THEOREM TypeCorrect == Spec => []TypeOK
<1>1. IInv => TypeOK
  BY DEF IInv
<1> QED  BY <1>1, Invariance, PTL

\* Whatever the thresholds, and whatever runs while listeners are called, the breaker never rests
\* in a state that its own results have already decided.
THEOREM DecisionsAreTaken == Spec => []ThresholdsActedUpon
<1>1. IInv => ThresholdsActedUpon
  BY DEF IInv
<1> QED  BY <1>1, Invariance, PTL

\* A half-open breaker never runs out of permits for good.
THEOREM HalfOpenPermitsKept == Spec => []HalfOpenNeverExhausted
<1>1. IInv => HalfOpenNeverExhausted
  BY DEF IInv
<1> QED  BY <1>1, Invariance, PTL

\* An open breaker holds for its delay, for all configurations: late results of executions that were
\* admitted before, and listeners that return, leave it open, and an execution makes it half-open
\* only once the delay has elapsed.  Only the manual operations end it early.
THEOREM OpenBreakerHolds == Spec => OpenHoldsForDelay
<1> DEFINE A == state = "open" /\ state' # "open" =>
                    \/ remaining = 0 /\ state' = "halfOpen"
                    \/ \E o \in Operators : OperatorStep(o)
<1>1. [Next]_vars => [A]_vars
  <2> SUFFICES ASSUME Next, state = "open", state' # "open"
               PROVE  \/ remaining = 0 /\ state' = "halfOpen"
                      \/ \E o \in Operators : OperatorStep(o)
    BY DEF vars
  <2>1. CASE \E e \in Executions : ExecutionStep(e)
    <3>1. PICK e \in Executions : ExecutionStep(e)
      BY <2>1
    <3>2. CASE TryAcquirePermit(e)
      <4>1. AcquireAfterDelay(e)
        BY <3>2 DEF TryAcquirePermit, AcquireWhenClosed, AcquireWhenHalfOpen, Reject, breaker
      <4> QED  BY <4>1 DEF AcquireAfterDelay, DelayElapsed, ToHalfOpen
    <3>3. CASE \E result \in BOOLEAN : Record(e, result)
      BY <3>3 DEF Record, RecordWhenClosed, RecordWhenOpen, RecordWhenHalfOpen, RecordOnly
    <3>4. CASE RecordListenerReturns(e)
      BY <3>4 DEF RecordListenerReturns, breaker
    <3> QED  BY <3>1, <3>2, <3>3, <3>4 DEF ExecutionStep
  <2>2. CASE Tick \/ Heal
    BY <2>2 DEF Tick, Heal, breaker
  <2> QED  BY <2>1, <2>2 DEF Next
<1> QED  BY <1>1, PTL DEF Spec, OpenHoldsForDelay

-----------------------------------------------------------------------------
(***************************************************************************)
(* The builder gives the thresholds that all of the above assumes.  The    *)
(* two halves of Decidable are set by calls that leave the other alone.    *)
(***************************************************************************)
FailureDecidable(c) ==
    /\ 0 < c.failureThreshold /\ c.failureThreshold <= c.failureThresholdingCapacity
    /\ c.failureExecutionThreshold # 0 /\ c.failureRateThreshold = 0 =>
          c.failureThresholdingCapacity <= c.failureExecutionThreshold

SuccessDecidable(c) ==
    /\ c.successThreshold <= c.successThresholdingCapacity
    /\ c.successThreshold = 0 => c.successThresholdingCapacity = 0

SameFailureFields(c, d) ==
    /\ d.failureThreshold = c.failureThreshold
    /\ d.failureThresholdingCapacity = c.failureThresholdingCapacity
    /\ d.failureExecutionThreshold = c.failureExecutionThreshold
    /\ d.failureRateThreshold = c.failureRateThreshold

SameSuccessFields(c, d) ==
    /\ d.successThreshold = c.successThreshold
    /\ d.successThresholdingCapacity = c.successThresholdingCapacity

\* The two halves are all of it.
LEMMA HalvesDecide ==
  ASSUME NEW c, FailureDecidable(c), SuccessDecidable(c) PROVE Decidable(c)
BY DEF FailureDecidable, SuccessDecidable, Decidable

\* A call that sets the failure threshold of a builder that has the default one.
LEMMA FailureCallDecides ==
  ASSUME NEW c, DOMAIN c = DOMAIN NewBuilder, SameFailureFields(NewBuilder, c),
         NEW d \in FailureCalls(c, Nat)
  PROVE  FailureDecidable(d) /\ SameSuccessFields(c, d) /\ DOMAIN d = DOMAIN NewBuilder
<1>1. DOMAIN c = {"failureThreshold", "failureThresholdingCapacity", "failureExecutionThreshold",
                  "failureRateThreshold", "timed", "successThreshold",
                  "successThresholdingCapacity", "delay", "funcDelays", "listened"}
  BY DEF NewBuilder
<1>2. /\ c.failureThreshold = 1 /\ c.failureThresholdingCapacity = 1
      /\ c.failureExecutionThreshold = 0 /\ c.failureRateThreshold = 0
  BY DEF SameFailureFields, NewBuilder
<1>3. ASSUME NEW t \in Nat \ {0}, NEW n \in Nat, t <= n, d = WithFailureThresholdRatio(c, t, n)
      PROVE  FailureDecidable(d) /\ SameSuccessFields(c, d) /\ DOMAIN d = DOMAIN c
  BY <1>1, <1>2, <1>3 DEF WithFailureThresholdRatio, FailureDecidable, SameSuccessFields
<1>4. ASSUME NEW t \in Nat \ {0}, d = WithFailureThresholdPeriod(c, t)
      PROVE  FailureDecidable(d) /\ SameSuccessFields(c, d) /\ DOMAIN d = DOMAIN c
  BY <1>1, <1>2, <1>4 DEF WithFailureThresholdPeriod, FailureDecidable, SameSuccessFields
<1>5. ASSUME NEW rate \in 1..100, NEW n \in Nat, d = WithFailureRateThreshold(c, rate, n)
      PROVE  FailureDecidable(d) /\ SameSuccessFields(c, d) /\ DOMAIN d = DOMAIN c
  BY <1>1, <1>2, <1>5 DEF WithFailureRateThreshold, FailureDecidable, SameSuccessFields
<1>6. CASE \E t \in Nat \ {0} : d = WithFailureThreshold(c, t)
  BY <1>3, <1>6 DEF WithFailureThreshold
<1>7. CASE \E t \in Ratios(Nat) : d = WithFailureThresholdRatio(c, t[1], t[2])
  BY <1>3, <1>7 DEF Ratios
<1> QED  BY <1>4, <1>5, <1>6, <1>7 DEF FailureCalls

\* A call that sets the success threshold.
LEMMA SuccessCallDecides ==
  ASSUME NEW c, DOMAIN c = DOMAIN NewBuilder, NEW d \in SuccessCalls(c, Nat)
  PROVE  SuccessDecidable(d) /\ SameFailureFields(c, d) /\ DOMAIN d = DOMAIN NewBuilder
<1>1. DOMAIN c = {"failureThreshold", "failureThresholdingCapacity", "failureExecutionThreshold",
                  "failureRateThreshold", "timed", "successThreshold",
                  "successThresholdingCapacity", "delay", "funcDelays", "listened"}
  BY DEF NewBuilder
<1>2. ASSUME NEW t \in Nat \ {0}, NEW n \in Nat, t <= n, d = WithSuccessThresholdRatio(c, t, n)
      PROVE  SuccessDecidable(d) /\ SameFailureFields(c, d) /\ DOMAIN d = DOMAIN c
  BY <1>1, <1>2 DEF WithSuccessThresholdRatio, SuccessDecidable, SameFailureFields
<1>3. CASE \E t \in Nat \ {0} : d = WithSuccessThreshold(c, t)
  BY <1>2, <1>3 DEF WithSuccessThreshold
<1>4. CASE \E t \in Ratios(Nat) : d = WithSuccessThresholdRatio(c, t[1], t[2])
  BY <1>2, <1>4 DEF Ratios
<1> QED  BY <1>3, <1>4 DEF SuccessCalls

\* Any one way of setting the failure threshold, with or without a success threshold and in either
\* order, gives a breaker whose thresholds can be reached, for all numbers whose threshold does not
\* exceed its capacity.
THEOREM BuilderDecides == OneFailureCallDecides(Nat)
<1>1. /\ DOMAIN NewBuilder = DOMAIN NewBuilder /\ SameFailureFields(NewBuilder, NewBuilder)
      /\ FailureDecidable(NewBuilder) /\ SuccessDecidable(NewBuilder)
  BY DEF SameFailureFields, FailureDecidable, SuccessDecidable, NewBuilder
<1>2. ASSUME NEW c \in FailureCalls(NewBuilder, Nat)
      PROVE  Decidable(c) /\ \A d \in SuccessCalls(c, Nat) : Decidable(d)
  <2>1. FailureDecidable(c) /\ SameSuccessFields(NewBuilder, c) /\ DOMAIN c = DOMAIN NewBuilder
    BY <1>1, <1>2, FailureCallDecides
  <2>2. SuccessDecidable(c)
    BY <1>1, <2>1 DEF SuccessDecidable, SameSuccessFields
  <2>3. ASSUME NEW d \in SuccessCalls(c, Nat) PROVE Decidable(d)
    <3>1. SuccessDecidable(d) /\ SameFailureFields(c, d)
      BY <2>1, <2>3, SuccessCallDecides
    <3>2. FailureDecidable(d)
      BY <2>1, <3>1 DEF FailureDecidable, SameFailureFields
    <3> QED  BY <3>1, <3>2, HalvesDecide
  <2> QED  BY <2>1, <2>2, <2>3, HalvesDecide
<1>3. ASSUME NEW c \in SuccessCalls(NewBuilder, Nat)
      PROVE  Decidable(c) /\ \A d \in FailureCalls(c, Nat) : Decidable(d)
  <2>1. SuccessDecidable(c) /\ SameFailureFields(NewBuilder, c) /\ DOMAIN c = DOMAIN NewBuilder
    BY <1>1, <1>3, SuccessCallDecides
  <2>2. FailureDecidable(c)
    BY <1>1, <2>1 DEF FailureDecidable, SameFailureFields
  <2>3. ASSUME NEW d \in FailureCalls(c, Nat) PROVE Decidable(d)
    <3>1. FailureDecidable(d) /\ SameSuccessFields(c, d)
      BY <2>1, <2>3, FailureCallDecides
    <3>2. SuccessDecidable(d)
      BY <2>1, <3>1 DEF SuccessDecidable, SameSuccessFields
    <3> QED  BY <3>1, <3>2, HalvesDecide
  <2> QED  BY <2>1, <2>2, <2>3, HalvesDecide
<1> QED  BY <1>2, <1>3 DEF OneFailureCallDecides
=============================================================================
