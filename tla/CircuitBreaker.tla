--------------------------- MODULE CircuitBreaker ---------------------------
(***************************************************************************)
(* A circuit breaker with count or time based thresholds                   *)
(* (circuitbreaker/circuitbreaker.go and circuitstates.go), shared by      *)
(* concurrent executions and by callers of its manual Open, HalfOpen,      *)
(* Close and Reset operations.                                             *)
(*                                                                         *)
(* Every step is one critical section of cb.mu.  transitionTo gives the    *)
(* mutex up while it calls the state change listeners, in the middle of    *)
(* the operation that caused the transition, so such an operation takes    *)
(* two steps and others may run in between.                                *)
(***************************************************************************)
EXTENDS Integers, Sequences, FiniteSets

CONSTANTS
    Executions,                   \* executions that run through the breaker
    Operators,                    \* callers of the manual operations
    failureThreshold,
    failureThresholdingCapacity,
    failureExecutionThreshold,    \* 0: not configured
    failureRateThreshold,         \* in hundredths; 0: not configured
    ComplementBelow,              \* whether 1 - failureRateThreshold, in floating point, is below the
                                  \* hundredth that it stands for, as for 0.33 and 0.9
    Timed,                        \* whether there is a failureThresholdingPeriod
    MaxResults,                   \* bound: results in time based stats
    successThreshold,             \* 0: not configured
    successThresholdingCapacity,  \* 0: not configured
    Delay,                        \* the configured delay, in ticks of the clock
    FuncDelays,                   \* what a DelayFunc may return; {} without a DelayFunc
    Listened                      \* target states with a listener; all with OnStateChanged

States == {"closed", "open", "halfOpen"}

(***************************************************************************)
(* WithFailureThresholdRatio and WithSuccessThresholdRatio take a number   *)
(* of results out of the last so many; the builder does not check that the *)
(* first is at most the second.  WithFailureThresholdPeriod and            *)
(* WithFailureRateThreshold set an execution threshold; mixing the former  *)
(* with a ratio of more executions would leave a half-open state that      *)
(* cannot reach the ratio.                                                 *)
(***************************************************************************)
ASSUME ThresholdAssumption ==
    /\ failureThreshold \in Nat \ {0}
    /\ failureThresholdingCapacity \in Nat
    /\ failureThreshold <= failureThresholdingCapacity
    /\ successThreshold \in Nat
    /\ successThresholdingCapacity \in Nat
    /\ successThreshold <= successThresholdingCapacity
    /\ successThreshold = 0 => successThresholdingCapacity = 0

ASSUME TimedAssumption ==
    /\ failureExecutionThreshold \in Nat /\ failureRateThreshold \in 0..100
    /\ Timed \in BOOLEAN /\ ComplementBelow \in BOOLEAN /\ MaxResults \in Nat \ {0}
    /\ failureExecutionThreshold # 0 /\ failureRateThreshold = 0 =>
          failureThresholdingCapacity <= failureExecutionThreshold

ASSUME DelayAssumption == Delay \in Nat /\ FuncDelays \subseteq Nat

ASSUME ActorAssumption == IsFiniteSet(Executions) /\ Listened \subseteq States

VARIABLES
    state,        \* cb.state.state()
    window,       \* results in the stats of cb.state, oldest first; TRUE is a success
    capacity,     \* length of the bitset of those stats, or 0 if they are time based
    permitted,    \* halfOpenState.permittedExecutions of cb.state
    remaining,    \* openState.remainingDelay() of cb.state
    pc,           \* where each execution is
    opPc,         \* where each caller of a manual operation is
    healthy,      \* the guarded system has recovered: executions no longer fail
    trials        \* history: executions that hold a permit of the current half-open state

vars == <<state, window, capacity, permitted, remaining, pc, opPc, healthy, trials>>

breaker == <<state, window, capacity, permitted, remaining>>

\* "idle": no permit.  "running": admitted, result not recorded.  "halfOpenListener": in the
\* listener of the transition that its tryAcquirePermit made.  "recordListener": in the listener of
\* the transition that its recorded result made.
PCs == {"idle", "running", "halfOpenListener", "recordListener"}

-----------------------------------------------------------------------------
(***************************************************************************)
(* countingStats: the last results, at most capacity of them.  timedStats: *)
(* those of the thresholding period; older ones expire, the oldest first,  *)
(* when a result is recorded (see Windows).                                *)
(***************************************************************************)
SuccessCount(w) == Cardinality({i \in 1..Len(w) : w[i]})
FailureCount(w) == Cardinality({i \in 1..Len(w) : ~w[i]})

\* util.Round of a share, in hundredths
Rate(count, w) == IF w = <<>> THEN 0 ELSE (200 * count + Len(w)) \div (2 * Len(w))

SuccessRate(w) == Rate(SuccessCount(w), w)
FailureRate(w) == Rate(FailureCount(w), w)

Unexpired == {k \in 1..Len(window) + 1 : Len(window) + 2 - k <= MaxResults}

\* The windows that recording a result may leave.
Recorded_Unbounded(result) == {Append(window, result)}

Recorded(result) ==
    IF capacity = 0 THEN {Append(SubSeq(window, k, Len(window)), result) : k \in Unexpired}
    ELSE {Append(IF Len(window) < capacity THEN window ELSE Tail(window), result)}

ExecutionsRequired ==
    IF failureExecutionThreshold # 0 THEN failureExecutionThreshold ELSE failureThresholdingCapacity

ClosedCapacity == IF Timed THEN 0 ELSE ExecutionsRequired

HalfOpenCapacity ==
    IF successThresholdingCapacity # 0 THEN successThresholdingCapacity ELSE ExecutionsRequired

-----------------------------------------------------------------------------
(***************************************************************************)
(* The thresholds that checkThresholdAndReleasePermit compares with.       *)
(***************************************************************************)
ExecutionThresholdExceeded(w) == Len(w) >= failureExecutionThreshold

ClosedFailuresExceeded(w) ==
    /\ ExecutionThresholdExceeded(w)
    /\ IF failureRateThreshold # 0 THEN FailureRate(w) >= failureRateThreshold
       ELSE FailureCount(w) >= failureThreshold

\* SuccessRate() > 1-failureRateThreshold
SuccessRateExceeded(w) ==
    \/ SuccessRate(w) > 100 - failureRateThreshold
    \/ ComplementBelow /\ w # <<>> /\ SuccessRate(w) = 100 - failureRateThreshold

SuccessesExceeded_OffByOne(w) == successThreshold # 0 /\ SuccessCount(w) > successThreshold

SuccessesExceeded_NeedsMore(w) == Len(w) > failureExecutionThreshold /\ SuccessRateExceeded(w)

SuccessesExceeded(w) ==
    IF successThreshold # 0 THEN SuccessCount(w) >= successThreshold
    ELSE IF failureRateThreshold # 0 THEN ExecutionThresholdExceeded(w) /\ SuccessRateExceeded(w)
    ELSE SuccessCount(w) > failureThresholdingCapacity - failureThreshold

FailuresExceeded(w) ==
    IF successThreshold # 0 THEN FailureCount(w) > successThresholdingCapacity - successThreshold
    ELSE IF failureRateThreshold # 0
         THEN ExecutionThresholdExceeded(w) /\ FailureRate(w) >= failureRateThreshold
    ELSE FailureCount(w) >= failureThreshold

(***************************************************************************)
(* transitionTo: the new state object.  No execution holds a permit of a   *)
(* new half-open state.                                                    *)
(***************************************************************************)
ToClosed ==
    /\ state' = "closed"
    /\ window' = <<>>
    /\ capacity' = ClosedCapacity
    /\ permitted' = 0
    /\ remaining' = 0
    /\ trials' = {}

\* w: the stats of the old state, which the open state goes on using
ToOpen(w, delay) ==
    /\ state' = "open"
    /\ window' = w
    /\ UNCHANGED capacity
    /\ permitted' = 0
    /\ remaining' = delay
    /\ trials' = {}

\* holders: executions that are admitted in the same critical section
ToHalfOpen(holders) ==
    /\ state' = "halfOpen"
    /\ window' = <<>>
    /\ capacity' = HalfOpenCapacity
    /\ permitted' = HalfOpenCapacity - Cardinality(holders)
    /\ remaining' = 0
    /\ trials' = holders

\* ComputeDelay: a DelayFunc, if any, is only consulted for a failure that comes with its execution.
\* The configured delay applies without one, when it returns -1, and after a manual RecordFailure.
DelaysAfterFailure == {Delay} \cup FuncDelays

-----------------------------------------------------------------------------
(***************************************************************************)
(* tryAcquirePermit, called by PreExecute; and called again on whatever    *)
(* state is current once the half-open listener has returned.              *)
(***************************************************************************)
Acquiring(e) == pc[e] \in {"idle", "halfOpenListener"}

Admit(e) == pc' = [pc EXCEPT ![e] = "running"]

AcquireWhenClosed(e) ==
    /\ Acquiring(e)
    /\ state = "closed"
    /\ Admit(e)
    /\ UNCHANGED <<breaker, opPc, healthy, trials>>

DelayElapsed_Ignored == TRUE

DelayElapsed == remaining = 0

AcquireAfterDelay(e) ==
    /\ Acquiring(e)
    /\ state = "open"
    /\ DelayElapsed
    /\ IF "halfOpen" \in Listened
       THEN ToHalfOpen({}) /\ pc' = [pc EXCEPT ![e] = "halfOpenListener"]
       ELSE ToHalfOpen({e}) /\ Admit(e)
    /\ UNCHANGED <<opPc, healthy>>

TakePermit(e) ==
    /\ permitted' = permitted - 1
    /\ trials' = trials \cup {e}

AcquireWhenHalfOpen(e) ==
    /\ Acquiring(e)
    /\ state = "halfOpen"
    /\ permitted > 0
    /\ TakePermit(e)
    /\ Admit(e)
    /\ UNCHANGED <<state, window, capacity, remaining, opPc, healthy>>

\* ErrOpen
Reject(e) ==
    /\ Acquiring(e)
    /\ \/ state = "open" /\ ~DelayElapsed
       \/ state = "halfOpen" /\ permitted = 0
    /\ pc' = [pc EXCEPT ![e] = "idle"]
    /\ UNCHANGED <<breaker, opPc, healthy, trials>>

-----------------------------------------------------------------------------
(***************************************************************************)
(* recordSuccess and recordFailure, called by PostExecute: the result goes *)
(* into the stats of the current state, which need not be the state that   *)
(* admitted the execution, then that state's                               *)
(* checkThresholdAndReleasePermit runs.                                    *)
(***************************************************************************)
Outcome(e, result) ==
    /\ pc[e] = "running"
    /\ ~result => ~healthy

\* After a transition the result's execution is in the listener, if there is one.  The permit that
\* it then releases is one of the state that was left.
AfterTransition(e, target) ==
    pc' = [pc EXCEPT ![e] = IF target \in Listened THEN "recordListener" ELSE "idle"]

RecordAndClose(e) ==
    /\ ToClosed
    /\ AfterTransition(e, "closed")

\* Only failures carry the execution that ComputeDelay needs.
RecordAndOpen(e, result, w) ==
    /\ \E delay \in (IF result THEN {Delay} ELSE DelaysAfterFailure) : ToOpen(w, delay)
    /\ AfterTransition(e, "open")

RecordOnly(e, w) ==
    /\ window' = w
    /\ pc' = [pc EXCEPT ![e] = "idle"]
    /\ trials' = trials \ {e}
    /\ UNCHANGED <<state, capacity, remaining>>

RecordWhenClosed(e, result) ==
    /\ Outcome(e, result)
    /\ state = "closed"
    /\ \E w \in Recorded(result) :
          IF ClosedFailuresExceeded(w) THEN RecordAndOpen(e, result, w)
          ELSE RecordOnly(e, w) /\ UNCHANGED permitted
    /\ UNCHANGED <<opPc, healthy>>

\* A result that arrives late is added to the stats of the state that was left.
RecordWhenOpen(e, result) ==
    /\ Outcome(e, result)
    /\ state = "open"
    /\ \E w \in Recorded(result) : RecordOnly(e, w)
    /\ UNCHANGED <<permitted, opPc, healthy>>

ReleasePermit_Forgotten == UNCHANGED permitted

ReleasePermit == permitted' = permitted + 1

RecordWhenHalfOpen(e, result) ==
    /\ Outcome(e, result)
    /\ state = "halfOpen"
    /\ \E w \in Recorded(result) :
          IF SuccessesExceeded(w) THEN RecordAndClose(e)
          ELSE IF FailuresExceeded(w) THEN RecordAndOpen(e, result, w)
          ELSE RecordOnly(e, w) /\ ReleasePermit
    /\ UNCHANGED <<opPc, healthy>>

\* The listener returns, the mutex is taken again and the operation ends.
RecordListenerReturns(e) ==
    /\ pc[e] = "recordListener"
    /\ pc' = [pc EXCEPT ![e] = "idle"]
    /\ UNCHANGED <<breaker, opPc, healthy, trials>>

-----------------------------------------------------------------------------
(***************************************************************************)
(* Open, HalfOpen and Close do nothing in the state they ask for, and end  *)
(* with the listener.  Reset resets whatever state is current once the     *)
(* listener of its close has returned.                                     *)
(***************************************************************************)
Open(o) ==
    /\ opPc[o] = "idle"
    /\ state # "open"
    /\ ToOpen(window, Delay)
    /\ UNCHANGED <<pc, opPc, healthy>>

HalfOpen(o) ==
    /\ opPc[o] = "idle"
    /\ state # "halfOpen"
    /\ ToHalfOpen({})
    /\ UNCHANGED <<pc, opPc, healthy>>

Close(o) ==
    /\ opPc[o] = "idle"
    /\ state # "closed"
    /\ ToClosed
    /\ UNCHANGED <<pc, opPc, healthy>>

ResetStats ==
    /\ window' = <<>>
    /\ UNCHANGED <<state, capacity, permitted, remaining, trials>>

Reset(o) ==
    /\ opPc[o] = "idle"
    /\ IF state = "closed" THEN ResetStats /\ UNCHANGED opPc
       ELSE /\ ToClosed
            /\ opPc' = [opPc EXCEPT ![o] = IF "closed" \in Listened THEN "resetListener" ELSE "idle"]
    /\ UNCHANGED <<pc, healthy>>

ResetListenerReturns(o) ==
    /\ opPc[o] = "resetListener"
    /\ ResetStats
    /\ opPc' = [opPc EXCEPT ![o] = "idle"]
    /\ UNCHANGED <<pc, healthy>>

-----------------------------------------------------------------------------
(***************************************************************************)
(* The environment: time, and the health of what the breaker guards.       *)
(***************************************************************************)
Tick ==
    /\ remaining > 0
    /\ remaining' = remaining - 1
    /\ UNCHANGED <<state, window, capacity, permitted, pc, opPc, healthy, trials>>

Heal ==
    /\ ~healthy
    /\ healthy' = TRUE
    /\ UNCHANGED <<breaker, pc, opPc, trials>>

Init ==
    /\ state = "closed"
    /\ window = <<>>
    /\ capacity = ClosedCapacity
    /\ permitted = 0
    /\ remaining = 0
    /\ pc = [e \in Executions |-> "idle"]
    /\ opPc = [o \in Operators |-> "idle"]
    /\ healthy = FALSE
    /\ trials = {}

TryAcquirePermit(e) ==
    AcquireWhenClosed(e) \/ AcquireAfterDelay(e) \/ AcquireWhenHalfOpen(e) \/ Reject(e)

Record(e, result) ==
    RecordWhenClosed(e, result) \/ RecordWhenOpen(e, result) \/ RecordWhenHalfOpen(e, result)

ExecutionStep(e) ==
    \/ TryAcquirePermit(e)
    \/ \E result \in BOOLEAN : Record(e, result)
    \/ RecordListenerReturns(e)

OperatorStep(o) == Open(o) \/ HalfOpen(o) \/ Close(o) \/ Reset(o) \/ ResetListenerReturns(o)

Next ==
    \/ \E e \in Executions : ExecutionStep(e)
    \/ \E o \in Operators : OperatorStep(o)
    \/ Tick
    \/ Heal

Spec == Init /\ [][Next]_vars

(***************************************************************************)
(* Executions go on being attempted, an admitted one ends and is recorded, *)
(* listeners return and time passes.  Nothing makes the guarded system     *)
(* recover.                                                                *)
(***************************************************************************)
Fairness ==
    /\ \A e \in Executions :
          /\ WF_vars(TryAcquirePermit(e))
          /\ WF_vars(\E result \in BOOLEAN : Record(e, result))
          /\ WF_vars(RecordListenerReturns(e))
    /\ WF_vars(Tick)

LiveSpec == Spec /\ Fairness

-----------------------------------------------------------------------------
(***************************************************************************)
(* Properties.                                                             *)
(***************************************************************************)
\* Types; counting stats never hold more results than their bitset; only running executions are trials.
TypeOK ==
    /\ state \in States
    /\ capacity \in Nat
    /\ window \in Seq(BOOLEAN)
    /\ capacity # 0 => Len(window) <= capacity
    /\ permitted \in Nat
    /\ remaining \in Nat
    /\ pc \in [Executions -> PCs]
    /\ opPc \in [Operators -> {"idle", "resetListener"}]
    /\ healthy \in BOOLEAN
    /\ trials \subseteq {e \in Executions : pc[e] = "running"}

\* The breaker never rests in a state whose own results already call for a transition.  For the
\* half-open state this says that it cannot use up its trial executions without deciding: the two
\* thresholds leave no gap, with or without a success threshold.
ThresholdsActedUpon ==
    /\ state = "closed" => ~ClosedFailuresExceeded(window)
    /\ state = "halfOpen" => /\ ~SuccessesExceeded(window)
                             /\ ~FailuresExceeded(window)
                             /\ Len(window) < HalfOpenCapacity

\* The permits of the half-open state are not lost: those that are not available are held by
\* executions that still have to record a result.  A half-open breaker without permits and without
\* trial executions would reject everything forever.
HalfOpenNeverExhausted ==
    state = "halfOpen" => permitted + Cardinality(trials) >= HalfOpenCapacity

\* An open breaker stays open until its delay has elapsed, whatever results arrive late, unless one
\* of the manual operations intervenes; and it then becomes half-open, never closed.
OpenHoldsForDelay ==
    [][state = "open" /\ state' # "open" =>
          \/ remaining = 0 /\ state' = "halfOpen"
          \/ \E o \in Operators : OperatorStep(o)]_vars

\* Once the guarded system has recovered the breaker ends up closed, and stays so.
RecoversWhenHealthy == [](healthy => <>[](state = "closed"))

=============================================================================
