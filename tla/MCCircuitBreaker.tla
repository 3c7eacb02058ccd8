-------------------------- MODULE MCCircuitBreaker --------------------------
(***************************************************************************)
(* Instances of CircuitBreaker for TLC, with the thresholds of two         *)
(* builders.                                                               *)
(***************************************************************************)
EXTENDS CircuitBreaker, CircuitBreakerBuilder, TLC

CONSTANT Built      \* the builder's configuration

\* Both have a DelayFunc that may return zero and listeners for every transition.
Delayed == WithDelayFunc(WithDelay(NewBuilder, 1), {0, 2})
Counted == OnStateChanged(WithSuccessThresholdRatio(WithFailureThresholdRatio(Delayed, 2, 3), 2, 3))
Rated   == OnState(OnState(OnState(WithFailureRateThreshold(Delayed, 67, 3), "closed"), "open"),
                   "halfOpen")

BuiltFailureThreshold            == Built.failureThreshold
BuiltFailureThresholdingCapacity == Built.failureThresholdingCapacity
BuiltFailureExecutionThreshold   == Built.failureExecutionThreshold
BuiltFailureRateThreshold        == Built.failureRateThreshold
BuiltTimed                       == Built.timed
BuiltSuccessThreshold            == Built.successThreshold
BuiltSuccessThresholdingCapacity == Built.successThresholdingCapacity
BuiltDelay                       == Built.delay
BuiltFuncDelays                  == Built.funcDelays
BuiltListened                    == Built.listened

ExecutionSymmetry == Permutations(Executions)
=============================================================================
