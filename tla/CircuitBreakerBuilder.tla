----------------------- MODULE CircuitBreakerBuilder -----------------------
(***************************************************************************)
(* The builder of a circuit breaker                                        *)
(* (circuitbreaker/circuitbreakerbuilder.go): what each call does to the   *)
(* configuration, and which calls give the thresholds that CircuitBreaker  *)
(* assumes.  Delays are in seconds.                                        *)
(***************************************************************************)
EXTENDS Integers

NewBuilder ==
    [failureThreshold |-> 1, failureThresholdingCapacity |-> 1, failureExecutionThreshold |-> 0,
     failureRateThreshold |-> 0, timed |-> FALSE,
     successThreshold |-> 0, successThresholdingCapacity |-> 0,
     delay |-> 60, funcDelays |-> {}, listened |-> {}]

WithFailureThresholdRatio(c, threshold, capacity) ==
    [c EXCEPT !.failureThreshold = threshold, !.failureThresholdingCapacity = capacity]

WithFailureThreshold(c, threshold) == WithFailureThresholdRatio(c, threshold, threshold)

WithFailureThresholdPeriod(c, threshold) ==
    [c EXCEPT !.failureThreshold = threshold, !.failureThresholdingCapacity = threshold,
              !.failureExecutionThreshold = threshold, !.timed = TRUE]

WithFailureRateThreshold(c, rate, executions) ==
    [c EXCEPT !.failureRateThreshold = rate, !.failureExecutionThreshold = executions, !.timed = TRUE]

WithSuccessThresholdRatio(c, threshold, capacity) ==
    [c EXCEPT !.successThreshold = threshold, !.successThresholdingCapacity = capacity]

WithSuccessThreshold(c, threshold) == WithSuccessThresholdRatio(c, threshold, threshold)

WithDelay(c, delay)      == [c EXCEPT !.delay = delay]
WithDelayFunc(c, delays) == [c EXCEPT !.funcDelays = delays]

\* OnClose, OnOpen, OnHalfOpen; OnStateChanged listens to all three.
OnState(c, to)    == [c EXCEPT !.listened = @ \cup {to}]
OnStateChanged(c) == [c EXCEPT !.listened = {"closed", "open", "halfOpen"}]

-----------------------------------------------------------------------------
\* ThresholdAssumption and TimedAssumption of CircuitBreaker.
Decidable(c) ==
    /\ 0 < c.failureThreshold /\ c.failureThreshold <= c.failureThresholdingCapacity
    /\ c.successThreshold <= c.successThresholdingCapacity
    /\ c.successThreshold = 0 => c.successThresholdingCapacity = 0
    /\ c.failureExecutionThreshold # 0 /\ c.failureRateThreshold = 0 =>
          c.failureThresholdingCapacity <= c.failureExecutionThreshold

\* Builders that differ by one call, with thresholds that do not exceed their capacity.
Ratios(numbers) == {u \in (numbers \ {0}) \X numbers : u[1] <= u[2]}

FailureCalls(c, numbers) ==
       {WithFailureThreshold(c, t) : t \in numbers \ {0}}
  \cup {WithFailureThresholdRatio(c, t[1], t[2]) : t \in Ratios(numbers)}
  \cup {WithFailureThresholdPeriod(c, t) : t \in numbers \ {0}}
  \cup {WithFailureRateThreshold(c, rate, n) : rate \in 1..100, n \in numbers}

SuccessCalls(c, numbers) ==
       {WithSuccessThreshold(c, t) : t \in numbers \ {0}}
  \cup {WithSuccessThresholdRatio(c, t[1], t[2]) : t \in Ratios(numbers)}

\* One way of setting the failure threshold, before or after one of setting the success threshold,
\* always gives a breaker that can decide.
OneFailureCallDecides(numbers) ==
    /\ \A c \in FailureCalls(NewBuilder, numbers) :
          Decidable(c) /\ \A d \in SuccessCalls(c, numbers) : Decidable(d)
    /\ \A c \in SuccessCalls(NewBuilder, numbers) :
          Decidable(c) /\ \A d \in FailureCalls(c, numbers) : Decidable(d)

ASSUME OneFailureCallDecidable == OneFailureCallDecides(0..3)

\* Two ways of setting it do not: a ratio after a period leaves the period's executions in place,
\* which a half-open breaker records before it can reach the ratio.
ASSUME PeriodThenRatioUndecidable ==
    ~Decidable(WithFailureThresholdRatio(WithFailureThresholdPeriod(NewBuilder, 2), 2, 3))
=============================================================================
