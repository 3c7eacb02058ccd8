\* Listeners on every transition, a success threshold, a DelayFunc that may return zero.
SPECIFICATION Spec
CONSTANTS
    Built <- Counted
    e1 = e1
    e2 = e2
    e3 = e3
    e4 = e4
    op = op
    Executions = {e1, e2, e3, e4}
    Operators = {op}
    failureThreshold <- BuiltFailureThreshold
    failureThresholdingCapacity <- BuiltFailureThresholdingCapacity
    failureExecutionThreshold <- BuiltFailureExecutionThreshold
    failureRateThreshold <- BuiltFailureRateThreshold
    ComplementBelow = FALSE
    Timed <- BuiltTimed
    MaxResults = 3
    successThreshold <- BuiltSuccessThreshold
    successThresholdingCapacity <- BuiltSuccessThresholdingCapacity
    Delay <- BuiltDelay
    FuncDelays <- BuiltFuncDelays
    Listened <- BuiltListened
SYMMETRY ExecutionSymmetry
INVARIANTS
    TypeOK
    ThresholdsActedUpon
    HalfOpenNeverExhausted
PROPERTIES
    OpenHoldsForDelay
