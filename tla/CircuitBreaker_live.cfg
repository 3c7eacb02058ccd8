\* Recovery without manual operations, with a failure rate over a period.
SPECIFICATION LiveSpec
CONSTANTS
    Built <- Rated
    e1 = e1
    e2 = e2
    e3 = e3
    Executions = {e1, e2, e3}
    Operators = {}
    failureThreshold <- BuiltFailureThreshold
    failureThresholdingCapacity <- BuiltFailureThresholdingCapacity
    failureExecutionThreshold <- BuiltFailureExecutionThreshold
    failureRateThreshold <- BuiltFailureRateThreshold
    ComplementBelow = TRUE
    Timed <- BuiltTimed
    MaxResults = 4
    successThreshold <- BuiltSuccessThreshold
    successThresholdingCapacity <- BuiltSuccessThresholdingCapacity
    Delay <- BuiltDelay
    FuncDelays <- BuiltFuncDelays
    Listened <- BuiltListened
PROPERTIES
    RecoversWhenHealthy
