\* Three users share a tracker of two; a ring of two levels; queues of up to three.
SPECIFICATION Spec
CONSTANTS
    u1 = u1
    u2 = u2
    u3 = u3
    p1 = p1
    p2 = p2
    k1 = k1
    k2 = k2
    Users = {u1, u2, u3}
    Usages = {1, 2}
    MaxUsers = 2
    WindowDuration = 1
    NumPriorities = 2
    LevelWidth = 2
    MaxTime = 3
    MaxUsage = 2
    Configs <- MCConfigs
    Callers = {c1}
    WindowSize = 2
    LowQueue = 1
    MaxQueue = 3
    SuccessRateThreshold = 50
    ExecutionThreshold = 1
    MaxRejectionRate = 90
    Rates = {1, 50, 67}
    MaxExecutions = 2
INVARIANTS
    LighterUserPreferred
    ThresholdIsQuantile
PROPERTIES
    RejectionEndsWithOverload
