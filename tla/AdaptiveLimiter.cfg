\* Limits of one and two; three callers, so that two updates overlap in their listeners while a
\* third execution is admitted or waits.
SPECIFICATION Spec
CONSTANTS
    Callers = {c1, c2, c3}
    Configs <- MCConfigs
    Unit = 2
    MinLimit = 1
    MaxLimit = 2
    InitialLimit = 1
    MaxLimitFactor = 4
    MaxRejectionFactor = 1
    MinSamples = 2
INVARIANTS
    QueueOvershootBounded
PROPERTIES
    AdmissionWithinLimit
    WaitersServed
