SPECIFICATION Spec
CONSTANTS
    Setups <- MCSetups
    MaxAttempts = 3
INVARIANTS
    ContextsLiveWhileNeeded
PROPERTIES
    CanceledCallEnds
    ContextsReleased
