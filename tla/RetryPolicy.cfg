SPECIFICATION RetrySpec
CONSTANTS
    Uses <- MCUses
    AttemptsBound = 8
    MaxElapsed = 5
INVARIANTS
    AttemptsAsConfigured
    

    
