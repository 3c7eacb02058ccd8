SPECIFICATION Spec
CONSTANTS
  Callers = {c1}
  Builders <- MCBuilders
  Requests <- MCRequests
  MaxWaits <- MCMaxWaits
  MaxTime = 6
  MaxGranted = 6
INVARIANTS RateHeld
PROPERTIES GrantsInOrder RejectionLeavesNoTrace
