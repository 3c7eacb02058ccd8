SPECIFICATION Spec
CONSTANTS
  Callers = {c1}
  Builders <- MCBurstyBuilders
  Requests = {1}
  MaxWaits <- MCMaxWaits
  MaxTime = 6
  MaxGranted = 8
INVARIANT BurstBounded
