\* Three callers, six calls that fail or are cancelled; then the service is well.
CONSTANTS
  c1 = c1
  c2 = c2
  c3 = c3
  Caller <- MCCaller
  FailureThreshold = 2
  SuccessThreshold = 2
  MaxFailures = 6
SPECIFICATION FairSpec
INVARIANTS
  TypeOK
  CountsMatchState
PROPERTY Recovers
