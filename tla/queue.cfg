\* Three jobs, two with one key, one of these without a handler; two processes that may
\* stop once.  An empty queue rests.
CONSTANTS
  j1 = j1
  j2 = j2
  j3 = j3
  k1 = k1
  p1 = p1
  p2 = p2
  NoKey = NoKey
  Key <- MCKey
  Rank <- MCRank
  Job <- ThreeJobs
  KeyOf <- MCKeyOf
  Unhandled <- Third
  MaxAttempts = 2
  BatchSize = 2
  Process <- TwoProcesses
  MaxFaults = 1
SPECIFICATION FairSpec
INVARIANTS
  TypeOK
  RunsBounded
  ExclusiveUnlessOverrun
  SucceedsOnce
PROPERTIES
  VerdictStays
  Drains
  QueuePromises
CHECK_DEADLOCK FALSE
