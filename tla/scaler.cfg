\* Both entry points.  The process ends, so the system stops.
CONSTANTS
  w1 = w1
  w2 = w2
  w3 = w3
  g1 = g1
  g2 = g2
  Worker <- MCWorker
  Signal <- MCSignal
  Own = Own
  PoolSize = 4
SPECIFICATION FairSpec
INVARIANTS
  TypeOK
  NeverClosedUnderWork
  ClosesEverything
  PoolNotStuck
PROPERTY Ends
CHECK_DEADLOCK FALSE
