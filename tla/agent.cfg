\* Two workers of one process and one of another.  The system rests once all is settled.
CONSTANTS
  a1 = a1
  a2 = a2
  w1 = w1
  w2 = w2
  w3 = w3
  p1 = p1
  p2 = p2
  ta = ta
  salary = salary
  captcha = captcha
  App <- MCApp
  Field <- MCField
  Rank <- MCRank
  MaxAttempts = 3
  MaxHolds = 1
  EventLabels <- CodeLabels
  Worker <- ThreeWorkers
  Process <- TwoProcesses
  Home <- Apart
  Tenant <- MCTenant
  NoTenant = NoTenant
  TenantOf <- MCTenantOf
  MaxConcurrent = 3
  MaxPerTenant = 1
  NoApp = NoApp
  Captcha = captcha
  Doomed <- None
  MaxFaults = 2
SYMMETRY WorkerSymmetry
SPECIFICATION Spec
INVARIANTS
  TypeOK
  ExclusiveProcessing
  SubmittedOnce
  RecordAgrees
  TenantLimit
PROPERTY KeepsPromises
CHECK_DEADLOCK FALSE
