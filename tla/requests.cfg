\* Every request on one job, two row ids, two clients and two workers.  The system rests in the end.
CONSTANTS
  a1 = a1
  a2 = a2
  j1 = j1
  j2 = j2
  w1 = w1
  w2 = w2
  p1 = p1
  ta = ta
  salary = salary
  captcha = captcha
  c1 = c1
  c2 = c2
  App <- MCApp
  Field <- MCField
  Rank <- MCRank
  MaxAttempts = 3
  MaxHolds = 2
  EventLabels <- Labels
  Worker <- MCWorker
  Process <- MCProcess
  Home <- MCHome
  Tenant <- MCTenant
  NoTenant = NoTenant
  TenantOf <- MCTenantOf
  MaxConcurrent = 3
  MaxPerTenant = 2
  NoApp = NoApp
  Captcha = captcha
  Doomed <- None
  MaxFaults = 1
  Job <- OneJob
  JobOf <- SameJob
  Client <- MCClient
  Operations <- Everything
  MaxRequests = 3
SYMMETRY Symmetry
SPECIFICATION System
INVARIANTS
  SystemTypeOK
  ExclusiveUnlessOvertaken
  JobSubmittedOnce
  HoldHasQuestion
CHECK_DEADLOCK FALSE
