\* Every operation on one application, with a slot more than can be lost.  The system rests in the end.
CONSTANTS
  a1 = a1
  a2 = a2
  j1 = j1
  j2 = j2
  w1 = w1
  w2 = w2
  p1 = p1
  ta = ta
  salary = salary
  captcha = captcha
  c1 = c1
  c2 = c2
  App <- OneApp
  Field <- MCField
  Rank <- OneRank
  MaxAttempts = 3
  MaxHolds = 1
  EventLabels <- Labels
  Worker <- MCWorker
  Process <- MCProcess
  Home <- MCHome
  Tenant <- MCTenant
  NoTenant = NoTenant
  TenantOf <- MCTenantOf
  MaxConcurrent = 3
  MaxPerTenant = 3
  NoApp = NoApp
  Captcha = captcha
  Doomed <- None
  MaxFaults = 1
  Job <- OneJob
  JobOf <- SameJob
  Client <- MCClient
  Operations <- Everything
  MaxRequests = 3
SPECIFICATION FairSystem
PROPERTY RowsSettle
CHECK_DEADLOCK FALSE
