\* Violated: a withdrawal is written over APPLIED.
CONSTANTS
  a1 = a1
  a2 = a2
  j1 = j1
  j2 = j2
  w1 = w1
  w2 = w2
  p1 = p1
  ta = ta
  salary = salary
  captcha = captcha
  c1 = c1
  c2 = c2
  App <- OneApp
  Field <- MCField
  Rank <- OneRank
  MaxAttempts = 3
  MaxHolds = 1
  EventLabels <- Labels
  Worker <- MCWorker
  Process <- MCProcess
  Home <- MCHome
  Tenant <- MCTenant
  NoTenant = NoTenant
  TenantOf <- MCTenantOf
  MaxConcurrent = 3
  MaxPerTenant = 2
  NoApp = NoApp
  Captcha = captcha
  Doomed <- None
  MaxFaults = 1
  Job <- OneJob
  JobOf <- SameJob
  Client <- MCClient
  Operations <- Withdrawing
  MaxRequests = 4
SPECIFICATION System
PROPERTY AppliedNotWithdrawn
CHECK_DEADLOCK FALSE
