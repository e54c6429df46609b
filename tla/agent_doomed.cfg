\* Violated: the first application's form always raises, and it is retried forever.
CONSTANTS
  a1 = a1
  a2 = a2
  w1 = w1
  w2 = w2
  w3 = w3
  p1 = p1
  p2 = p2
  ta = ta
  salary = salary
  captcha = captcha
  App <- MCApp
  Field <- MCField
  Rank <- MCRank
  MaxAttempts = 3
  MaxHolds = 1
  EventLabels <- CodeLabels
  Worker <- TwoWorkers
  Process <- OneProcess
  Home <- Together
  Tenant <- MCTenant
  NoTenant = NoTenant
  TenantOf <- MCTenantOf
  MaxConcurrent = 3
  MaxPerTenant = 3
  NoApp = NoApp
  Captcha = captcha
  Doomed <- OnlyA1
  MaxFaults = 0
SPECIFICATION FairSpec
PROPERTY DoomedFails
CHECK_DEADLOCK FALSE
