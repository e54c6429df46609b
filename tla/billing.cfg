\* Two subscriptions, two deliveries at a time.  Stripe and the users need not go on.
CONSTANTS
  s1 = s1
  s2 = s2
  h1 = h1
  h2 = h2
  c1 = c1
  Sub <- MCSub
  PlanOf <- MCPlanOf
  Limit <- MCLimit
  Handler <- MCHandler
  Client <- MCClient
  NoSub = NoSub
  MaxEvents = 3
  MaxFaults = 1
  MaxRows = 3
SPECIFICATION FairSpec
INVARIANTS
  TypeOK
  AppliedOnce
  PaidPlanIsBacked
  InStep
PROPERTIES
  NothingLost
  OverrunsOnce
CHECK_DEADLOCK FALSE
