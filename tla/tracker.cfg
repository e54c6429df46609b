CONSTANTS
  t1 = t1
  t2 = t2
  t3 = t3
  t4 = t4
  ta = ta
  tb = tb
  w1 = w1
  w2 = w2
  w3 = w3
  Task <- MCTask
  Tenant <- MCTenant
  NoTenant = NoTenant
  NoTask = NoTask
  TenantOf <- MCTenantOf
  Worker <- MCWorker
  MaxConcurrent = 2
  MaxPerTenant = 2
  MaxAbandons = 2
SYMMETRY MCWorkerSymmetry
SPECIFICATION Spec
INVARIANTS
  TypeOK
  TenantCap
  ExactWhenUndisturbed
CHECK_DEADLOCK FALSE
