------------------------------ MODULE TrackerOps ------------------------------
(***************************************************************************)
(* The in-memory usage tracker of one worker process,                      *)
(* src/apps/worker/concurrent_tracker.py, as operators on its state.  Each *)
(* operation of ConcurrentUsageTracker runs under the instance's asyncio   *)
(* lock, so each is one atomic function of that state.                     *)
(*                                                                         *)
(* A tenant that is absent from the dictionary _tenant_usage counts as 0   *)
(* (the code reads it with get(tenant, 0) and deletes entries that reach   *)
(* 0); a task absent from _task_tenant_map maps to NoTenant.               *)
(***************************************************************************)
EXTENDS Integers, FiniteSets

CONSTANTS
  Task,            \* identifiers of applications handed to the tracker
  Tenant,          \* tenants
  NoTenant,        \* "no tenant": None in the code
  MaxConcurrent,   \* max_concurrent
  MaxPerTenant     \* max_per_tenant

ASSUME TrackerAssumption ==
  /\ NoTenant \notin Tenant
  /\ MaxConcurrent \in Nat \ {0}
  /\ MaxPerTenant \in Nat \ {0}

TrackerState ==
  [ active_tasks    : SUBSET Task,
    tenant_usage    : [Tenant -> Nat],
    task_tenant_map : [Task -> Tenant \cup {NoTenant}] ]

\* A tracker as __init__ leaves it: also what a restarted process starts with.
FreshTracker ==
  [ active_tasks    |-> {},
    tenant_usage    |-> [ten \in Tenant |-> 0],
    task_tenant_map |-> [t \in Task |-> NoTenant] ]

\* _check_can_start: the global limit, then the tenant's limit if it has one.
CanStart(tr, ten) ==
  /\ Cardinality(tr.active_tasks) < MaxConcurrent
  /\ ten \in Tenant => tr.tenant_usage[ten] < MaxPerTenant

\* start_task when the check succeeds.  A set absorbs a task it already holds,
\* the tenant's counter does not.
Started(tr, t, ten) ==
  [ active_tasks    |-> tr.active_tasks \cup {t},
    tenant_usage    |-> [x \in Tenant |-> IF x = ten THEN tr.tenant_usage[x] + 1
                                                     ELSE tr.tenant_usage[x]],
    task_tenant_map |-> [x \in Task |-> IF x = t /\ ten \in Tenant
                                        THEN ten ELSE tr.task_tenant_map[x]] ]

\* Mutant of Ended: the tenant's counter is taken down by one more than was added.
EndedTwice(tr, t) ==
  IF t \notin tr.active_tasks
  THEN tr
  ELSE [ active_tasks    |-> tr.active_tasks \ {t},
         tenant_usage    |-> [x \in Tenant |-> IF x = tr.task_tenant_map[t]
                                               THEN tr.tenant_usage[x] - 2
                                               ELSE tr.tenant_usage[x]],
         task_tenant_map |-> [tr.task_tenant_map EXCEPT ![t] = NoTenant] ]

\* Mutant of Ended: the task's tenant is read but not popped from the map.
EndedKeepingTenant(tr, t) ==
  IF t \notin tr.active_tasks
  THEN tr
  ELSE [ tr EXCEPT !.active_tasks = @ \ {t},
                   !.tenant_usage = [x \in Tenant |->
                       IF x = tr.task_tenant_map[t] /\ @[x] > 0 THEN @[x] - 1 ELSE @[x]] ]

\* end_task: nothing for a task that is not active; otherwise the task goes, its
\* tenant entry is popped and that tenant's counter drops by one.
Ended(tr, t) ==
  IF t \notin tr.active_tasks
  THEN tr
  ELSE [ active_tasks    |-> tr.active_tasks \ {t},
         tenant_usage    |-> [x \in Tenant |->
             IF x = tr.task_tenant_map[t] /\ tr.tenant_usage[x] > 0
             THEN tr.tenant_usage[x] - 1 ELSE tr.tenant_usage[x]],
         task_tenant_map |-> [tr.task_tenant_map EXCEPT ![t] = NoTenant] ]
===============================================================================
