------------------------ MODULE ConcurrentTrackerProofs ------------------------
(***************************************************************************)
(* Proofs about ConcurrentTracker, for every finite set of workers, every  *)
(* assignment of tasks to tenants and every pair of limits.                *)
(***************************************************************************)
EXTENDS ConcurrentTracker, FiniteSetTheorems, TLAPS

Busy == {w \in Worker : running[w] # NoTask}

\* The tracker's counter of a tenant never falls behind the workers it stands for.
Counts ==
  \A ten \in Tenant : /\ Cardinality(RunningFor(ten)) <= tracker.tenant_usage[ten]
                      /\ tracker.tenant_usage[ten] <= MaxPerTenant

\* _task_tenant_map holds the tenant of the active tasks and nothing else.
Maps ==
  \A t \in Task : tracker.task_tenant_map[t] =
                    IF t \in tracker.active_tasks THEN TenantOf[t] ELSE NoTenant

Bounded ==
  /\ IsFiniteSet(tracker.active_tasks)
  /\ Cardinality(tracker.active_tasks) <= MaxConcurrent

Exact ==
  ~ overlapped /\ abandons = 0 =>
    /\ tracker.active_tasks = RunningTasks
    /\ \A ten \in Tenant : tracker.tenant_usage[ten] = Cardinality(RunningFor(ten))
    /\ \A v, w \in Busy : running[v] = running[w] => v = w
    /\ Cardinality(Busy) = Cardinality(tracker.active_tasks)

\* A worker that has been told it may start is not running anything.
OneThing == \A w \in Worker : peeked[w] # NoTask => running[w] = NoTask

\* The inductive invariant.
IInv == TypeOK /\ OneThing /\ Counts /\ Maps /\ Bounded /\ Exact

-------------------------------------------------------------------------------
\* The sets that are counted are finite.
LEMMA FiniteCounts ==
  /\ IsFiniteSet(Busy) /\ Cardinality(Busy) \in Nat
  /\ \A ten \in Tenant : /\ IsFiniteSet(RunningFor(ten))
                         /\ Cardinality(RunningFor(ten)) \in Nat
<1>1. /\ Busy \in SUBSET Worker
      /\ \A ten \in Tenant : RunningFor(ten) \in SUBSET Worker
  BY DEF Busy, RunningFor
<1>2. IsFiniteSet(Worker)
  BY CallerAssumption
<1>3. IsFiniteSet(Busy) /\ \A ten \in Tenant : IsFiniteSet(RunningFor(ten))
  BY <1>1, <1>2, FS_Subset
<1> QED
  BY <1>3, FS_CardinalityType

\* Adding an element adds at most one to a set's size.
LEMMA AddOne ==
  ASSUME NEW S, NEW x, IsFiniteSet(S)
  PROVE  /\ IsFiniteSet(S \cup {x})
         /\ Cardinality(S \cup {x}) \in Nat
         /\ Cardinality(S \cup {x}) <= Cardinality(S) + 1
<1>1. IsFiniteSet(S \cup {x}) /\ Cardinality(S) \in Nat
  BY FS_AddElement, FS_CardinalityType
<1>2. Cardinality(S \cup {x}) = IF x \in S THEN Cardinality(S) ELSE Cardinality(S) + 1
  BY FS_AddElement
<1> QED
  BY <1>1, <1>2

\* What start_task does to the tracker's type.
LEMMA StartedType ==
  ASSUME NEW tr \in TrackerState, NEW t \in Task, NEW ten \in Tenant \cup {NoTenant}
  PROVE  Started(tr, t, ten) \in TrackerState
BY DEF TrackerState, Started

\* What end_task does to the tracker's type.
LEMMA EndedType ==
  ASSUME NEW tr \in TrackerState, NEW t \in Task
  PROVE  Ended(tr, t) \in TrackerState
BY DEF TrackerState, Ended

LEMMA InitIInv == Init => IInv
<1> SUFFICES ASSUME Init PROVE IInv
  OBVIOUS
<1> USE TrackerAssumption, CallerAssumption DEF Init
<1>1. TypeOK
  <2>1. FreshTracker \in TrackerState
    BY DEF TrackerState, FreshTracker
  <2>2. /\ peeked \in [Worker -> Task \cup {NoTask}]
        /\ running \in [Worker -> Task \cup {NoTask}]
    OBVIOUS
  <2>3. overlapped \in BOOLEAN
    OBVIOUS
  <2>4. abandons \in 0..MaxAbandons
    OBVIOUS
  <2> QED
    BY <2>1, <2>2, <2>3, <2>4 DEF TypeOK
<1>2. Busy = {} /\ \A ten \in Tenant : RunningFor(ten) = {}
  BY DEF Busy, RunningFor
<1>3. RunningTasks = {}
  BY DEF RunningTasks
<1>4. Counts
  <2>1. \A ten \in Tenant : tracker.tenant_usage[ten] = 0
    BY DEF FreshTracker
  <2> QED
    BY <1>2, <2>1, FS_EmptySet DEF Counts
<1>5. Maps
  BY DEF Maps, FreshTracker
<1>6. Bounded
  BY FS_EmptySet DEF Bounded, FreshTracker
<1>7. Exact
  BY <1>2, <1>3, FS_EmptySet DEF Exact, FreshTracker
<1>8. OneThing
  BY DEF OneThing
<1> QED
  BY <1>1, <1>4, <1>5, <1>6, <1>7, <1>8 DEF IInv

\* Every step keeps the types.
LEMMA TypeStep == TypeOK /\ [Next]_vars => TypeOK'
<1> SUFFICES ASSUME TypeOK, [Next]_vars PROVE TypeOK'
  OBVIOUS
<1> USE CallerAssumption DEF TypeOK
<1>1. ASSUME NEW w \in Worker, NEW t \in Task, CanStartTask(w, t) PROVE TypeOK'
  BY <1>1 DEF CanStartTask
<1>2. ASSUME NEW w \in Worker, StartTask(w) PROVE TypeOK'
  BY <1>2, StartedType DEF StartTask
<1>3. ASSUME NEW w \in Worker, StartRefused(w) PROVE TypeOK'
  BY <1>3 DEF StartRefused
<1>4. ASSUME NEW w \in Worker, EndTask(w) PROVE TypeOK'
  BY <1>4, EndedType DEF EndTask
<1>5. ASSUME NEW w \in Worker, Abandon(w) PROVE TypeOK'
  BY <1>5 DEF Abandon
<1>6. CASE UNCHANGED vars
  BY <1>6 DEF vars
<1> QED
  BY <1>1, <1>2, <1>3, <1>4, <1>5, <1>6 DEF Next

\* A step that leaves the tracker and the running tasks alone keeps the rest.
LEMMA QuietStep ==
  ASSUME IInv, UNCHANGED <<tracker, running, overlapped, abandons>>
  PROVE  (Counts /\ Maps /\ Bounded /\ Exact)'
<1>1. RunningTasks' = RunningTasks /\ Busy' = Busy
  BY DEF RunningTasks, Busy
<1>2. \A ten \in Tenant : RunningFor(ten)' = RunningFor(ten)
  BY DEF RunningFor
<1> QED
  BY <1>1, <1>2 DEF IInv, Counts, Maps, Bounded, Exact

\* start_task keeps the invariant: one more runner, one more counted.
LEMMA StartStep ==
  ASSUME IInv, NEW w \in Worker, StartTask(w)
  PROVE  (Counts /\ Maps /\ Bounded /\ Exact)'
<1> DEFINE t == peeked[w]
<1> USE CallerAssumption, TrackerAssumption
<1>1. /\ t \in Task /\ TypeOK /\ tracker \in TrackerState
      /\ tracker' = Started(tracker, t, TenantOf[t])
      /\ running' = [running EXCEPT ![w] = t]
      /\ running[w] = NoTask
  BY DEF StartTask, IInv, TypeOK, OneThing
<1>2. /\ tracker'.active_tasks = tracker.active_tasks \cup {t}
      /\ \A x \in Tenant : tracker'.tenant_usage[x] =
            IF x = TenantOf[t] THEN tracker.tenant_usage[x] + 1 ELSE tracker.tenant_usage[x]
      /\ \A x \in Task : tracker'.task_tenant_map[x] =
            IF x = t /\ TenantOf[t] \in Tenant THEN TenantOf[t] ELSE tracker.task_tenant_map[x]
  BY <1>1 DEF Started, TrackerState
<1>3. \A ten \in Tenant : RunningFor(ten)' =
        IF ten = TenantOf[t] THEN RunningFor(ten) \cup {w} ELSE RunningFor(ten)
  BY <1>1 DEF RunningFor, TypeOK
<1>4. \A ten \in Tenant : w \notin RunningFor(ten)
  BY <1>1 DEF RunningFor
<1>5. \A ten \in Tenant : Cardinality(RunningFor(ten))' =
        IF ten = TenantOf[t] THEN Cardinality(RunningFor(ten)) + 1
                             ELSE Cardinality(RunningFor(ten))
  <2>1. \A ten \in Tenant : Cardinality(RunningFor(ten) \cup {w}) =
                               Cardinality(RunningFor(ten)) + 1
    BY <1>4, FiniteCounts, FS_AddElement
  <2> QED
    BY <1>3, <2>1
<1>6. Counts'
  <2>1. TenantOf[t] \in Tenant => tracker.tenant_usage[TenantOf[t]] < MaxPerTenant
    BY <1>1 DEF StartTask, CanStart
  <2>2. tracker.tenant_usage \in [Tenant -> Nat]
    BY <1>1 DEF TrackerState
  <2> QED
    BY <1>2, <1>5, <2>1, <2>2, FiniteCounts DEF IInv, Counts
<1>7. Maps'
  BY <1>1, <1>2 DEF IInv, Maps
<1>8. Bounded'
  <2>1. Cardinality(tracker.active_tasks) < MaxConcurrent
    BY <1>1 DEF StartTask, CanStart
  <2>2. Cardinality(tracker.active_tasks) \in Nat /\ IsFiniteSet(tracker.active_tasks)
    BY FS_CardinalityType DEF IInv, Bounded
  <2>3. /\ IsFiniteSet(tracker.active_tasks \cup {t})
        /\ Cardinality(tracker.active_tasks \cup {t}) <= Cardinality(tracker.active_tasks) + 1
        /\ Cardinality(tracker.active_tasks \cup {t}) \in Nat
    BY <2>2, AddOne
  <2> QED
    BY <1>2, <2>1, <2>2, <2>3 DEF Bounded
<1>9. Exact'
  <2> SUFFICES ASSUME ~ overlapped', abandons' = 0 PROVE
        (/\ tracker.active_tasks = RunningTasks
         /\ \A ten \in Tenant : tracker.tenant_usage[ten] = Cardinality(RunningFor(ten))
         /\ \A v, x \in Busy : running[v] = running[x] => v = x
         /\ Cardinality(Busy) = Cardinality(tracker.active_tasks))'
    BY DEF Exact
  <2>1. ~ overlapped /\ abandons = 0 /\ \A v \in Worker : running[v] # t
    BY <1>1 DEF StartTask
  <2>2. /\ tracker.active_tasks = RunningTasks
        /\ \A ten \in Tenant : tracker.tenant_usage[ten] = Cardinality(RunningFor(ten))
        /\ \A v, x \in Busy : running[v] = running[x] => v = x
        /\ Cardinality(Busy) = Cardinality(tracker.active_tasks)
    BY <2>1 DEF IInv, Exact
  <2>3. RunningTasks' = RunningTasks \cup {t}
    BY <1>1 DEF RunningTasks, TypeOK
  <2>4. Busy' = Busy \cup {w} /\ w \notin Busy
    BY <1>1 DEF Busy, TypeOK
  <2>5. t \notin RunningTasks
    BY <2>1 DEF RunningTasks
  <2>6. Cardinality(Busy)' = Cardinality(tracker.active_tasks)'
    <3>1. Cardinality(Busy \cup {w}) = Cardinality(Busy) + 1
      BY <2>4, FiniteCounts, FS_AddElement
    <3>2. Cardinality(tracker.active_tasks \cup {t}) = Cardinality(tracker.active_tasks) + 1
      BY <2>2, <2>5, FS_AddElement DEF IInv, Bounded
    <3> QED
      BY <1>2, <2>2, <2>4, <3>1, <3>2
  <2>7. (\A v, x \in Busy : running[v] = running[x] => v = x)'
    BY <1>1, <2>1, <2>2, <2>4 DEF Busy, TypeOK
  <2>8. (\A ten \in Tenant : tracker.tenant_usage[ten] = Cardinality(RunningFor(ten)))'
    BY <1>2, <1>5, <2>2
  <2> QED
    BY <1>2, <2>2, <2>3, <2>6, <2>7, <2>8
<1> QED
  BY <1>6, <1>7, <1>8, <1>9

\* end_task keeps the invariant: the counter drops only when a runner leaves.
LEMMA EndStep ==
  ASSUME IInv, NEW w \in Worker, EndTask(w)
  PROVE  (Counts /\ Maps /\ Bounded /\ Exact)'
<1> DEFINE t == running[w]
           ten0 == TenantOf[t]
<1> USE CallerAssumption, TrackerAssumption
<1>1. /\ t \in Task /\ TypeOK /\ tracker \in TrackerState
      /\ tracker' = Ended(tracker, t)
      /\ running' = [running EXCEPT ![w] = NoTask]
  BY DEF EndTask, IInv, TypeOK
<1>2. \A ten \in Tenant : RunningFor(ten)' =
        IF ten = ten0 THEN RunningFor(ten) \ {w} ELSE RunningFor(ten)
  BY <1>1 DEF RunningFor, TypeOK
<1>3. ten0 \in Tenant => w \in RunningFor(ten0)
  BY <1>1 DEF RunningFor
<1>4. \A ten \in Tenant : Cardinality(RunningFor(ten))' =
        IF ten = ten0 THEN Cardinality(RunningFor(ten)) - 1
                      ELSE Cardinality(RunningFor(ten))
  <2>1. ten0 \in Tenant => Cardinality(RunningFor(ten0) \ {w}) =
                              Cardinality(RunningFor(ten0)) - 1
    BY <1>3, FiniteCounts, FS_RemoveElement
  <2> QED
    BY <1>2, <2>1
<1>5. /\ tracker'.active_tasks = tracker.active_tasks \ {t}
      /\ tracker.tenant_usage \in [Tenant -> Nat]
  BY <1>1 DEF Ended, TrackerState
<1>6. \A x \in Tenant : tracker'.tenant_usage[x] =
        IF t \in tracker.active_tasks /\ x = ten0 /\ tracker.tenant_usage[x] > 0
        THEN tracker.tenant_usage[x] - 1 ELSE tracker.tenant_usage[x]
  BY <1>1 DEF Ended, TrackerState, IInv, Maps
<1>7. \A x \in Task : tracker'.task_tenant_map[x] =
        IF x = t THEN NoTenant ELSE tracker.task_tenant_map[x]
  BY <1>1 DEF Ended, TrackerState, IInv, Maps
<1>8. Counts'
  BY <1>4, <1>5, <1>6, FiniteCounts DEF IInv, Counts
<1>9. Maps'
  BY <1>1, <1>5, <1>7 DEF IInv, Maps
<1>10. Bounded'
  <2>1. /\ IsFiniteSet(tracker.active_tasks) /\ Cardinality(tracker.active_tasks) \in Nat
        /\ Cardinality(tracker.active_tasks) <= MaxConcurrent
    BY FS_CardinalityType DEF IInv, Bounded
  <2>2. /\ IsFiniteSet(tracker.active_tasks \ {t})
        /\ Cardinality(tracker.active_tasks \ {t}) <= Cardinality(tracker.active_tasks)
        /\ Cardinality(tracker.active_tasks \ {t}) \in Nat
    BY <2>1, FS_Subset, FS_CardinalityType
  <2> QED
    BY <1>5, <2>1, <2>2 DEF Bounded
<1>11. Exact'
  <2> SUFFICES ASSUME ~ overlapped', abandons' = 0 PROVE
        (/\ tracker.active_tasks = RunningTasks
         /\ \A ten \in Tenant : tracker.tenant_usage[ten] = Cardinality(RunningFor(ten))
         /\ \A v, x \in Busy : running[v] = running[x] => v = x
         /\ Cardinality(Busy) = Cardinality(tracker.active_tasks))'
    BY DEF Exact
  <2>1. ~ overlapped /\ abandons = 0
    BY DEF EndTask
  <2>2. /\ tracker.active_tasks = RunningTasks
        /\ \A ten \in Tenant : tracker.tenant_usage[ten] = Cardinality(RunningFor(ten))
        /\ \A v, x \in Busy : running[v] = running[x] => v = x
        /\ Cardinality(Busy) = Cardinality(tracker.active_tasks)
    BY <2>1 DEF IInv, Exact
  <2>3. w \in Busy /\ t \in RunningTasks
    BY <1>1 DEF Busy, RunningTasks, EndTask
  <2>4. Busy' = Busy \ {w}
    BY <1>1 DEF Busy, TypeOK
  <2>5. \A v \in Worker \ {w} : running[v] # t
    BY <2>2, <2>3 DEF Busy, EndTask
  <2>6. RunningTasks' = RunningTasks \ {t}
    BY <1>1, <2>5 DEF RunningTasks, TypeOK, EndTask
  <2>7. Cardinality(Busy)' = Cardinality(tracker.active_tasks)'
    <3>1. Cardinality(Busy \ {w}) = Cardinality(Busy) - 1
      BY <2>3, FiniteCounts, FS_RemoveElement
    <3>2. Cardinality(tracker.active_tasks \ {t}) = Cardinality(tracker.active_tasks) - 1
      BY <2>2, <2>3, FS_RemoveElement DEF IInv, Bounded
    <3> QED
      BY <1>5, <2>2, <2>4, <3>1, <3>2
  <2>8. (\A v, x \in Busy : running[v] = running[x] => v = x)'
    BY <1>1, <2>2, <2>4 DEF Busy, TypeOK
  <2>9. (\A ten \in Tenant : tracker.tenant_usage[ten] = Cardinality(RunningFor(ten)))'
    <3>1. \A ten \in Tenant : Cardinality(RunningFor(ten)) \in Nat
      BY FiniteCounts
    <3>2. ten0 \in Tenant => Cardinality(RunningFor(ten0)) > 0
      BY <1>3, FiniteCounts, FS_EmptySet
    <3> QED
      BY <1>4, <1>5, <1>6, <2>2, <2>3, <3>1, <3>2
  <2> QED
    BY <1>5, <2>2, <2>6, <2>7, <2>8, <2>9
<1> QED
  BY <1>8, <1>9, <1>10, <1>11

\* An abandoned task stays counted although nobody runs it.
LEMMA AbandonStep ==
  ASSUME IInv, NEW w \in Worker, Abandon(w)
  PROVE  (Counts /\ Maps /\ Bounded /\ Exact)'
<1> USE CallerAssumption
<1>1. TypeOK /\ running' = [running EXCEPT ![w] = NoTask] /\ tracker' = tracker
  BY DEF Abandon, IInv
<1>2. \A ten \in Tenant : RunningFor(ten)' \in SUBSET RunningFor(ten)
  BY <1>1 DEF RunningFor, TypeOK
<1>3. \A ten \in Tenant : /\ Cardinality(RunningFor(ten))' <= Cardinality(RunningFor(ten))
                          /\ Cardinality(RunningFor(ten))' \in Nat
  BY <1>2, FiniteCounts, FS_Subset, FS_CardinalityType
<1>4. tracker.tenant_usage \in [Tenant -> Nat]
  BY <1>1 DEF TypeOK, TrackerState
<1>5. Counts'
  BY <1>1, <1>3, <1>4, FiniteCounts, TrackerAssumption DEF IInv, Counts
<1>6. Maps' /\ Bounded'
  BY <1>1 DEF IInv, Maps, Bounded
<1>7. abandons' # 0
  BY <1>1 DEF Abandon, TypeOK
<1> QED
  BY <1>5, <1>6, <1>7 DEF Exact

LEMMA InvStep == IInv /\ [Next]_vars => IInv'
<1> SUFFICES ASSUME IInv, [Next]_vars PROVE IInv'
  OBVIOUS
<1>1. TypeOK'
  BY TypeStep DEF IInv
<1>2. OneThing'
  BY DEF IInv, OneThing, TypeOK, Next, vars, Idle, CanStartTask, StartTask,
         StartRefused, EndTask, Abandon
<1>3. (Counts /\ Maps /\ Bounded /\ Exact)'
  <2>1. ASSUME NEW w \in Worker, NEW t \in Task, CanStartTask(w, t)
        PROVE  (Counts /\ Maps /\ Bounded /\ Exact)'
    BY <2>1, QuietStep DEF CanStartTask
  <2>2. ASSUME NEW w \in Worker, StartRefused(w)
        PROVE  (Counts /\ Maps /\ Bounded /\ Exact)'
    BY <2>2, QuietStep DEF StartRefused
  <2>3. CASE UNCHANGED vars
    BY <2>3, QuietStep DEF vars
  <2> QED
    BY <2>1, <2>2, <2>3, StartStep, EndStep, AbandonStep DEF Next
<1> QED
  BY <1>1, <1>2, <1>3 DEF IInv

LEMMA Invariance == Spec => []IInv
BY InitIInv, InvStep, PTL DEF Spec

\* Type correctness of the tracker and its callers.
THEOREM TypeCorrect == Spec => []TypeOK
<1>1. IInv => TypeOK
  BY DEF IInv
<1> QED
  BY <1>1, Invariance, PTL

\* Whatever the callers do wrong, a tenant's limit bounds the workers that are
\* running its tasks.
THEOREM TenantCapHolds == Spec => []TenantCap
<1>1. IInv => TenantCap
  BY FiniteCounts, TrackerAssumption
     DEF IInv, Counts, TenantCap, TypeOK, TrackerState
<1> QED
  BY <1>1, Invariance, PTL

\* Until a task is started twice or abandoned, the tracker is an exact image of the
\* work in progress and the global limit bounds it.
THEOREM ExactnessHolds == Spec => []ExactWhenUndisturbed
<1>1. IInv => ExactWhenUndisturbed
  <2> SUFFICES ASSUME IInv, ~ overlapped /\ abandons = 0
               PROVE  /\ tracker.active_tasks = RunningTasks
                      /\ \A ten \in Tenant :
                            tracker.tenant_usage[ten] = Cardinality(RunningFor(ten))
                      /\ \A t \in Task : tracker.task_tenant_map[t] =
                                  IF t \in RunningTasks THEN TenantOf[t] ELSE NoTenant
                      /\ Cardinality(Busy) <= MaxConcurrent
    BY DEF ExactWhenUndisturbed, Busy
  <2> QED
    BY DEF IInv, Exact, Maps, Bounded
<1> QED
  BY <1>1, Invariance, PTL
===============================================================================
