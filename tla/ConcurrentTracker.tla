--------------------------- MODULE ConcurrentTracker ---------------------------
(***************************************************************************)
(* The tracker of one worker process together with the coroutines that     *)
(* call it (FormAgent.run_once in src/apps/worker/agent.py): each worker   *)
(* peeks with can_start_task, starts its task, and later either ends it or *)
(* abandons it - an exception raised between start_task and the try block  *)
(* of run_once skips end_task.                                             *)
(*                                                                         *)
(* Which task a worker is handed is left open: claim_next_prioritized may  *)
(* hand out a task another worker of the process still runs, once the row  *)
(* lock is ten minutes old.  FormAgent composes the real claim.            *)
(***************************************************************************)
EXTENDS TrackerOps

CONSTANTS
  Worker,          \* worker coroutines of the process
  NoTask,          \* no task in hand
  TenantOf,        \* the tenant (or NoTenant) of each task: a column of its row
  MaxAbandons      \* bound: exceptions that skip end_task

ASSUME CallerAssumption ==
  /\ IsFiniteSet(Worker)
  /\ NoTask \notin Task
  /\ TenantOf \in [Task -> Tenant \cup {NoTenant}]
  /\ MaxAbandons \in Nat

VARIABLES
  tracker,         \* the state of the ConcurrentUsageTracker
  peeked,          \* peeked[w]: the task for which can_start_task said yes
  running,         \* running[w]: the task w started and has not left
  overlapped,      \* history: a task was started while a worker was running it
  abandons         \* history: number of tasks left without end_task

vars == <<tracker, peeked, running, overlapped, abandons>>

Init ==
  /\ tracker = FreshTracker
  /\ peeked = [w \in Worker |-> NoTask]
  /\ running = [w \in Worker |-> NoTask]
  /\ overlapped = FALSE
  /\ abandons = 0

Idle(w) == peeked[w] = NoTask /\ running[w] = NoTask

\* can_start_task(tenant): only looks; the lock is released before start_task.
CanStartTask(w, t) ==
  /\ Idle(w)
  /\ CanStart(tracker, TenantOf[t])
  /\ peeked' = [peeked EXCEPT ![w] = t]
  /\ UNCHANGED <<tracker, running, overlapped, abandons>>

\* Mutant of StartTask: the answer of can_start_task is trusted, the check is not
\* repeated under the lock.
StartTaskUnchecked(w) ==
  LET t == peeked[w] IN
  /\ t # NoTask
  /\ tracker' = Started(tracker, t, TenantOf[t])
  /\ running' = [running EXCEPT ![w] = t]
  /\ peeked' = [peeked EXCEPT ![w] = NoTask]
  /\ overlapped' = (overlapped \/ \E v \in Worker : running[v] = t)
  /\ UNCHANGED abandons

\* start_task checks again, under the same lock as the update.
StartTask(w) ==
  LET t == peeked[w] IN
  /\ t # NoTask
  /\ CanStart(tracker, TenantOf[t])
  /\ tracker' = Started(tracker, t, TenantOf[t])
  /\ running' = [running EXCEPT ![w] = t]
  /\ peeked' = [peeked EXCEPT ![w] = NoTask]
  /\ overlapped' = (overlapped \/ \E v \in Worker : running[v] = t)
  /\ UNCHANGED abandons

\* The limit was reached since the peek: start_task returns False and the worker
\* gives the task back.
StartRefused(w) ==
  /\ peeked[w] # NoTask
  /\ ~ CanStart(tracker, TenantOf[peeked[w]])
  /\ peeked' = [peeked EXCEPT ![w] = NoTask]
  /\ UNCHANGED <<tracker, running, overlapped, abandons>>

\* end_task, from the finally block of run_once.
EndTask(w) ==
  /\ running[w] # NoTask
  /\ tracker' = Ended(tracker, running[w])
  /\ running' = [running EXCEPT ![w] = NoTask]
  /\ UNCHANGED <<peeked, overlapped, abandons>>

\* An exception before the try block of run_once: the worker goes on to its next
\* task and end_task is never called for this one.
Abandon(w) ==
  /\ running[w] # NoTask
  /\ abandons < MaxAbandons
  /\ running' = [running EXCEPT ![w] = NoTask]
  /\ abandons' = abandons + 1
  /\ UNCHANGED <<tracker, peeked, overlapped>>

Next ==
  \E w \in Worker :
    \/ \E t \in Task : CanStartTask(w, t)
    \/ StartTask(w)
    \/ StartRefused(w)
    \/ EndTask(w)
    \/ Abandon(w)

Spec == Init /\ [][Next]_vars

-------------------------------------------------------------------------------
\* The workers that are running a task of tenant ten.
RunningFor(ten) == {w \in Worker : running[w] # NoTask /\ TenantOf[running[w]] = ten}

RunningTasks == {running[w] : w \in Worker} \ {NoTask}

\* Every variable has its type.
TypeOK ==
  /\ tracker \in TrackerState
  /\ peeked \in [Worker -> Task \cup {NoTask}]
  /\ running \in [Worker -> Task \cup {NoTask}]
  /\ overlapped \in BOOLEAN
  /\ abandons \in 0..MaxAbandons

\* The limit start_task enforces is one on actual work: however tasks are started
\* twice, ended twice or abandoned, never more than MaxPerTenant workers of the
\* process are running tasks of one tenant.
TenantCap ==
  \A ten \in Tenant : Cardinality(RunningFor(ten)) <= MaxPerTenant

\* As long as no task was started twice at once and none was abandoned, the
\* tracker's three structures describe exactly what the workers are doing, and so
\* the global limit is one on actual work too.
ExactWhenUndisturbed ==
  ~ overlapped /\ abandons = 0 =>
    /\ tracker.active_tasks = RunningTasks
    /\ \A ten \in Tenant : tracker.tenant_usage[ten] = Cardinality(RunningFor(ten))
    /\ \A t \in Task : tracker.task_tenant_map[t] =
                         IF t \in RunningTasks THEN TenantOf[t] ELSE NoTenant
    /\ Cardinality({w \in Worker : running[w] # NoTask}) <= MaxConcurrent
===============================================================================
