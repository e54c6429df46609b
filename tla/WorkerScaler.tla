------------------------------ MODULE WorkerScaler ------------------------------
(***************************************************************************)
(* The life of a worker process: WorkerScaler of apps/worker/scaling.py    *)
(* opens the connection pools and the browser, starts the worker tasks and *)
(* shuts all of it down on a signal; the process is either that module's   *)
(* main or the deployed one of apps/worker/startup.py.                     *)
(*                                                                         *)
(* One thread, so what the coroutines do between two awaits is one step.   *)
(* A signal may arrive at any time after start was called, also before the *)
(* pools are there, and a second one while the first is being handled.     *)
(*                                                                         *)
(* run_once (module FormAgent) is reduced to what it does to the pool: it  *)
(* acquires a connection and, inside, at most a second one                 *)
(* (_handle_success and _handle_failure send their alerts that way).       *)
(***************************************************************************)
EXTENDS Integers, FiniteSets

CONSTANTS
  Worker,         \* the worker tasks of the process
  Signal,         \* SIGINT or SIGTERM, each of which runs shutdown once
  Own,            \* the run of shutdown that main itself awaits
  PoolSize        \* db_pool_max

Pool == {"primary", "read", "enterprise"}
Resource == Pool \cup {"browser"}
Run == Signal \cup {Own}

ASSUME ScalerAssumption == IsFiniteSet(Worker) /\ Own \notin Signal

\* shared/config.py: pools of 25 connections, processes of one or two workers.
ASSUME PoolAssumption == PoolSize \in Nat /\ Cardinality(Worker) < PoolSize

VARIABLES
  entry,          \* which main: of "startup" or of "scaling"
  main,           \* where it is
  failed,         \* start raised an exception
  field,          \* attributes of the scaler that are not None
  open,           \* what is really open
  tasks,          \* WorkerScaler._tasks
  worker,         \* where each worker task is
  shutdown,       \* WorkerScaler._shutdown (and the flag of startup.py)
  stopping,       \* where each run of shutdown is; at a resource: closing it
  outer, inner,   \* workers that hold a connection of the primary pool, and a second one
  asking          \* workers that wait for one

connections == <<outer, inner, asking>>
vars == <<entry, main, failed, field, open, tasks, worker, shutdown, stopping, connections>>

Init ==
  /\ entry \in {"startup", "scaling"}
  /\ main = "primary"
  /\ failed = FALSE
  /\ field = {} /\ open = {}
  /\ tasks = {}
  /\ worker = [w \in Worker |-> "none"]
  /\ shutdown = FALSE
  /\ stopping = [k \in Run |-> "off"]
  /\ outer = {} /\ inner = {} /\ asking = {}

-------------------------------------------------------------------------------
\* start
Starting == main \in Pool \cup {"browser", "health"}

\* The next await of start after a pool.
After(r) == IF r = "primary" THEN "read" ELSE IF r = "read" THEN "enterprise" ELSE "browser"

\* A pool is there, or is not configured (the primary one always is).  After the last of
\* them the attribute for the browser is set, before the browser is started.
OpenPool ==
  /\ main \in Pool
  /\ \E got \in {{}, {main}} :
       /\ main = "primary" => got # {}
       /\ open' = open \cup got
       /\ field' = field \cup got \cup (IF main = "enterprise" THEN {"browser"} ELSE {})
  /\ main' = After(main)
  /\ UNCHANGED <<entry, failed, tasks, worker, shutdown, stopping, connections>>

\* The browser is up; the health check is called on the attribute, which a quick shutdown
\* has set to None.
StartBrowser ==
  /\ main = "browser"
  /\ open' = open \cup {"browser"}
  /\ IF "browser" \in field
     THEN main' = "health" /\ UNCHANGED failed
     ELSE main' = "leaving" /\ failed' = TRUE
  /\ UNCHANGED <<entry, field, tasks, worker, shutdown, stopping, connections>>

\* The browser is healthy: the tasks are created, and the line that logs it reads
\* attributes of the pool and of the browser, which are None if a shutdown was quick.
Launch ==
  /\ main = "health" /\ "browser" \in open
  /\ tasks' = Worker
  /\ worker' = [w \in Worker |-> "idle"]
  /\ IF {"primary", "browser"} \subseteq field
     THEN main' = "waiting" /\ UNCHANGED failed
     ELSE main' = "leaving" /\ failed' = TRUE
  /\ UNCHANGED <<entry, field, open, shutdown, stopping, connections>>

\* No database, no browser, or one that is not healthy: start raises.
StartFails ==
  /\ Starting
  /\ main' = "leaving" /\ failed' = TRUE
  /\ UNCHANGED <<entry, field, open, tasks, worker, shutdown, stopping, connections>>

-------------------------------------------------------------------------------
\* _worker_loop and run_once

\* Mutant of Take: the loop only looks at the pool.
TakeUnlessClosed(w) ==
  /\ worker[w] = "idle"
  /\ worker' = [worker EXCEPT ![w] = IF "primary" \notin field THEN "done" ELSE "run"]
  /\ UNCHANGED <<entry, main, failed, field, open, tasks, shutdown, stopping, connections>>

\* The top of the loop, for a task that has just begun, or slept, or gone on at once.
Take(w) ==
  /\ worker[w] = "idle"
  /\ worker' = [worker EXCEPT ![w] = IF shutdown \/ "primary" \notin field THEN "done" ELSE "run"]
  /\ UNCHANGED <<entry, main, failed, field, open, tasks, shutdown, stopping, connections>>

\* Mutant of Ask: what is called with two connections acquires a third.
AskThird(w) ==
  /\ worker[w] = "run" /\ w \notin asking
  /\ asking' = asking \cup {w}
  /\ UNCHANGED <<entry, main, failed, field, open, tasks, worker, shutdown, stopping, outer, inner>>

\* pool.acquire(), without a timeout.
Ask(w) ==
  /\ worker[w] = "run" /\ w \notin asking \cup inner
  /\ asking' = asking \cup {w}
  /\ UNCHANGED <<entry, main, failed, field, open, tasks, worker, shutdown, stopping, outer, inner>>

InUse == Cardinality(outer) + Cardinality(inner)

Acquire(w) ==
  /\ w \in asking /\ InUse < PoolSize
  /\ asking' = asking \ {w}
  /\ IF w \in outer THEN inner' = inner \cup {w} /\ UNCHANGED outer
                    ELSE outer' = outer \cup {w} /\ UNCHANGED inner
  /\ UNCHANGED <<entry, main, failed, field, open, tasks, worker, shutdown, stopping>>

\* The end of an async with block.
Release(w) ==
  /\ worker[w] = "run" /\ w \in outer \ asking
  /\ IF w \in inner THEN inner' = inner \ {w} /\ UNCHANGED outer
                    ELSE outer' = outer \ {w} /\ UNCHANGED inner
  /\ UNCHANGED <<entry, main, failed, field, open, tasks, worker, shutdown, stopping, asking>>

\* run_once returns or raises; the task sleeps, or goes on at once.
EndRun(w) ==
  /\ worker[w] = "run" /\ w \notin outer \cup asking
  /\ worker' = [worker EXCEPT ![w] = "idle"]
  /\ UNCHANGED <<entry, main, failed, field, open, tasks, shutdown, stopping, connections>>

\* Mutant of Unwound: what was cancelled while it waited is still in line.
UnwoundAsking(w) ==
  /\ worker[w] = "unwinding"
  /\ worker' = [worker EXCEPT ![w] = "done"]
  /\ outer' = outer \ {w} /\ inner' = inner \ {w}
  /\ UNCHANGED <<entry, main, failed, field, open, tasks, shutdown, stopping, asking>>

\* A cancelled run_once is through with its finally blocks.
Unwound(w) ==
  /\ worker[w] = "unwinding"
  /\ worker' = [worker EXCEPT ![w] = "done"]
  /\ outer' = outer \ {w} /\ inner' = inner \ {w} /\ asking' = asking \ {w}
  /\ UNCHANGED <<entry, main, failed, field, open, tasks, shutdown, stopping>>

\* task.cancel(): CancelledError at the await of a run, or instead of the next step.
Cancelled(ws) ==
  [w \in Worker |-> IF w \notin ws THEN worker[w]
                    ELSE IF worker[w] \in {"run", "unwinding"} THEN "unwinding" ELSE "done"]

-------------------------------------------------------------------------------
\* shutdown
Order == [r \in Resource |-> IF r = "browser" THEN 1 ELSE IF r = "primary" THEN 2
                             ELSE IF r = "read" THEN 3 ELSE 4]

\* Where shutdown goes on: at the first of the resources rs, or nowhere.
ClosesNext(rs) ==
  IF rs = {} THEN "done" ELSE CHOOSE r \in rs : \A q \in rs : Order[r] <= Order[q]

\* Mutant of BeginStop: the tasks are told by the flag alone.
BeginStopNoCancel(k) ==
  IF shutdown /\ tasks = {}
  THEN stopping' = [stopping EXCEPT ![k] = "done"] /\ UNCHANGED <<shutdown, worker>>
  ELSE /\ shutdown' = TRUE
       /\ UNCHANGED worker
       /\ stopping' = [stopping EXCEPT ![k] = IF tasks = {} THEN ClosesNext(field) ELSE "gather"]

\* Mutant of BeginStop: a shutdown that has begun is taken for one that is over.
BeginStopOnce(k) ==
  IF shutdown
  THEN stopping' = [stopping EXCEPT ![k] = "done"] /\ UNCHANGED <<shutdown, worker>>
  ELSE /\ shutdown' = TRUE
       /\ worker' = Cancelled(tasks)
       /\ stopping' = [stopping EXCEPT ![k] = IF tasks = {} THEN ClosesNext(field) ELSE "gather"]

\* Up to the first await: nothing if it was done already; else the tasks are cancelled and
\* gathered (of no tasks, gather does not wait).
BeginStop(k) ==
  IF shutdown /\ tasks = {}
  THEN stopping' = [stopping EXCEPT ![k] = "done"] /\ UNCHANGED <<shutdown, worker>>
  ELSE /\ shutdown' = TRUE
       /\ worker' = Cancelled(tasks)
       /\ stopping' = [stopping EXCEPT ![k] = IF tasks = {} THEN ClosesNext(field) ELSE "gather"]

\* A signal handler: the event loop runs it while main is at an await.
Signalled(k) ==
  /\ stopping[k] = "off" /\ main \notin {"leaving", "cancelling", "exit"}
  /\ BeginStop(k)
  /\ UNCHANGED <<entry, main, failed, field, open, tasks, connections>>

\* All tasks are over.  The event wakes scaling's main before that: a task takes one turn
\* of the event loop longer to be cancelled and gathered than main to be woken.
Gathered(k) ==
  /\ stopping[k] = "gather" /\ \A w \in Worker : worker[w] = "done"
  /\ ~ (entry = "scaling" /\ main = "waiting")
  /\ tasks' = {}
  /\ stopping' = [stopping EXCEPT ![k] = ClosesNext(field)]
  /\ UNCHANGED <<entry, main, failed, field, open, worker, shutdown, connections>>

\* The resource is closed, its attribute None; on to the next one that is not None.
Closed(k) ==
  /\ stopping[k] \in Resource
  /\ open' = open \ {stopping[k]}
  /\ field' = field \ {stopping[k]}
  /\ stopping' = [stopping EXCEPT ![k] =
                    ClosesNext({r \in field : Order[r] > Order[stopping[k]]})]
  /\ UNCHANGED <<entry, main, failed, tasks, worker, shutdown, connections>>

-------------------------------------------------------------------------------
\* The two mains.

\* startup.py polls the flag once a second and returns.
SeesFlag ==
  /\ entry = "startup" /\ main = "waiting" /\ shutdown
  /\ main' = "leaving"
  /\ UNCHANGED <<entry, failed, field, open, tasks, worker, shutdown, stopping, connections>>

\* scaling.py waits for the event and then for a shutdown of its own.
OwnStop ==
  /\ entry = "scaling" /\ main = "waiting" /\ shutdown
  /\ main' = "stopping"
  /\ BeginStop(Own)
  /\ UNCHANGED <<entry, failed, field, open, tasks, connections>>

OwnStopDone ==
  /\ main = "stopping" /\ stopping[Own] = "done"
  /\ main' = "leaving"
  /\ UNCHANGED <<entry, failed, field, open, tasks, worker, shutdown, stopping, connections>>

\* asyncio.run cancels every task that is left, the runs of shutdown among them, waits for
\* all of them, and the process ends.
CancelAll ==
  /\ main = "leaving"
  /\ main' = "cancelling"
  /\ worker' = Cancelled({w \in Worker : worker[w] # "none"})
  /\ stopping' = [k \in Run |-> IF stopping[k] = "off" THEN "off" ELSE "done"]
  /\ UNCHANGED <<entry, failed, field, open, tasks, shutdown, connections>>

Exit ==
  /\ main = "cancelling" /\ \A w \in Worker : worker[w] \in {"none", "done"}
  /\ main' = "exit"
  /\ UNCHANGED <<entry, failed, field, open, tasks, worker, shutdown, stopping, connections>>

-------------------------------------------------------------------------------
Main == OpenPool \/ StartBrowser \/ Launch \/ StartFails \/ SeesFlag \/ OwnStop \/ OwnStopDone
        \/ CancelAll \/ Exit
RunOnce(w) == Ask(w) \/ Acquire(w) \/ Release(w) \/ EndRun(w)
Stop(k) == Gathered(k) \/ Closed(k)

Next ==
  \/ Main
  \/ \E w \in Worker : Take(w) \/ RunOnce(w) \/ Unwound(w)
  \/ \E k \in Signal : Signalled(k)
  \/ \E k \in Run : Stop(k)

Spec == Init /\ [][Next]_vars

\* The event loop gets to every coroutine that is ready; a cancelled run comes to its end.
\* A run that is not cancelled may take as long as it likes.
FairSpec ==
  /\ Spec
  /\ WF_vars(Main)
  /\ \A k \in Run : WF_vars(Stop(k))
  /\ \A w \in Worker : WF_vars(Take(w)) /\ WF_vars(Unwound(w))

-------------------------------------------------------------------------------
WorkerState == {"none", "idle", "run", "unwinding", "done"}
MainState == Pool \cup {"browser", "health", "waiting", "stopping", "leaving", "cancelling", "exit"}

Working == {w \in Worker : worker[w] \in {"run", "unwinding"}}

\* Every variable has its type; only a task in run_once has or awaits a connection.
TypeOK ==
  /\ entry \in {"startup", "scaling"}
  /\ main \in MainState
  /\ failed \in BOOLEAN /\ shutdown \in BOOLEAN
  /\ field \subseteq Resource /\ open \subseteq Resource
  /\ tasks \in {{}, Worker}
  /\ worker \in [Worker -> WorkerState]
  /\ stopping \in [Run -> Resource \cup {"off", "gather", "done"}]
  /\ outer \cup asking \subseteq Working
  /\ inner \subseteq outer

\* No task is in run_once, or still in its finally blocks, when the pool it uses or the
\* browser is closed, whenever the signals come - also in the middle of start, when a
\* shutdown closes what is there and start goes on to create the tasks.
NeverClosedUnderWork == Working # {} => {"primary", "browser"} \subseteq open

\* scaling.py's main, if start succeeds, exits with everything closed, whatever part of it
\* was closed by the signals' own runs of shutdown and however they overlap.
ClosesEverything ==
  entry = "scaling" /\ main = "exit" /\ ~ failed => open = {}

\* Connections are held while others are awaited, without a timeout; but the workers never
\* all wait for each other: one that holds a connection can go on, or there is a free one.
PoolNotStuck == asking # {} => (outer \ asking # {} \/ InUse < PoolSize)

\* A process that was told to stop ends, however busy its workers are.
Ends == shutdown ~> (main = "exit")
===============================================================================
