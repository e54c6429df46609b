--------------------------- MODULE WorkerScalerProofs ---------------------------
(***************************************************************************)
(* Theorems about WorkerScaler, for any number of workers and signals.     *)
(***************************************************************************)
EXTENDS WorkerScaler, FiniteSetTheorems, TLAPS

\* A shutdown goes on at a resource it was given, or is done.
LEMMA ClosesNextType ==
  ASSUME NEW rs \in SUBSET Resource
  PROVE  ClosesNext(rs) \in Resource \cup {"done"}
<1>1. CASE rs = {} BY <1>1 DEF ClosesNext
<1>2. CASE rs # {}
  <2>1. \E r \in rs : \A q \in rs : Order[r] <= Order[q]
    <3>1. CASE "browser" \in rs BY <3>1 DEF Order, Resource, Pool
    <3>2. CASE "browser" \notin rs /\ "primary" \in rs BY <3>2 DEF Order, Resource, Pool
    <3>3. CASE "browser" \notin rs /\ "primary" \notin rs /\ "read" \in rs
      BY <3>3 DEF Order, Resource, Pool
    <3>4. CASE rs = {"enterprise"} BY <3>4 DEF Order, Resource, Pool
    <3> QED BY <1>2, <3>1, <3>2, <3>3, <3>4 DEF Resource, Pool
  <2> QED BY <1>2, <2>1 DEF ClosesNext
<1> QED BY <1>1, <1>2

LEMMA CancelledType ==
  ASSUME worker \in [Worker -> WorkerState], NEW ws
  PROVE  /\ Cancelled(ws) \in [Worker -> WorkerState]
         /\ \A w \in Worker : /\ Cancelled(ws)[w] \in {"run", "unwinding"}
                                   <=> worker[w] \in {"run", "unwinding"}
                              /\ w \in ws => Cancelled(ws)[w] # "run"
BY DEF Cancelled, WorkerState

\* What BeginStop does, whichever of its cases it takes.
LEMMA BeginStopEffect ==
  ASSUME TypeOK, NEW k \in Run, BeginStop(k)
  PROVE  /\ worker' \in [Worker -> WorkerState]
         /\ \A w \in Worker : worker'[w] \in {"run", "unwinding"} <=> worker[w] \in {"run", "unwinding"}
         /\ stopping' \in [Run -> Resource \cup {"off", "gather", "done"}]
         /\ shutdown' = TRUE
<1>1. CASE shutdown /\ tasks = {} BY <1>1 DEF BeginStop, TypeOK
<1>2. CASE ~ (shutdown /\ tasks = {})
  <2>1. ClosesNext(field) \in Resource \cup {"done"} BY ClosesNextType DEF TypeOK
  <2>2. worker' = Cancelled(tasks) /\ shutdown' = TRUE BY <1>2 DEF BeginStop
  <2>3. stopping' = [stopping EXCEPT ![k] = IF tasks = {} THEN ClosesNext(field) ELSE "gather"]
    BY <1>2 DEF BeginStop
  <2> QED BY <2>1, <2>2, <2>3, CancelledType DEF TypeOK
<1> QED BY <1>1, <1>2

\* There are no tasks before start is through; so none of them has a connection.
NoneYet == Starting => tasks = {} /\ \A w \in Worker : worker[w] = "none"

LEMMA NoneYetStep == TypeOK /\ NoneYet /\ [Next]_vars => NoneYet'
<1> SUFFICES ASSUME TypeOK, NoneYet, [Next]_vars PROVE NoneYet'
  OBVIOUS
<1>1. CASE OpenPool \/ StartBrowser
  BY <1>1 DEF OpenPool, StartBrowser, NoneYet, Starting
<1>2. CASE Launch \/ StartFails \/ SeesFlag \/ OwnStop \/ OwnStopDone \/ CancelAll \/ Exit
  BY <1>2 DEF Launch, StartFails, SeesFlag, OwnStop, OwnStopDone, CancelAll, Exit, NoneYet,
              Starting, Pool
<1>3. ASSUME NEW w \in Worker, Take(w) \/ RunOnce(w) \/ Unwound(w) PROVE NoneYet'
  BY <1>3 DEF Take, RunOnce, Ask, Acquire, Release, EndRun, Unwound, NoneYet, Starting, TypeOK
<1>4. ASSUME NEW k \in Signal, Signalled(k) PROVE NoneYet'
  BY <1>4 DEF Signalled, BeginStop, Cancelled, NoneYet, Starting
<1>5. ASSUME NEW k \in Run, Stop(k) PROVE NoneYet'
  BY <1>5 DEF Stop, Gathered, Closed, NoneYet, Starting
<1>6. CASE UNCHANGED vars BY <1>6 DEF vars, NoneYet, Starting
<1> QED BY <1>1, <1>2, <1>3, <1>4, <1>5, <1>6 DEF Next, Main

LEMMA TypeInit == Init => TypeOK /\ NoneYet
BY DEF Init, TypeOK, MainState, Pool, WorkerState, Working, NoneYet

LEMMA TypeStep == TypeOK /\ NoneYet /\ [Next]_vars => TypeOK'
<1> SUFFICES ASSUME TypeOK, NoneYet, [Next]_vars PROVE TypeOK'
  OBVIOUS
<1> USE DEF connections
<1>1. CASE OpenPool
  BY <1>1 DEF OpenPool, TypeOK, After, Pool, Resource, MainState, Working
<1>2. CASE StartBrowser
  BY <1>2 DEF StartBrowser, TypeOK, Resource, MainState, Working
<1>3. CASE Launch \/ StartFails \/ SeesFlag \/ OwnStopDone \/ Exit
  <2>1. CASE Launch
    <3>1. Working = {} BY <2>1 DEF Launch, NoneYet, Starting, Working
    <3> QED BY <2>1, <3>1 DEF Launch, TypeOK, MainState, WorkerState
  <2>2. CASE StartFails BY <2>2 DEF StartFails, TypeOK, MainState, Working
  <2>3. CASE SeesFlag BY <2>3 DEF SeesFlag, TypeOK, MainState, Working
  <2>4. CASE OwnStopDone BY <2>4 DEF OwnStopDone, TypeOK, MainState, Working
  <2>5. CASE Exit BY <2>5 DEF Exit, TypeOK, MainState, Working
  <2> QED BY <1>3, <2>1, <2>2, <2>3, <2>4, <2>5
<1>4. CASE OwnStop
  <2>1. BeginStop(Own) /\ Own \in Run BY <1>4 DEF OwnStop, Run
  <2>2. Working' = Working BY <2>1, BeginStopEffect DEF Working
  <2> QED BY <1>4, <2>1, <2>2, BeginStopEffect DEF OwnStop, TypeOK, MainState
<1>5. CASE CancelAll
  <2>1. worker' \in [Worker -> WorkerState] /\ Working' = Working
    BY <1>5, CancelledType DEF CancelAll, TypeOK, Working
  <2> QED BY <1>5, <2>1 DEF CancelAll, TypeOK, MainState
<1>6. ASSUME NEW w \in Worker, Take(w) PROVE TypeOK'
  BY <1>6 DEF Take, TypeOK, WorkerState, Working
<1>7. ASSUME NEW w \in Worker, RunOnce(w) PROVE TypeOK'
  <2>1. CASE Ask(w) BY <2>1 DEF Ask, TypeOK, Working
  <2>2. CASE Acquire(w) BY <2>2 DEF Acquire, TypeOK, Working
  <2>3. CASE Release(w) BY <2>3 DEF Release, TypeOK, Working
  <2>4. CASE EndRun(w) BY <2>4 DEF EndRun, TypeOK, WorkerState, Working
  <2> QED BY <1>7, <2>1, <2>2, <2>3, <2>4 DEF RunOnce
<1>8. ASSUME NEW w \in Worker, Unwound(w) PROVE TypeOK'
  BY <1>8 DEF Unwound, TypeOK, WorkerState, Working
<1>9. ASSUME NEW k \in Signal, Signalled(k) PROVE TypeOK'
  <2>1. BeginStop(k) /\ k \in Run BY <1>9 DEF Signalled, Run
  <2>2. Working' = Working BY <2>1, BeginStopEffect DEF Working
  <2> QED BY <1>9, <2>1, <2>2, BeginStopEffect DEF Signalled, TypeOK
<1>10. ASSUME NEW k \in Run, Gathered(k) PROVE TypeOK'
  <2>1. ClosesNext(field) \in Resource \cup {"done"} BY ClosesNextType DEF TypeOK
  <2> QED BY <1>10, <2>1 DEF Gathered, TypeOK, Working
<1>11. ASSUME NEW k \in Run, Closed(k) PROVE TypeOK'
  <2> DEFINE next == ClosesNext({r \in field : Order[r] > Order[stopping[k]]})
  <2>1. next \in Resource \cup {"done"} BY ClosesNextType DEF TypeOK
  <2>2. stopping' = [stopping EXCEPT ![k] = next] BY <1>11 DEF Closed
  <2>3. field' \subseteq Resource /\ open' \subseteq Resource BY <1>11 DEF Closed, TypeOK
  <2> HIDE DEF next
  <2> QED BY <1>11, <2>1, <2>2, <2>3 DEF Closed, TypeOK, Working
<1>12. CASE UNCHANGED vars BY <1>12 DEF vars, TypeOK, Working
<1> QED BY <1>1, <1>2, <1>3, <1>4, <1>5, <1>6, <1>7, <1>8, <1>9, <1>10, <1>11, <1>12
        DEF Next, Main, Stop

\* Every variable of the process keeps its type, and connections are with tasks in run_once.
THEOREM TypeCorrect == Spec => []TypeOK
BY TypeInit, TypeStep, NoneYetStep, PTL DEF Spec

-------------------------------------------------------------------------------
\* run_once is at most two connections deep.
TwoDeep == asking \cap inner = {}

LEMMA TwoDeepStep == TypeOK /\ TwoDeep /\ [Next]_vars => TwoDeep'
<1> SUFFICES ASSUME TypeOK, TwoDeep, [Next]_vars PROVE TwoDeep'
  OBVIOUS
<1>1. ASSUME NEW w \in Worker, RunOnce(w) \/ Unwound(w) \/ Take(w) PROVE TwoDeep'
  BY <1>1 DEF RunOnce, Ask, Acquire, Release, EndRun, Unwound, Take, TwoDeep, connections
<1>2. CASE UNCHANGED connections BY <1>2 DEF connections, TwoDeep
<1>3. CASE Main
  BY <1>2, <1>3 DEF Main, OpenPool, StartBrowser, Launch, StartFails, SeesFlag, OwnStop,
                    OwnStopDone, CancelAll, Exit
<1>4. ASSUME NEW k \in Run, Stop(k) \/ Signalled(k) PROVE TwoDeep'
  BY <1>2, <1>4 DEF Stop, Gathered, Closed, Signalled
<1>5. CASE UNCHANGED vars BY <1>2, <1>5 DEF vars
<1> QED BY <1>1, <1>3, <1>4, <1>5 DEF Next, Run

\* With more connections than workers, nested acquisitions cannot wait for each other in a
\* circle: if all that hold one wait for a second, each holds just one and one is free.
THEOREM PoolNotStuckHolds == Spec => []PoolNotStuck
<1>1. Init => TwoDeep BY DEF Init, TwoDeep
<1>2. TypeOK /\ TwoDeep => PoolNotStuck
  <2> SUFFICES ASSUME TypeOK, TwoDeep, outer \subseteq asking PROVE InUse < PoolSize
    BY DEF PoolNotStuck
  <2>1. inner = {} BY DEF TypeOK, TwoDeep
  <2>2. outer \subseteq Worker BY DEF TypeOK, Working
  <2>3. Cardinality(outer) <= Cardinality(Worker) /\ IsFiniteSet(outer)
    BY <2>2, ScalerAssumption, FS_Subset
  <2>4. Cardinality(outer) \in Nat /\ Cardinality(Worker) \in Nat
    BY <2>3, ScalerAssumption, FS_CardinalityType
  <2>5. Cardinality(inner) = 0 BY <2>1, FS_EmptySet
  <2> QED BY <2>3, <2>4, <2>5, PoolAssumption DEF InUse
<1> QED BY <1>1, <1>2, TwoDeepStep, TypeCorrect, PTL DEF Spec

-------------------------------------------------------------------------------
\* Why nothing is closed under a running task, however start and shutdown interleave:
\* a task runs only while no shutdown has begun, one that has begun before there were tasks
\* finds none to run, and one that gathers tasks goes on to close when all are done.
InOrder ==
  /\ ~ shutdown => \A k \in Run : stopping[k] = "off"
  /\ ~ shutdown /\ main \in {"read", "enterprise", "browser", "health"} => "primary" \in open
  /\ ~ shutdown /\ (\E w \in Worker : worker[w] # "none") => {"primary", "browser"} \subseteq open
  /\ (\E w \in Worker : worker[w] \in {"idle", "run", "unwinding"}) => tasks = Worker
  /\ shutdown => \A w \in Worker : worker[w] # "run"
  /\ (\E k \in Run : stopping[k] \in Resource) => Working = {}
  /\ NeverClosedUnderWork

LEMMA InOrderInit == Init => InOrder
BY DEF Init, InOrder, Working, NeverClosedUnderWork, Resource, Pool

\* A run of shutdown begins: what runs is cancelled, and only if there are no tasks does
\* it close anything at once.
LEMMA BeginStopInOrder ==
  ASSUME TypeOK, InOrder, NEW k \in Run, BeginStop(k),
         UNCHANGED <<open, tasks>>
  PROVE  InOrder'
<1>1. CASE shutdown /\ tasks = {}
  <2>1. stopping' = [stopping EXCEPT ![k] = "done"] /\ UNCHANGED <<shutdown, worker>>
    BY <1>1 DEF BeginStop
  <2>2. (\E j \in Run : stopping'[j] \in Resource) => Working' = {}
    BY <2>1 DEF InOrder, TypeOK, Resource, Pool, Working
  <2> QED BY <1>1, <2>1, <2>2 DEF InOrder, TypeOK, Working, NeverClosedUnderWork
<1>2. CASE ~ (shutdown /\ tasks = {})
  <2>1. worker' = Cancelled(tasks) /\ shutdown' = TRUE BY <1>2 DEF BeginStop
  <2>2. stopping' = [stopping EXCEPT ![k] = IF tasks = {} THEN ClosesNext(field) ELSE "gather"]
    BY <1>2 DEF BeginStop
  <2>3. Working' = Working BY <2>1, CancelledType DEF TypeOK, Working
  <2>4. \A w \in Worker : worker'[w] # "run"
    <3> SUFFICES ASSUME NEW w \in Worker, worker'[w] = "run" PROVE FALSE
      OBVIOUS
    <3>1. worker[w] = "run" /\ w \notin tasks BY <2>1 DEF Cancelled
    <3> QED BY <3>1 DEF InOrder
  <2>5. (\E w \in Worker : worker'[w] \in {"idle", "run", "unwinding"}) => tasks' = Worker
    BY <2>1 DEF InOrder, Cancelled
  <2>6. (\E j \in Run : stopping'[j] \in Resource) => Working' = {}
    <3>1. CASE tasks = {} BY <3>1, <2>3 DEF InOrder, Working
    <3>2. CASE tasks # {} BY <3>2, <2>2, <2>3 DEF InOrder, TypeOK, Resource, Pool
    <3> QED BY <3>1, <3>2
  <2>7. NeverClosedUnderWork' BY <2>3 DEF InOrder, NeverClosedUnderWork
  <2> QED BY <2>1, <2>4, <2>5, <2>6, <2>7 DEF InOrder
<1> QED BY <1>1, <1>2

LEMMA InOrderStep == TypeOK /\ InOrder /\ [Next]_vars => InOrder'
<1> SUFFICES ASSUME TypeOK, InOrder, [Next]_vars PROVE InOrder'
  OBVIOUS
<1>1. CASE OpenPool
  BY <1>1 DEF OpenPool, After, InOrder, Pool, Working, NeverClosedUnderWork
<1>2. CASE StartBrowser
  BY <1>2 DEF StartBrowser, InOrder, Pool, Working, NeverClosedUnderWork
<1>3. CASE Launch
  <2>1. Working' = {} BY <1>3 DEF Launch, Working
  <2>2. \A w \in Worker : worker'[w] = "idle" BY <1>3 DEF Launch
  <2>3. ~ shutdown => {"primary", "browser"} \subseteq open BY <1>3 DEF Launch, InOrder
  <2>4. main' \notin {"read", "enterprise", "browser", "health"} BY <1>3 DEF Launch
  <2> QED BY <1>3, <2>1, <2>2, <2>3, <2>4 DEF Launch, InOrder, NeverClosedUnderWork
<1>4. CASE StartFails \/ SeesFlag \/ OwnStopDone \/ Exit
  BY <1>4 DEF StartFails, SeesFlag, OwnStopDone, Exit, InOrder, Pool, Working,
              NeverClosedUnderWork
<1>5. CASE OwnStop
  <2>1. BeginStop(Own) /\ Own \in Run BY <1>5 DEF OwnStop, Run
  <2>2. UNCHANGED <<open, tasks>> BY <1>5 DEF OwnStop
  <2> QED BY <2>1, <2>2, BeginStopInOrder
<1>6. CASE CancelAll
  <2> DEFINE left == {w \in Worker : worker[w] # "none"}
  <2>1. worker' = Cancelled(left) /\ UNCHANGED <<open, shutdown, tasks>> BY <1>6 DEF CancelAll
  <2>2. Working' = Working BY <2>1, CancelledType DEF TypeOK, Working
  <2>3. \A w \in Worker : /\ worker'[w] # "run" /\ worker'[w] # "idle"
                          /\ worker'[w] # "none" => worker[w] # "none"
    BY <2>1 DEF Cancelled
  <2>4. main' = "cancelling" BY <1>6 DEF CancelAll
  <2>5. \A k \in Run : /\ stopping'[k] \notin Resource
                       /\ stopping[k] = "off" => stopping'[k] = "off"
    BY <1>6 DEF CancelAll, Resource, Pool
  <2>6. \A w \in Worker : worker'[w] = "unwinding" => worker[w] \in {"run", "unwinding"}
    BY <2>1 DEF Cancelled
  <2> QED BY <2>1, <2>2, <2>3, <2>4, <2>5, <2>6 DEF InOrder, NeverClosedUnderWork
<1>7. ASSUME NEW w \in Worker, Take(w) PROVE InOrder'
  <2>1. CASE shutdown \/ "primary" \notin field
    <3>1. worker' = [worker EXCEPT ![w] = "done"] /\ worker[w] = "idle"
      BY <1>7, <2>1 DEF Take
    <3>2. Working' = Working BY <3>1 DEF TypeOK, Working
    <3> QED BY <1>7, <3>1, <3>2 DEF Take, InOrder, TypeOK, NeverClosedUnderWork
  <2>2. CASE ~ (shutdown \/ "primary" \notin field)
    <3>1. worker' = [worker EXCEPT ![w] = "run"] /\ worker[w] = "idle"
      BY <1>7, <2>2 DEF Take
    <3>2. UNCHANGED <<main, open, tasks, shutdown, stopping>> BY <1>7 DEF Take
    <3>3. {"primary", "browser"} \subseteq open BY <2>2, <3>1 DEF InOrder
    <3>4. \A k \in Run : stopping[k] \notin Resource
      BY <2>2 DEF InOrder, Resource, Pool
    <3> QED BY <2>2, <3>1, <3>2, <3>3, <3>4
            DEF InOrder, TypeOK, NeverClosedUnderWork
  <2> QED BY <2>1, <2>2
<1>8. ASSUME NEW w \in Worker, RunOnce(w) PROVE InOrder'
  <2>1. CASE Ask(w) \/ Acquire(w) \/ Release(w)
    BY <2>1 DEF Ask, Acquire, Release, InOrder, Working, NeverClosedUnderWork
  <2>2. CASE EndRun(w)
    <3>1. worker' = [worker EXCEPT ![w] = "idle"] /\ worker[w] = "run" BY <2>2 DEF EndRun
    <3>2. Working' \subseteq Working BY <3>1 DEF TypeOK, Working
    <3>3. w \in Working BY <3>1 DEF Working
    <3> QED BY <2>2, <3>1, <3>2, <3>3
            DEF EndRun, InOrder, TypeOK, NeverClosedUnderWork
  <2> QED BY <1>8, <2>1, <2>2 DEF RunOnce
<1>9. ASSUME NEW w \in Worker, Unwound(w) PROVE InOrder'
  <2>1. worker' = [worker EXCEPT ![w] = "done"] /\ worker[w] = "unwinding" BY <1>9 DEF Unwound
  <2>2. Working' \subseteq Working BY <2>1 DEF TypeOK, Working
  <2> QED BY <1>9, <2>1, <2>2 DEF Unwound, InOrder, TypeOK, NeverClosedUnderWork
<1>10. ASSUME NEW k \in Signal, Signalled(k) PROVE InOrder'
  <2>1. BeginStop(k) /\ k \in Run BY <1>10 DEF Signalled, Run
  <2>2. UNCHANGED <<open, tasks>> BY <1>10 DEF Signalled
  <2> QED BY <2>1, <2>2, BeginStopInOrder
<1>11. ASSUME NEW k \in Run, Gathered(k) PROVE InOrder'
  <2>1. Working' = {} BY <1>11 DEF Gathered, Working
  <2>2. shutdown BY <1>11 DEF Gathered, InOrder
  <2>3. UNCHANGED <<main, open, worker, shutdown>> /\ tasks' = {} BY <1>11 DEF Gathered
  <2>4. \A w \in Worker : worker'[w] = "done" BY <1>11 DEF Gathered
  <2> QED BY <2>1, <2>2, <2>3, <2>4 DEF InOrder, NeverClosedUnderWork
<1>12. ASSUME NEW k \in Run, Closed(k) PROVE InOrder'
  <2>1. Working = {} BY <1>12 DEF Closed, InOrder
  <2>2. shutdown BY <1>12 DEF Closed, InOrder, Resource, Pool
  <2>3. UNCHANGED <<main, tasks, worker, shutdown>> BY <1>12 DEF Closed
  <2>4. Working' = {} BY <2>1, <2>3 DEF Working
  <2> QED BY <2>2, <2>3, <2>4 DEF InOrder, NeverClosedUnderWork
<1>13. CASE UNCHANGED vars
  BY <1>13 DEF vars, connections, InOrder, Working, NeverClosedUnderWork
<1> QED BY <1>1, <1>2, <1>3, <1>4, <1>5, <1>6, <1>7, <1>8, <1>9, <1>10, <1>11, <1>12, <1>13
        DEF Next, Main, Stop

\* For any number of workers and signals, at whatever moment of start or of another
\* shutdown they come, no pool and no browser is closed under a task that may use it.
THEOREM NeverClosedUnderWorkHolds == Spec => []NeverClosedUnderWork
<1>1. InOrder => NeverClosedUnderWork BY DEF InOrder
<1> QED BY <1>1, InOrderInit, InOrderStep, TypeCorrect, PTL DEF Spec

-------------------------------------------------------------------------------
\* An attribute that is not None stands for what is open: the pools always, the browser
\* once start is past it and was not too late.
Tracked ==
  /\ open \cap Pool = field \cap Pool
  /\ main \in Pool \cup {"browser"} => "browser" \notin open
  /\ main \notin Pool \cup {"browser"} /\ ~ failed => ("browser" \in open <=> "browser" \in field)

\* main's own shutdown has the tasks to wait for, and then closes, in order, what no other
\* run has closed before it.
OwnInTurn ==
  entry = "scaling" /\ ~ failed =>
    /\ main = "waiting" => tasks = Worker
    /\ main = "stopping" =>
         /\ stopping[Own] # "off"
         /\ stopping[Own] \in Resource => \A q \in field : Order[stopping[Own]] <= Order[q]
         /\ stopping[Own] = "done" => field = {}
    /\ main \in {"leaving", "cancelling", "exit"} => field = {}

\* A shutdown goes on at the first of the resources it was given.
LEMMA ClosesNextFirst ==
  ASSUME NEW rs \in SUBSET Resource
  PROVE  /\ ClosesNext(rs) \in Resource => \A q \in rs : Order[ClosesNext(rs)] <= Order[q]
         /\ ClosesNext(rs) = "done" => rs = {}
<1>1. CASE rs = {}
  BY <1>1
<1>2. CASE rs # {}
  <2>1. \E r \in rs : \A q \in rs : Order[r] <= Order[q]
    <3>1. CASE "browser" \in rs BY <3>1 DEF Order, Resource, Pool
    <3>2. CASE "browser" \notin rs /\ "primary" \in rs BY <3>2 DEF Order, Resource, Pool
    <3>3. CASE "browser" \notin rs /\ "primary" \notin rs /\ "read" \in rs
      BY <3>3 DEF Order, Resource, Pool
    <3>4. CASE rs = {"enterprise"} BY <3>4 DEF Order, Resource, Pool
    <3> QED BY <1>2, <3>1, <3>2, <3>3, <3>4 DEF Resource, Pool
  <2>2. ClosesNext(rs) = CHOOSE r \in rs : \A q \in rs : Order[r] <= Order[q]
    BY <1>2 DEF ClosesNext
  <2>3. ClosesNext(rs) \in rs /\ \A q \in rs : Order[ClosesNext(rs)] <= Order[q]
    BY <2>1, <2>2
  <2> QED BY <2>3 DEF Resource, Pool
<1> QED BY <1>1, <1>2

LEMMA TrackedStep == TypeOK /\ Tracked /\ [Next]_vars => Tracked'
<1> SUFFICES ASSUME TypeOK, Tracked, [Next]_vars PROVE Tracked'
  OBVIOUS
<1>1. CASE OpenPool
  <2>1. PICK got \in {{}, {main}} :
          /\ open' = open \cup got
          /\ field' = field \cup got \cup (IF main = "enterprise" THEN {"browser"} ELSE {})
    BY <1>1 DEF OpenPool
  <2>2. main \in Pool /\ main' \in Pool \cup {"browser"}
    BY <1>1 DEF OpenPool, After, Pool
  <2> QED BY <2>1, <2>2 DEF Tracked, Pool
<1>2. CASE StartBrowser BY <1>2 DEF StartBrowser, Tracked, Pool
<1>3. CASE Launch BY <1>3 DEF Launch, Tracked, Pool
<1>4. CASE StartFails BY <1>4 DEF StartFails, Tracked, Pool
<1>5. CASE SeesFlag \/ OwnStop \/ OwnStopDone \/ CancelAll \/ Exit
  BY <1>5 DEF SeesFlag, OwnStop, OwnStopDone, CancelAll, Exit, Tracked, Pool
<1>6. ASSUME NEW w \in Worker, Take(w) \/ RunOnce(w) \/ Unwound(w) PROVE Tracked'
  BY <1>6 DEF Take, RunOnce, Ask, Acquire, Release, EndRun, Unwound, Tracked
<1>7. ASSUME NEW k \in Run, Signalled(k) \/ Gathered(k) PROVE Tracked'
  BY <1>7 DEF Signalled, Gathered, Tracked
<1>8. ASSUME NEW k \in Run, Closed(k) PROVE Tracked'
  BY <1>8 DEF Closed, Tracked
<1>9. CASE UNCHANGED vars BY <1>9 DEF vars, Tracked
<1> QED BY <1>1, <1>2, <1>3, <1>4, <1>5, <1>6, <1>7, <1>8, <1>9 DEF Next, Main, Stop, Run

LEMMA OwnInTurnStep ==
  ASSUME Worker # {}
  PROVE  TypeOK /\ Tracked /\ OwnInTurn /\ [Next]_vars => OwnInTurn'
<1> SUFFICES ASSUME TypeOK, Tracked, OwnInTurn, [Next]_vars PROVE OwnInTurn'
  OBVIOUS
<1>1. CASE OpenPool
  BY <1>1 DEF OpenPool, After, Pool, OwnInTurn
<1>2. CASE StartBrowser BY <1>2 DEF StartBrowser, OwnInTurn
<1>3. CASE Launch BY <1>3 DEF Launch, OwnInTurn
<1>4. CASE StartFails \/ SeesFlag BY <1>4 DEF StartFails, SeesFlag, OwnInTurn
<1>5. CASE OwnStop
  <2>1. BeginStop(Own) /\ main' = "stopping" /\ main = "waiting" /\ entry = "scaling"
        /\ UNCHANGED <<entry, failed, field, tasks>>
    BY <1>5 DEF OwnStop
  <2>2. CASE ~ failed
    <3>1. tasks # {} BY <2>1, <2>2 DEF OwnInTurn
    <3>2. stopping'[Own] = "gather" BY <2>1, <3>1 DEF BeginStop, TypeOK, Run
    <3> QED BY <2>1, <3>2 DEF OwnInTurn, Resource, Pool
  <2> QED BY <2>1, <2>2 DEF OwnInTurn
<1>6. CASE OwnStopDone BY <1>6 DEF OwnStopDone, OwnInTurn
<1>7. CASE CancelAll \/ Exit BY <1>7 DEF CancelAll, Exit, OwnInTurn
<1>8. ASSUME NEW w \in Worker, Take(w) \/ RunOnce(w) \/ Unwound(w) PROVE OwnInTurn'
  BY <1>8 DEF Take, RunOnce, Ask, Acquire, Release, EndRun, Unwound, OwnInTurn
<1>9. ASSUME NEW k \in Signal, Signalled(k) PROVE OwnInTurn'
  <2>1. BeginStop(k) /\ UNCHANGED <<entry, main, failed, field, tasks>>
    BY <1>9 DEF Signalled
  <2>2. stopping'[Own] = stopping[Own]
    BY <2>1, ScalerAssumption DEF BeginStop, TypeOK, Run
  <2> QED BY <2>1, <2>2 DEF OwnInTurn
<1>10. ASSUME NEW k \in Run, Gathered(k) PROVE OwnInTurn'
  <2>1. /\ ~ (entry = "scaling" /\ main = "waiting")
        /\ stopping' = [stopping EXCEPT ![k] = ClosesNext(field)]
        /\ UNCHANGED <<entry, main, failed, field>>
    BY <1>10 DEF Gathered
  <2>2. CASE k = Own
    <3>1. stopping'[Own] = ClosesNext(field) BY <2>1, <2>2 DEF TypeOK, Run
    <3>2. ClosesNext(field) \in Resource \cup {"done"} BY ClosesNextType DEF TypeOK
    <3>3. /\ ClosesNext(field) \in Resource => \A q \in field : Order[ClosesNext(field)] <= Order[q]
          /\ ClosesNext(field) = "done" => field = {}
      BY ClosesNextFirst DEF TypeOK
    <3>4. stopping'[Own] # "off" BY <3>1, <3>2 DEF Resource, Pool
    <3> QED BY <2>1, <3>1, <3>3, <3>4 DEF OwnInTurn
  <2>3. CASE k # Own
    <3>1. stopping'[Own] = stopping[Own] BY <2>1, <2>3 DEF TypeOK, Run
    <3> QED BY <2>1, <3>1 DEF OwnInTurn
  <2> QED BY <2>2, <2>3
<1>11. ASSUME NEW k \in Run, Closed(k) PROVE OwnInTurn'
  <2> DEFINE r == stopping[k]
             rs == {q \in field : Order[q] > Order[r]}
  <2>1. /\ r \in Resource /\ field' = field \ {r}
        /\ stopping' = [stopping EXCEPT ![k] = ClosesNext(rs)]
        /\ UNCHANGED <<entry, main, failed, tasks>>
    BY <1>11 DEF Closed
  <2>2. CASE k = Own
    <3> SUFFICES ASSUME entry = "scaling", ~ failed, main = "stopping" PROVE OwnInTurn'
      BY <2>1 DEF OwnInTurn
    <3>1. stopping'[Own] = ClosesNext(rs) BY <2>1, <2>2 DEF TypeOK, Run
    <3>2. rs \in SUBSET Resource BY DEF TypeOK
    <3>3. field' \subseteq rs
      <4>1. \A q \in field : Order[r] <= Order[q] BY <2>1, <2>2 DEF OwnInTurn
      <4>2. \A q \in Resource : q # r /\ Order[r] <= Order[q] => Order[q] > Order[r]
        BY <2>1 DEF Order, Resource, Pool
      <4> QED BY <2>1, <4>1, <4>2 DEF TypeOK
    <3> HIDE DEF rs
    <3>4. ClosesNext(rs) \in Resource \cup {"done"} BY <3>2, ClosesNextType
    <3>5. /\ ClosesNext(rs) \in Resource => \A q \in rs : Order[ClosesNext(rs)] <= Order[q]
          /\ ClosesNext(rs) = "done" => rs = {}
      BY <3>2, ClosesNextFirst
    <3>6. stopping'[Own] # "off" BY <3>1, <3>4 DEF Resource, Pool
    <3> QED BY <2>1, <3>1, <3>3, <3>5, <3>6 DEF OwnInTurn
  <2>3. CASE k # Own
    <3>1. stopping'[Own] = stopping[Own] BY <2>1, <2>3 DEF TypeOK, Run
    <3>2. field' \subseteq field BY <2>1
    <3> QED BY <2>1, <3>1, <3>2 DEF OwnInTurn
  <2> QED BY <2>2, <2>3
<1>12. CASE UNCHANGED vars BY <1>12 DEF vars, OwnInTurn
<1> QED BY <1>1, <1>2, <1>3, <1>4, <1>5, <1>6, <1>7, <1>8, <1>9, <1>10, <1>11, <1>12
        DEF Next, Main, Stop

\* However many signals come, and however far their runs of shutdown have got, scaling.py's
\* main with at least one worker exits with nothing left open.  (Without one it does not
\* wait: a second run finds no tasks and takes the first one for finished.)
THEOREM ClosesEverythingHolds ==
  ASSUME Worker # {}
  PROVE  Spec => []ClosesEverything
<1>1. Init => Tracked /\ OwnInTurn
  BY DEF Init, Tracked, OwnInTurn, Pool
<1>2. TypeOK /\ Tracked /\ OwnInTurn => ClosesEverything
  <2> SUFFICES ASSUME TypeOK, Tracked, OwnInTurn, entry = "scaling", main = "exit", ~ failed
               PROVE  open = {}
    BY DEF ClosesEverything
  <2>1. field = {} BY DEF OwnInTurn
  <2>2. open \cap Pool = {} /\ "browser" \notin open BY <2>1 DEF Tracked, Pool
  <2> QED BY <2>2 DEF TypeOK, Resource
<1>3. TypeOK /\ Tracked /\ OwnInTurn /\ [Next]_vars => OwnInTurn'
  BY OwnInTurnStep
<1> QED BY <1>1, <1>2, <1>3, TrackedStep, TypeCorrect, PTL DEF Spec
===============================================================================
