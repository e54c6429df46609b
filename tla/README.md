# Jobhuntin: models, model checks and proofs

Jobhuntin applies for jobs on behalf of its users. A user swipes on a job in a web or mobile
client; the API writes a row; a worker claims the row, drives a browser (or an HTTP client) through
the employer's form, and either submits it, asks the user a question, or fails and tries again.
This directory holds TLA+ models of the parts of that program whose correctness depends on the
order in which things happen, TLC configurations that check them on small instances, and proofs
of the most important invariants for every instance.

Paths below are relative to the repository root unless a module is meant.

## 1. Inventory of the system

| Part | State | Operations | What is hard about it |
|---|---|---|---|
| Application rows (`infra/postgres/schema.sql`, `migrations.sql`, `packages/backend/domain/repositories.py`) | `applications` (status, attempt_count, locked_at, available_at, snoozed_until), `application_inputs`, `application_events`, `job_dead_letter_queue` | `claim_next_prioritized`, `update_status`, `record_event`, `insert_unresolved`, `update_answers` | many writers, none of which looks at the status it overwrites; a lock that is a timestamp |
| Form agent (`apps/worker/agent.py`, `form_filling.py`, `packages/backend/domain/http_apply.py`) | the task in hand, its page, the tracker of its process | `run_once`: claim, limits, HTTP attempt, browser, hold, success, failure | an await at every step; crashes; submissions that cannot be undone |
| Usage tracker (`apps/worker/concurrent_tracker.py`) | active tasks, usage per tenant, tenant of each task | `can_start_task`, `start_task`, `end_task` | looked at and changed in separate critical sections; callers that never end a task |
| Agent loop (`run_forever`, `_listen_loop`, `RateLimiter` of `shared/metrics.py`) | `wake_event`, a listener connection, the calls of the last minute | poll, LISTEN/NOTIFY, limiter, restart | notifications that are lost or come at the wrong moment; polls that spend the calls of the minute |
| Worker scaler (`apps/worker/scaling.py`, `startup.py`, `shared/db.py`) | worker tasks, three connection pools, the browser | start, worker loop, shutdown; two mains | signals in the middle of start and of another shutdown; cancellation in the middle of `run_once`; nested connections |
| User requests (`apps/api/user.py`, `core_routes.py`) | the same rows | swipe, undo, answer, resume, snooze, withdraw, status change | read, decide, write later, against workers that do the same |
| Background job queue (`packages/backend/domain/job_queue.py`, `apps/worker/job_queue_worker.py`) | `background_jobs` | create tables, enqueue, claim, complete, fail | leases, batches, restarts, statements that fail |
| Circuit breaker (`shared/circuit_breaker.py`) | state, counters, time of the last failure | `call` | results counted long after the state was looked at |
| Billing (`apps/api/billing.py`) | `tenants.plan`, `billing_customers`, `processed_stripe_events`; Stripe's subscriptions | checkout, webhook and its five handlers | events that are repeated, reordered, handled at once, or rolled back after their id was claimed |
| Quotas (`packages/backend/domain/quotas.py`) | the tenant's rows of the month | `check_can_create_application` in a swipe | plan and count are read before the row is written |
| Further workers (follow-up reminders, job sync, data retention, SEO) | their tables | periodic passes | batches, overlapping passes |
| Database layer (`shared/db*.py`), caches, rate limiters of the API | pools, keys with a lifetime | acquire, get or compute, refuse | exhaustion, stale reads |
| Sessions, notifications | session rows, effects outside the database | revocation, sends | one read per request, or none |
| Clients, admin and analytics endpoints, matching, LLM | mostly none | requests, reads | not ordering |

How they interact. The **API** and the **workers** never call each other: they meet in the rows of
`applications` and `application_inputs`, plus a `NOTIFY job_queue` that only shortens the wait.
Several **worker processes** each run several worker coroutines (`WorkerScaler._worker_loop`
around `FormAgent.run_once`); coroutines of one process share the usage tracker, the connection
pool and the browser, all of them share the rows. **Stripe** writes the tenant's plan through
webhooks, and every swipe reads it for the quota. The **job queue** has its own table and process. **Circuit breakers**
are shared by the coroutines of a process that call one external service.

What makes each part correct, in words: an application is worked on by one worker at a time; its
form leaves for the employer once; the row claims a submission only if one happened, or was believed to have happened
(the code cannot rule the second out, see section 4); no row
is forgotten; no tenant exceeds its share; a hold always has a question to answer; a background job
runs at most as often as it may, one process at a time, and its verdict is final; a breaker that
opened can close again; an event of Stripe's takes effect exactly once and a paid plan is paid for; a
process closes nothing under a running task, and ends when it is told to.

`PROJECT.json` lists every component with its status, and the hazards of the code with the line
where each bites and the properties that watch it.

## 2. Modules

| Module | Models | Composes |
|---|---|---|
| `TrackerOps` | the tracker's state and operations as operators | |
| `ConcurrentTracker` | the tracker with the coroutines of one process that call it | `TrackerOps` |
| `Applications` | the shared rows and the SQL statements on them | |
| `FormAgent` | `run_once` of every worker of every process | `Applications`, one `TrackerOps` per process |
| `Submission` | abstract: what the worker service promises about one application | |
| `FormAgentRefinement` | the mapping under which `FormAgent` implements `Submission` | `FormAgent`, `Submission` |
| `JobHuntin` | the users' requests against rows and workers: the whole system | `FormAgent` |
| `AgentLoop` | how an agent learns that there is work, and how often it may look | |
| `JobQueue` | the background job queue and its processes | |
| `BackgroundJobs` | abstract: what the queue promises about one job | |
| `JobQueueRefinement` | the mapping under which `JobQueue` implements `BackgroundJobs` | `JobQueue`, `BackgroundJobs` |
| `CircuitBreaker` | one breaker and its callers | |
| `Billing` | Stripe's events against a tenant's plan, and the plan against the quota of swipes | |
| `WorkerScaler` | the life of a worker process: start, work, signals, shutdown, exit | |
| `*Proofs` | theorems about the module of that name | the module, `TLAPS` |
| `MC*` | the constants of the small instances | the module |

### Correspondence

**TrackerOps, ConcurrentTracker.** The tracker is a record of `active_tasks`, `tenant_usage` and
`task_tenant_map`; a method that runs under the instance's `asyncio.Lock` is one function of that
record. A tenant missing from the dictionary counts as 0. `CanStartTask`, `StartTask`,
`StartRefused`, `EndTask` are the calls `run_once` makes; `Abandon` is an exception between
`start_task` and the `try` whose `finally` calls `end_task`. Peak statistics are left out.

**Applications.** A row is a status (`"NONE"` without a row), the attempt count, the set of
deferrals still in the future, whether the lock is older than ten minutes, its questions, and its
dead letters. Real time is kept only as these facts: `LockAges` and `DeferralEnds` are the clock.
`ClaimNext` is `claim_next_prioritized` with its order and its guards; like the SQL, it does not
change `attempt_count`. `CanEmit` is what `record_event` needs to succeed: the row (foreign key)
and the label in the enum; it decides which transactions roll back.

**FormAgent.** `pc` says where `run_once` is, cut at its awaits:
`idle -> claimed -> peeked -> started -> opening -> page -> sent -> applied -> ending`, with
`releasing` (limit reached), `http_sent`/`http_applied` (the HTTP path, outside the `try`),
`holding` and `captcha` (questions), and `failing`. The employer's site is the environment:
which fields stay open, whether a CAPTCHA shows up, whether a submission is seen to arrive. A
retry of the click after a navigation timeout is one `Submit` that may send twice. `Submit` may also send nothing and go on as if it had:
`_verify_submit_success` is called with `strict=False` and answers yes when no indicator of success is on the page
(`form_filling.py:295`) or the page cannot be read (`:298`), and a click on any selector like "Apply" leads there.
`mistaken` is the history of these clicks; they are not a fault and no bound limits them. `Crash` is the
death or shutdown of a process: its workers forget everything, its tracker is fresh, the rows stay.
`uncertain` and `expired` are histories that name the two excuses for a second submission.

**Submission, FormAgentRefinement.** The abstract module knows no workers, locks or attempts: an
application is open, waiting, applied or failed; it was sent not at all, once, or more often; a click that
sent nothing may have passed for the submission (`Mistake`), after which it is treated as if it had been sent; and it
may be in doubt, which is entered by name and never left. Out of doubt the form leaves at most once, a row is put on
record after that or after a mistake, and what is on record, waits or was given up is not touched again. The mapping takes QUEUED and
PROCESSING to open, `submissions` to `sent`, `mistaken` to itself, and `uncertain \cup expired` to `doubt`: a submission whose
outcome nobody saw, or a lock that aged under its holder, are the only ways in. `KeepsPromises` is
`Submission`'s specification under this mapping. (A user's answer reopens a row; that is a promise to the user and
not the agent's, so the mapping is of `FormAgent` and not of `JobHuntin`.)

**JobHuntin.** An element of `App` is here the id of a row, so a job whose swipe was undone can get a
second row. Each handler is a read (`Swipe`, `FindUndo`, `BeginAnswer`, `ReadQuestions`,
`BeginResume`, `BeginWithdraw`, `BeginPatch`) and a write (`Insert`, `Undo`, `WriteAnswer`,
`WriteRejected`); `Snooze` is one statement. Requests that only refuse (rate limit, quota, missing
job, duplicate) change nothing and are left out. The statuses a PATCH may set are all `REJECTED`
here: no other code tells them apart. `MoveStage` is the pipeline's `update_application_stage`, one
statement that looks at nothing.

**AgentLoop.** `run_once` is reduced to asking its limiter, taking a row and letting it go. A row whose lock ages (`LockAges`) can be
taken by a second agent while the first goes on, and each writes it by its id when it is done, over whatever the other wrote
(`Processed`); `expired` names these rows. What is kept besides
is the order of looking, clearing the event, waiting and being notified. A notification sits with a
connection until the event loop delivers it and is lost with that connection. The limiter's sliding
window is a count of the calls not yet a minute old: `Admit` and `Refuse` are `allow_sync`, `CallAges` is the clock.
`Refuse` leads where an empty queue leads, since `run_once` returns False for both.

**JobQueue.** `table` is part of the state because every start drops the enum types (with
`CASCADE`, so the columns go too) before it creates the table if missing: after a second start the
table is `broken` and statuses are `lost`. An entry of a batch carries the attempt the claim gave
it. `fail` with attempts left raises (its SQL holds `{scheduled_at}` literally), which ends the
batch. A `complete` that raises ends in the same `fail` (`CompleteRaises`), which at the last attempt works and marks the
job failed although its handler succeeded (`CompleteOverruled`). Nothing in the repository calls `enqueue` yet; the model lets anything be enqueued.

**BackgroundJobs, JobQueueRefinement.** The abstract module knows no rows, leases, batches or processes. A job is
accepted once for its key, is open, running, succeeded, completed or failed, and was started so many times; or track of it is
lost, which is for good and leaves only the limit on its runs. The mapping reads a job's life from its row and from where
a process is with it: a row in status running whose handler has not been started is open, and so is one whose run was broken off.
Track is lost in three ways the code has: the lease ends under a process that has the job (`overrun`), a success
cannot be written (`cut`), or a restart drops the columns of the row (`lost`). `QueuePromises` is the abstract
specification under this mapping.

**CircuitBreaker.** The lock is held twice, around the look and around the count, so `Send` and
`CountSuccess`/`CountFailure` are separate steps with `Answer` in between. `Cancel` also stands for
an exception that is not one of `expected_exception`: neither is counted.

**Billing.** Stripe is the environment: `CheckOut` and `Changes` number what happens to the
subscriptions and `unacked` holds what is still to be delivered, in no order. `Deliver` is the request up to its first
statement, the `INSERT ... ON CONFLICT DO NOTHING` into `processed_stripe_events`, which waits while another
transaction holds the same id; `Commit` is the handler and the end of the transaction, `RollBack` a
failure anywhere in it. `PlanAfter` and `BillingAfter` are what the five handlers write; they write it for the
customer, whichever subscription the event is about, and so does the model. A subscription for PRO may begin on trial
(`stripe_free_trial_days`, `create_checkout` only): Stripe calls it `trialing`, the handlers of the checkout and of an invoice write
`active` (`StatusAfter`), and only a `customer.subscription.updated` would tell the row. Stripe's `incomplete` and `paused` are left out: the
checkouts take cards and complete with the payment, and no trial is made that could end in a pause. A swipe is three steps, because the plan is
read with the tenant's context, the rows are counted in the transaction, and the insert comes last; no
lock joins them. The tenant has its `billing_customers` row from the start. `reordered`, `overlapped` and
`lapsed` are histories that name the excuses of the properties, `overran` one that names who went over.

**WorkerScaler.** `main` is where the entry point is: at one of the awaits of `start`, waiting, in its own
`shutdown`, or in `asyncio.run`'s cancellation of what is left. `field` are the attributes that are not
`None`, `open` what is really open: start sets an attribute and a shutdown clears it, in steps of their
own, so the two differ. Every signal runs a `shutdown` of its own (`stopping[k]`), `scaling.py`'s main one more
(`Own`); `BeginStop` is a run up to its first await, `Gathered` and `Closed` are the later ones. `asyncio`'s rules are in
the model where they matter: what lies between two awaits is one step, a cancelled task still runs its `finally`
blocks (`unwinding`), and the end of `main` cancels every task. `run_once` is here what it does to the primary pool: a
connection, and inside it at most a second one, each awaited without a timeout.

## 3. Runs

Twelve runs. Every property of a passing run has a mutant in `PROJECT.json`: a plausible bug in a
modelled definition under which the property fails.

| Run | Instance | Shows |
|---|---|---|
| `tracker` | 4 tasks (2 tenants, one task without), 3 workers, limits 2/2, 2 abandons | `TenantCap`: the limit holds on actual work even after double starts and abandons; `ExactWhenUndisturbed` |
| `agent` | 2 applications, 3 workers in 2 processes, 1 hold, 2 faults, 1 slot per tenant | `ExclusiveProcessing`, `SubmittedOnce`, `RecordAgrees`, `TenantLimit`; `KeepsPromises`: the agent implements `Submission` |
| `agent_settles` | 2 applications, 2 workers, 2 faults, 3 slots | `Settles`: nothing is left in the queue or in PROCESSING |
| `requests` | 2 row ids of one job, 2 workers, 2 clients, 3 requests of any kind, 2 holds, 1 fault | `ExclusiveUnlessOvertaken`, `JobSubmittedOnce`, `HoldHasQuestion` |
| `rows_settle` | 1 row, 2 workers, 2 clients, 3 requests, 1 fault, 3 slots | `RowsSettle` |
| `queue` | 3 jobs (2 with one key, one of those without a handler), 2 processes, batches of 2, 2 attempts, 1 fault | `RunsBounded`, `ExclusiveUnlessOverrun`, `SucceedsOnce`, `VerdictStays`, `Drains`; `QueuePromises`: the queue implements `BackgroundJobs` |
| `loop` | 2 agents, 2 rows, 2 calls a minute, 2 disturbances | `OneHand`, `EveryRowIsProcessed` |
| `breaker` | 3 callers, thresholds 2/2, 6 failures or cancellations | `CountsMatchState`, `Recovers` |
| `billing` | 2 subscriptions of two plans, 2 webhook requests at a time, 3 events, 1 fault, 1 swiping client, limits 1, 2 and 3, 3 rows | `AppliedOnce`, `NothingLost`: each event takes effect exactly once; `PaidPlanIsBacked`, `InStep`: taken in order they leave the plan Stripe's status entitles to; `OverrunsOnce`: a stale plan or count costs one row per client |
| `scaler` | both mains, 3 workers, 4 connections, 2 signals | `NeverClosedUnderWork`, `ClosesEverything`, `PoolNotStuck`, `Ends` |
| `agent_doomed` | violation | an application that always fails is retried for ever and never reaches the dead-letter queue |
| `withdraw_applied` | violation | a withdrawal is written over APPLIED |

**Why the bounds are enough.** Each run has one more actor than the interaction needs. A conflict over a
row needs two workers; `agent` has two in one process (the shared tracker) and one in another (only
the rows). A lost slot needs one fault and its consequence a second; a second submission needs one
uncertain submission, crash or aged lock. Two rows are enough for one to wait behind the other
in the claim order. Two clients are enough for one to overtake what the other has read, and three
requests for a swipe and a race about it; two row ids of one job cover undo and swipe again. In
`requests` two holds of one application, answered in the wrong order, need `MaxHolds = 2`. In the
queue a lease can run out under one process while another claims; two attempts distinguish the
last from the others. In the breaker three callers let a late result arrive in each state, since
two are enough to open or to close it. In `loop` two calls a minute are used up by one empty look
before the row comes, and two disturbances let a lock age under one agent and the other die or write a retry over it. In `billing` three events are two subscriptions and the end of one of them, or a
subscription, its failed payment and its end, in every order; two requests race for one event; the
limits are so small that one client goes over each of them. In `scaler` two signals make three runs of
`shutdown` overlap with each other and with every step of `start`; three workers in four
connections, each of which may want two, are as many as the assumption of section 5 allows. `MaxFaults`, `MaxHolds`,
`MaxRequests`, `MaxAbandons`, `MaxDrops`, `MaxFailures`, `MaxEvents` and `MaxRows` bound only how often the
environment misbehaves or acts; no code counter is cut off (`attempts`, `failure_count` and `submissions`, a history that stops at two, are finite by
themselves).

**Symmetry** (workers of one process, clients) is used in `tracker`, `agent` and `requests` only, which
check no liveness.

**Deadlock** is checked in `loop` and `breaker`, whose loops never end. The other systems do come to
rest: when every application is settled, when the users stop, when the queue is empty, when Stripe has nothing more to
tell, when the process has ended.

**Fairness.** `FormAgent`: weak fairness of each worker's `run_once` steps, since every await in it has a
time limit (`command_timeout`, page and navigation timeouts, 30 s of the HTTP client) and
`_worker_loop` calls it again; weak fairness of the clock (`OrphanAges`, `RetryComesDue`). Nothing is assumed
about faults, crashes, locks that age under their holder, or which outcome a form has. `JobHuntin` adds
that a handler that has begun finishes; users need never act. `AgentLoop`: the loop runs,
`wait_for` has a timeout and the minute passes; listening, delivery and reconnection are *not* assumed fair, so
`EveryRowIsProcessed` rests on the poll alone. `JobQueue`: a process that was started goes on, leases end,
schedules come due; nobody has to start a process, and `Drains` speaks of one that runs by itself.
`CircuitBreaker`: callers keep calling, calls end, time passes. `Billing`: each webhook request
goes on, because Stripe repeats an event until it is acknowledged and transactions have a time limit; rollbacks are bounded,
nothing else is assumed. `WorkerScaler`: the event loop gets to every coroutine that is ready, and a
cancelled task comes to the end of its `finally` blocks; a run that was not cancelled may take for ever, so `Ends`
rests on the cancellation.

**When progress needs room.** `Settles` and `RowsSettle` hold with more tenant slots than faults. With as many
faults as slots they fail, by the code: slots lost by `Abandon` (or by a task started twice and
ended once) are never given back while the process lives, and its workers then claim and release
the tenant's rows for ever. The bound of those runs marks exactly this limit.

## 4. What the runs found

Two disagreements are kept as runs (section 3) and described with their lines under "findings" in
`PROJECT.json`. The models also contain, because the code does:

* `claim_next_prioritized` hands out a row whose lock is ten minutes old although its holder still
  works; `ExclusiveProcessing` and `SubmittedOnce` therefore except the applications in `expired`.
  `docs/OPERATIONAL_RUNBOOKS.md:336` ("`SKIP LOCKED` ensures no duplicate claims") does not mention it.
* `_handle_success` commits APPLIED before the rest of its bookkeeping; if that raises,
  `_handle_failure` writes QUEUED over it (`SuccessRaises`, `HandleFailure`).
* A click that sends nothing passes for a submission when nothing on the page says otherwise (`Submit`, `mistaken`): the row then says
  APPLIED for good. `RecordAgrees`, `Submission` and the composed system's `AppliedIsBacked` name this exception; how often it happens depends on
  the employers' pages.
* The blueprints are registered by `worker_loop` of `apps/worker/agent.py` only (line 2103). The mains that are deployed
  (`scaling.py`, `startup.py`) never call `load_default_blueprints`, so `_build_context` (line 769) raises on every task there. In the
  model this is `Abandon` at every task; the runs, which bound it, show a process that has its blueprints.
* `_try_greenhouse` and `_try_lever` read `files` in a `finally` block before it is assigned when the page
  has no plain form: the exception leaves `run_once` instead of falling back to the browser (`Abandon`).
* `start_task` counts a task twice that is started twice, `end_task` gives it back once.
* A restart of the queue worker drops the columns of its table (`DropTypes`), a retry is never
  written (`Fails`), and a job cut off in its last attempt stays running (`Claimable`).
* A withdrawn application that is being processed is submitted all the same.
* `apps/worker/agent.py:9` describes holds, but the enum of `infra/postgres/schema.sql:166` lacks the labels their events
  need: on a database made from that file alone no hold can be recorded. The runs use the labels the
  code emits (`EventLabels` is a constant of `Applications`).
* `protected_stripe_call` counts its results in attributes (`stats`) that the shared breaker does not have: `create_checkout` and
  `team_checkout` make the session at Stripe and then answer 503, so the user never sees the page to pay on. `CheckOut` is what happens
  once that is mended; until then no subscription begins through the API.
* `create_application` locks the row it is about to insert with `FOR UPDATE`, which locks nothing when there is none: two
  first swipes both insert, and the second resets what the worker made of the first (`apps/api/user.py:581`).
* `apps/api/billing.py` ("BILL-005") calls the handlers idempotent and order-independent. They are idempotent
  (`AppliedOnce`); an order other than Stripe's can leave a paid plan that nobody pays for, hence `~ reordered` in
  `PaidPlanIsBacked`. A second subscription that ends leaves FREE while the first is live, and a debt that is paid late
  never brings the plan back, hence `overlapped` and `lapsed` in `InStep`.
* The deployed main (`apps/worker/startup.py`) returns as soon as it sees the flag; `asyncio.run` then cancels the
  shutdown wherever it is, and pools or the browser stay open. `ClosesEverything` speaks of `scaling.py`'s main only.
* A signal before `start` is through closes what is there, and `start` goes on; it fails at an attribute that is `None`
  by then (`StartBrowser`, `Launch`), but not before it has created the tasks.
* With as many workers as connections each could hold one and wait for a second, for ever: see `PoolAssumption`.
* A notification between the last look and `wake_event.clear()` is wiped out; the poll makes up for it.

## 5. Proofs

All theorems are proved for arbitrary sets of workers, processes, applications, jobs, callers,
tenants, subscriptions and signals and arbitrary bounds, from the assumptions the modules declare (finite sets of workers or
processes where cardinalities are taken, positive limits, an injective claim order, values such as
`NoApp` outside the sets they are distinguished from). TLC evaluates the same assumptions in every run.

| Module | Theorems |
|---|---|
| `ConcurrentTrackerProofs` | `TypeCorrect`, `TenantCapHolds`, `ExactnessHolds` |
| `FormAgentProofs` | `TypeCorrect`, `ExclusiveProcessingHolds`, `SubmittedOnceHolds`, `RecordAgreesHolds`, `TenantLimitHolds`, `KeepsPromisesHolds` (the refinement of `Submission`) |
| `JobHuntinProofs` | `SystemTypeCorrect`, `ExclusiveUnlessOvertakenHolds`, `JobSubmittedOnceHolds`, `HoldHasQuestionHolds`, `SystemTenantLimitHolds`, `SystemAppliedIsBackedHolds` |
| `AgentLoopProofs` | `TypeCorrect`, `OneHandHolds` |
| `JobQueueProofs` | `TypeCorrect`, `RunsBoundedHolds`, `ExclusiveHolds`, `SucceedsOnceHolds`, `VerdictStaysHolds`, `QueuePromisesHolds` (the refinement of `BackgroundJobs`) |
| `CircuitBreakerProofs` | `TypeCorrect`, `CountsMatchStateHolds` |
| `BillingProofs` | `TypeCorrect`, `AppliedOnceHolds`, `OverrunsOnceHolds`, `PaidPlanIsBackedHolds`, `InStepHolds` |
| `WorkerScalerProofs` | `TypeCorrect`, `PoolNotStuckHolds`, `NeverClosedUnderWorkHolds`, `ClosesEverythingHolds` |

* **Tracker.** `TenantCap` speaks of workers, the code of a counter. The inductive invariant says that
  the workers running for a tenant are never more than its counter, that the counter never exceeds
  MAX_PER_TENANT, and that `_task_tenant_map` holds exactly the active tasks with their tenants; a
  double start raises the counter once per worker, so it stays an upper bound. `ExactnessHolds` needs in addition that, as long as nothing
  was doubled or abandoned, distinct workers run distinct tasks.
* **Agent.** The invariant ties a worker to its row: a row in hand whose lock did not age under its holder
  is in PROCESSING (or was just settled by that very worker) and its lock is not stale, so no other
  worker can claim it. A second part says when a submission may already have left: only while the
  worker that sent it holds the row or the row says APPLIED, unless the application is `uncertain` or
  `expired`. A third says that a row that is APPLIED was submitted, or a click was taken for its submission; `RecordAgrees` is
  that and its converse: what left and is not in doubt is on record, or in the hands of the worker that sent it.
  `TenantLimit` rests on `Counted`: in each process the counter of a tenant is never behind the workers that fill forms for it,
  nor above the limit, and what is given back at the end of a task is the tenant's that task was started for.
* **Queue.** An attempt is paid for by the claim, before it is made: the invariant says that the runs
  of a job plus the claimed entries not yet started never exceed its `attempts`. Exclusion rests on the
  lease: an entry in hand that was not overrun belongs to a running row with a lease that is held. `SucceedsOnce` adds `Won`: a job that
  succeeded is just being recorded by the process that has it, or no process has it and the row says completed, unless its lease ended or the write failed.
  The refinement, `Spec => J!Spec`, adds `Rooted`: what was claimed, started or lost track of has a row; a job without a
  handler was never started; a whole table has no lost status, so a job whose row lost its status never gets another
  one. Then `OwnHand` says what a process may rely on: a job that it has in hand and that is not lost track of runs nowhere
  else and is where this process is with it, so a verdict is the verdict of that run. `Claim`, `CreateTables` and
  `ComesDue` are stutters; `StartHandler` is `Start`, and within the limit because it was paid for; `Stop` breaks a run
  off, or loses track of a success; `LeaseExpires` and `DropTypes` are `Lose`, if anything.
* **Agent's refinement.** `Spec => S!Spec`: every step of the agent is a step of `Submission` or leaves its
  variables alone. It uses the agent's invariant: a worker that writes a row which is not in doubt owns it, so it knows what was
  sent (`OwnerKnows`); steps that enter doubt, or act in it, are `Doubt` and `ActInDoubt`.
* **Composed system.** The agent's invariant does not survive the requests: a worker whose row is withdrawn, moved or
  undone no longer owns it. What does survive is `KeepsRow` (a row in hand that neither aged nor was overtaken is not QUEUED,
  not REQUIRES_INPUT and not under a stale lock: no worker can claim it, and no answer that found it waiting can queue it),
  `Unsent` and `SentIsKept` (nothing has left before a worker submits; what has left is being
  recorded, or the row is APPLIED, REJECTED or gone). One job: `RowMade` and `OneRowPerJob` - without an undo a job has one
  row, so one form for a row is one form for a job. `HoldHasQuestion` is inductive with `Asking`: a worker
  that is about to hold has something to ask. `TenantLimit` carries over, since `Counted` rests only on what a worker has in hand
  (`InHand`), not on its owning the row. `AppliedIsBacked` carries over without the pipeline view: `MoveStage` writes APPLIED
  on any row, and no other request writes it.
* **Loop.** `OneHand` is inductive with the types and `HandsFull` (an agent has a row while it processes one, and only then): a row in hand is
  claimable, or written by another agent, only if its lock aged under a holder, and a row that is taken is always in the hands of an
  agent that goes on, since a death leaves it to the other holder or to the clock. That it does move on is `EveryRowIsProcessed`.
* **Breaker.** Type correctness and `CountsMatchState` are inductive together.
* **Billing.** `AppliedOnce` from `ClaimedAlone`: an event in a transaction is in no other one and not yet
  processed, and one that took effect is processed. `OverrunsOnce` from `StoppedOnce`: whoever went over the limit began
  with a plan whose limit is reached now, and its next check finds that.
  The two properties of the plan need Stripe's side of the story. `StripeTells`: the last event of a subscription says
  what the subscription is. `TakenInOrder`: what was not taken out of order was taken from the first event on.
  `Backed`: a paid plan goes back to an event that is the last word taken on its subscription and calls it live - it need not be
  the event that set the plan, which is why overlapping subscriptions do no harm here. `InStep` adds `OneStory` (with one subscription at a time and no debts,
  an event begins a subscription or follows one of the same subscription while that is live) and `FollowsLast` (row and plan say what the last event taken says).
* **Scaler.** `PoolNotStuck` from `TwoDeep` (who waits holds at most one connection) by counting, under
  `PoolAssumption`: fewer workers than connections, as `shared/config.py` has it with 25 connections and one or two workers. `NeverClosedUnderWork` from
  `InOrder`: a task runs only while no shutdown has begun; one that began before there were tasks set the flag that
  each task reads first; one that found tasks has cancelled them and closes nothing until all are done.
  `ClosesEverything` from `Tracked` (an attribute that is not `None` stands for what is open, except where `start` has failed) and
  `OwnInTurn`: main's own shutdown finds the tasks not yet gathered, so it waits and closes in order what the other runs
  have not. It is proved for at least one worker (`worker_instance_count` is 1 by default). With `--instances 0` it is
  false: main's run then finds the flag set and no tasks, takes the signal's run for finished, and
  the process exits in the middle of it.

Model-checked only: all liveness (`Settles`, `RowsSettle`, `Drains`,
`EveryRowIsProcessed`, `Recovers`, `NothingLost`, `Ends`), which is out of the prover's reach together with ENABLED,
induction over data and recursive operators. No module has a recursive operator. Every other invariant and action
property of a passing run, and both refinements, are theorems.

## 6. Not modelled

`PROJECT.json` gives the reason for each part. In short:

* Page contents, field mapping, screenshots, e-mails and alerts: effects outside the rows, whose
  failures are `FormAgent`'s exceptions. Matching, scoring and LLM calls: data, nothing concurrent.
* Code that the program never reaches or that cannot do its work, so that no behaviour is there to model: the
  dead-letter queue's manager and the admin's replay (nothing ever reaches that queue); the webhook retry, the batch processor
  of notifications, the failover, replica and transaction managers, `shared/rate_limiter.py`, the two cache classes and the
  stampede protection (no importer or no caller); follow-up reminders, job alerts, bulk and v2 submissions and most
  of the data retention (their statements raise, see the notes). `get_stripe_breaker`, which `domain/billing.py` asks for, does
  not exist, so a tenant without a `billing_customers` row cannot check out: `Billing` starts with the row.
* Job sync and erasure: one writer and idempotent statements; what erasure does to one application is `JobHuntin.Undo`.
* The Redis script of `RateLimiter` (one atomic call) and the limiters per user and tenant, which only refuse. One of
  them forgets: the limiters of a user live for an hour after their last use (`apps/api/user.py:80`), the window of the job refresh is three
  hours, so without Redis "1 per 3 hours per user" (`apps/api/user.py:86`) is not kept.
* Sessions: one read per request. Admin, analytics and SEO endpoints, the OAuth handlers and the clients: reads and pure I/O.

## 7. Plan

Done: the core (tracker, rows, agent, requests, queue, loop, breaker), the abstract `Submission` and `BackgroundJobs` and their refinements,
`Billing`, `WorkerScaler`, the agent's limiter, and the proofs of section 5, the composed system's among them. Next, most important first:

1. **RateLimiter**: the Redis script with its fallback and the limiters per user with their lifetime.
2. **Provisioning**: two first requests of a new user (`packages/backend/domain/tenant.py:118`).

To run: `tlc -config agent.cfg MCFormAgent.tla`, `tlapm FormAgentProofs.tla`, and likewise for the others.
