------------------------------- MODULE FormAgent -------------------------------
(***************************************************************************)
(* FormAgent.run_once of src/apps/worker/agent.py, run in a loop by every  *)
(* worker of every worker process (WorkerScaler._worker_loop in            *)
(* src/apps/worker/scaling.py), against the shared rows of Applications    *)
(* and the in-memory usage tracker of the worker's process.                *)
(*                                                                         *)
(* run_once is cut at its awaits: an action covers the code between two    *)
(* points where another worker, another process or the clock can get in.   *)
(* The employer's site is the environment: it decides which questions a    *)
(* form leaves open and whether a submission is seen to arrive.            *)
(***************************************************************************)
EXTENDS Applications

CONSTANTS
  Worker,          \* worker coroutines, of all processes
  Process,         \* worker processes
  Home,            \* the process of a worker
  Tenant,
  NoTenant,
  TenantOf,        \* tenant_id of an application, or NoTenant
  MaxConcurrent,   \* max_concurrent_applications (per process)
  MaxPerTenant,    \* max_concurrent_per_tenant (per process)
  NoApp,           \* no task in hand
  Captcha,         \* the selector under which a CAPTCHA is asked about
  Doomed,          \* applications whose form always raises before it is submitted
  MaxFaults        \* bound: exceptions, uncertain submissions, crashes and locks
                   \* that age while their holder works; those of doomed
                   \* applications are free

ASSUME FormAgentAssumption ==
  /\ IsFiniteSet(Worker)
  /\ Home \in [Worker -> Process]
  /\ NoTenant \notin Tenant
  /\ TenantOf \in [App -> Tenant \cup {NoTenant}]
  /\ MaxConcurrent \in Nat \ {0}
  /\ MaxPerTenant \in Nat \ {0}
  /\ NoApp \notin App
  /\ Captcha \in Field
  /\ Doomed \subseteq App
  /\ MaxFaults \in Nat

T == INSTANCE TrackerOps WITH Task <- App

VARIABLES
  pc,              \* where run_once of a worker is
  task,            \* the application it claimed
  attempt,         \* attempt_count of the row as the claim returned it
  asked,           \* the selectors it is about to put on hold
  tracker,         \* the ConcurrentUsageTracker of each process
  submissions,     \* history: submissions that left for the employer, up to two
  uncertain,       \* history: applications one of whose submissions was not seen
                   \* to arrive, or arrived and is not on record as APPLIED
  mistaken,        \* history: applications a click was taken to have submitted when
                   \* nothing left for the employer
  expired,         \* history: applications whose lock aged under their holder
  faults           \* history: how much of MaxFaults is used

agent == <<pc, task, attempt, asked, tracker>>
history == <<submissions, uncertain, mistaken, expired, faults>>
vars == <<rows, agent, history>>

\* Between the claim and start_task, between start_task and the try block, in the
\* try block, and in its handlers.
Unstarted == {"claimed", "peeked", "releasing"}
Starting == {"started", "http_sent", "http_applied", "opening"}
Trying == {"page", "sent", "applied"}
Handling == {"holding", "captcha", "failing"}
PC == {"idle", "ending"} \cup Unstarted \cup Starting \cup Trying \cup Handling

AgentInit ==
  /\ pc = [w \in Worker |-> "idle"]
  /\ task = [w \in Worker |-> NoApp]
  /\ attempt = [w \in Worker |-> 0]
  /\ asked = [w \in Worker |-> {}]
  /\ tracker = [p \in Process |-> T!FreshTracker]
  /\ submissions = [a \in App |-> 0]
  /\ uncertain = {}
  /\ mistaken = {}
  /\ expired = {}
  /\ faults = 0

\* Every application has just been swiped.
Init == RowsInit("QUEUED") /\ AgentInit

-------------------------------------------------------------------------------
\* w has an application that it has claimed and not yet passed on.
Working(w) == pc[w] \notin {"idle", "ending"}

Goes(w, s) == pc' = [pc EXCEPT ![w] = s]

\* run_once returns, or raises into the worker's loop.
Returns(w) ==
  /\ Goes(w, "idle")
  /\ task' = [task EXCEPT ![w] = NoApp]
  /\ asked' = [asked EXCEPT ![w] = {}]
  /\ UNCHANGED attempt

Budgeted == faults < MaxFaults /\ faults' = faults + 1

\* Emitting event `label` for a fails, or something else on the way to it does.
Raises(a, label) == IF CanEmit(a, label) THEN Budgeted ELSE UNCHANGED faults

Sends(a, n) ==
  submissions' = [submissions EXCEPT ![a] = IF @ + n > 2 THEN 2 ELSE @ + n]

\* Bound: a may be put on hold again.
MayHold(a) == holds[a] < MaxHolds

\* claim_task.
Claim(w) ==
  /\ pc[w] = "idle"
  /\ \E a \in App :
       /\ ClaimNext(a)
       /\ task' = [task EXCEPT ![w] = a]
       /\ attempt' = [attempt EXCEPT ![w] = attempts[a]]
  /\ Goes(w, "claimed")
  /\ UNCHANGED <<asked, tracker, history>>

\* can_start_task looks at the tracker; start_task looks again later.
PeekLimit(w) ==
  /\ pc[w] = "claimed"
  /\ Goes(w, IF T!CanStart(tracker[Home[w]], TenantOf[task[w]])
             THEN "peeked" ELSE "releasing")
  /\ UNCHANGED <<rows, task, attempt, asked, tracker, history>>

\* Mutant of StartTask: start_task trusts the earlier look.
StartTaskUnchecked(w) ==
  LET p == Home[w]  a == task[w] IN
  /\ pc[w] = "peeked"
  /\ Goes(w, "started")
  /\ tracker' = [tracker EXCEPT ![p] = T!Started(@, a, TenantOf[a])]
  /\ UNCHANGED <<rows, task, attempt, asked, history>>

StartTask(w) ==
  LET p == Home[w]  a == task[w] IN
  /\ pc[w] = "peeked"
  /\ IF T!CanStart(tracker[p], TenantOf[a])
     THEN /\ Goes(w, "started")
          /\ tracker' = [tracker EXCEPT ![p] = T!Started(@, a, TenantOf[a])]
     ELSE Goes(w, "releasing") /\ UNCHANGED tracker
  /\ UNCHANGED <<rows, task, attempt, asked, history>>

\* The limit is reached: the row goes back to the queue, without an event.
Release(w) ==
  /\ pc[w] = "releasing"
  /\ SetStatus(task[w], "QUEUED")
  /\ Returns(w)
  /\ UNCHANGED <<attempts, deferred, stale, inputs, holds, dlq, tracker, history>>

\* Mutant of HttpApply: an answer that does not confirm counts as a confirmation.
HttpApplyUnconfirmed(w) ==
  /\ pc[w] = "started" /\ task[w] \notin Doomed
  /\ Goes(w, "http_sent")
  /\ UNCHANGED <<rows, task, attempt, asked, tracker, history>>

\* _build_context and try_http_apply_first.  A submission whose answer does not confirm
\* it falls through to the browser like one never sent.
HttpApply(w) ==
  LET a == task[w] IN
  /\ pc[w] = "started"
  /\ \/ Goes(w, "opening") /\ UNCHANGED <<submissions, uncertain, faults>>
     \/ a \notin Doomed /\ Goes(w, "http_sent") /\ Sends(a, 1)
        /\ UNCHANGED <<uncertain, faults>>
     \/ a \notin Doomed /\ Goes(w, "opening") /\ Sends(a, 1)
        /\ uncertain' = uncertain \cup {a} /\ Budgeted
  /\ UNCHANGED <<rows, task, attempt, asked, tracker, mistaken, expired>>

\* A browser context and a page, then STARTED_PROCESSING inside the try block.
OpenPage(w) ==
  /\ pc[w] = "opening"
  /\ \/ CanEmit(task[w], "STARTED_PROCESSING") /\ Goes(w, "page") /\ UNCHANGED faults
     \/ Goes(w, "failing") /\ Raises(task[w], "STARTED_PROCESSING")
  /\ UNCHANGED <<rows, task, attempt, asked, tracker, submissions, uncertain, mistaken,
                 expired>>

\* An exception outside the try block: end_task is not called and the row keeps
\* its status until its lock is stale.  (One comes from try_http_apply_first where a page
\* has no form: the finally block of _try_greenhouse and _try_lever then reads files
\* before it is assigned.)
Abandon(w) ==
  /\ pc[w] \in {"releasing"} \cup Starting
  /\ IF pc[w] = "http_sent" THEN Raises(task[w], "STARTED_PROCESSING") ELSE
     IF pc[w] = "http_applied" THEN Raises(task[w], "SUBMITTED") ELSE Budgeted
  /\ uncertain' = IF pc[w] = "http_sent" THEN uncertain \cup {task[w]} ELSE uncertain
  /\ Returns(w)
  /\ UNCHANGED <<rows, tracker, submissions, mistaken, expired>>

\* _map_fields leaves required fields open: they will be asked about.
AskUser(w) ==
  /\ pc[w] = "page" /\ task[w] \notin Doomed /\ MayHold(task[w])
  /\ \E fields \in SUBSET (Field \ {Captcha}) :
       fields # {} /\ asked' = [asked EXCEPT ![w] = fields]
  /\ Goes(w, "holding")
  /\ UNCHANGED <<rows, task, attempt, tracker, history>>

\* CaptchaRequiredError, from _fill_form or from _submit_application before it clicks.
MeetCaptcha(w) ==
  /\ pc[w] = "page" /\ task[w] \notin Doomed /\ MayHold(task[w])
  /\ asked' = [asked EXCEPT ![w] = {Captcha}]
  /\ Goes(w, "captcha")
  /\ UNCHANGED <<rows, task, attempt, tracker, history>>

\* submit_form: the click is seen to succeed; or only after a click whose navigation
\* timed out was repeated; or it is never seen to, and the worker takes the whole
\* attempt for a failure.  Or the click sends nothing - on an "Apply" button that opens
\* another page, say - and counts all the same: after a navigation _verify_submit_success
\* asks for no sign of success, not even for a page that can be read.
Submit(w) ==
  LET a == task[w] IN
  /\ pc[w] = "page" /\ a \notin Doomed
  /\ \/ Goes(w, "sent") /\ Sends(a, 1) /\ UNCHANGED <<uncertain, mistaken, faults>>
     \/ /\ Goes(w, "sent") /\ Sends(a, 2) /\ uncertain' = uncertain \cup {a}
        /\ Budgeted /\ UNCHANGED mistaken
     \/ /\ Goes(w, "failing") /\ Sends(a, 1) /\ uncertain' = uncertain \cup {a}
        /\ Budgeted /\ UNCHANGED mistaken
     \/ /\ Goes(w, "sent") /\ mistaken' = mistaken \cup {a}
        /\ UNCHANGED <<submissions, uncertain, faults>>
  /\ UNCHANGED <<rows, task, attempt, asked, tracker, expired>>

\* Anything raised in the try block before a submission.
PageRaises(w) ==
  /\ pc[w] = "page"
  /\ Goes(w, "failing")
  /\ IF task[w] \in Doomed THEN UNCHANGED faults ELSE Budgeted
  /\ UNCHANGED <<rows, task, attempt, asked, tracker, submissions, uncertain, mistaken,
                 expired>>

\* Mutant of MarkApplied: the event is emitted but the status is not written.
MarkAppliedNoUpdate(w) ==
  /\ \/ pc[w] = "sent" /\ Goes(w, "applied")
     \/ pc[w] = "http_sent" /\ CanEmit(task[w], "STARTED_PROCESSING")
        /\ Goes(w, "http_applied")
  /\ UNCHANGED <<rows, task, attempt, asked, tracker, history>>

\* _handle_success up to the UPDATE of on_task_completed, which commits on its own.
MarkApplied(w) ==
  /\ \/ pc[w] = "sent" /\ Goes(w, "applied")
     \/ pc[w] = "http_sent" /\ CanEmit(task[w], "STARTED_PROCESSING")
        /\ Goes(w, "http_applied")
  /\ SetStatus(task[w], "APPLIED")
  /\ UNCHANGED <<attempts, deferred, stale, inputs, holds, dlq, task, attempt, asked, tracker,
                 history>>

\* The rest of _handle_success: SUBMITTED, the evaluation, mails and alerts.
FinishSuccess(w) ==
  /\ pc[w] \in {"applied", "http_applied"}
  /\ CanEmit(task[w], "SUBMITTED")
  /\ Goes(w, "ending")
  /\ UNCHANGED <<rows, task, attempt, asked, tracker, history>>

\* An exception after the submission, before or after the row says APPLIED: the
\* handler of the try block takes it for a failed application.
SuccessRaises(w) ==
  /\ \/ pc[w] = "sent" /\ Budgeted
     \/ pc[w] = "applied" /\ Raises(task[w], "SUBMITTED")
  /\ uncertain' = uncertain \cup {task[w]}
  /\ Goes(w, "failing")
  /\ UNCHANGED <<rows, task, attempt, asked, tracker, submissions, mistaken, expired>>

\* _enter_hold: questions, status and event in one transaction.
EnterHold(w) ==
  LET a == task[w] IN
  /\ pc[w] \in {"holding", "captcha"}
  /\ CanEmit(a, "REQUIRES_INPUT_RAISED")
  /\ InsertUnresolved(a, asked[w])
  /\ SetStatus(a, "REQUIRES_INPUT")
  /\ Goes(w, "ending")
  /\ UNCHANGED <<attempts, deferred, stale, dlq, task, attempt, asked, tracker, history>>

\* It rolls back.  In the try block that is a failure like any other; in the CAPTCHA
\* handler the exception leaves run_once by way of the finally block.
HoldRaises(w) ==
  /\ pc[w] \in {"holding", "captcha"}
  /\ Raises(task[w], "REQUIRES_INPUT_RAISED")
  /\ Goes(w, IF pc[w] = "holding" THEN "failing" ELSE "ending")
  /\ UNCHANGED <<rows, task, attempt, asked, tracker, submissions, uncertain, mistaken,
                 expired>>

Exhausted(w) == attempt[w] >= MaxAttempts

\* _handle_failure: the dead-letter queue once the attempts are used up, a delayed
\* retry before that.  It does not look at the status it overwrites.
HandleFailure(w) ==
  LET a == task[w] IN
  /\ pc[w] = "failing"
  /\ IF Exhausted(w)
     THEN /\ CanEmit(a, "FAILED")
          /\ SetStatus(a, "FAILED")
          /\ dlq' = [dlq EXCEPT ![a] = @ + 1]
          /\ UNCHANGED deferred
     ELSE /\ CanEmit(a, "RETRY_SCHEDULED")
          /\ SetStatus(a, "QUEUED")
          /\ deferred' = [deferred EXCEPT ![a] = @ \cup {"available_at"}]
          /\ UNCHANGED dlq
  /\ Goes(w, "ending")
  /\ UNCHANGED <<attempts, stale, inputs, holds, task, attempt, asked, tracker, history>>

\* Its transaction rolls back; the row stays as it is.
FailureRaises(w) ==
  /\ pc[w] = "failing"
  /\ Raises(task[w], IF Exhausted(w) THEN "FAILED" ELSE "RETRY_SCHEDULED")
  /\ Goes(w, "ending")
  /\ UNCHANGED <<rows, task, attempt, asked, tracker, submissions, uncertain, mistaken,
                 expired>>

\* end_task, from the finally block or at the end of the HTTP path.
EndTask(w) ==
  /\ pc[w] = "ending"
  /\ Returns(w)
  /\ tracker' = [tracker EXCEPT ![Home[w]] = T!Ended(@, task[w])]
  /\ UNCHANGED <<rows, history>>

Step(w) ==
  \/ Claim(w) \/ PeekLimit(w) \/ StartTask(w) \/ Release(w) \/ HttpApply(w)
  \/ OpenPage(w) \/ Abandon(w) \/ AskUser(w) \/ MeetCaptcha(w) \/ Submit(w)
  \/ PageRaises(w) \/ MarkApplied(w) \/ FinishSuccess(w) \/ SuccessRaises(w)
  \/ EnterHold(w) \/ HoldRaises(w) \/ HandleFailure(w) \/ FailureRaises(w) \/ EndTask(w)

\* A process dies, or is shut down (WorkerScaler.shutdown cancels its workers), and
\* comes back with an empty tracker.
Crash(p) ==
  LET here == {w \in Worker : Home[w] = p} IN
  /\ Budgeted
  /\ pc' = [w \in Worker |-> IF w \in here THEN "idle" ELSE pc[w]]
  /\ task' = [w \in Worker |-> IF w \in here THEN NoApp ELSE task[w]]
  /\ asked' = [w \in Worker |-> IF w \in here THEN {} ELSE asked[w]]
  /\ tracker' = [tracker EXCEPT ![p] = T!FreshTracker]
  /\ uncertain' = uncertain \cup {task[w] : w \in {v \in here : pc[v] \in {"sent", "http_sent"}}}
  /\ UNCHANGED <<rows, attempt, submissions, mistaken, expired>>

Held(a) == \E w \in Worker : Working(w) /\ task[w] = a

\* The lock of a row grows old: of one whose worker left it, or of one whose worker
\* is merely slow - nothing renews locked_at while an application is processed.
OrphanAges(a) == ~ Held(a) /\ LockAges(a) /\ UNCHANGED <<agent, history>>

LockExpires(a) ==
  /\ Held(a) /\ LockAges(a) /\ Budgeted
  /\ expired' = expired \cup {a}
  /\ UNCHANGED <<agent, submissions, uncertain, mistaken>>

RetryComesDue(a) == DeferralEnds(a) /\ UNCHANGED <<agent, history>>

Next ==
  \/ \E w \in Worker : Step(w)
  \/ \E p \in Process : Crash(p)
  \/ \E a \in App : OrphanAges(a) \/ LockExpires(a) \/ RetryComesDue(a)

Spec == Init /\ [][Next]_vars

\* Every await of run_once has a time limit of its own (command_timeout, the page and
\* navigation timeouts, the HTTP client's 30 s), so a worker goes on; time passes.
Fairness ==
  /\ \A w \in Worker : WF_vars(Step(w))
  /\ \A a \in App : WF_vars(OrphanAges(a)) /\ WF_vars(RetryComesDue(a))

FairSpec == Spec /\ Fairness

-------------------------------------------------------------------------------
\* Every variable has its type.
TypeOK ==
  /\ RowsType
  /\ pc \in [Worker -> PC]
  /\ task \in [Worker -> App \cup {NoApp}]
  /\ attempt \in [Worker -> Nat]
  /\ asked \in [Worker -> SUBSET Field]
  /\ tracker \in [Process -> T!TrackerState]
  /\ submissions \in [App -> 0..2]
  /\ uncertain \subseteq App
  /\ mistaken \subseteq App
  /\ expired \subseteq App
  /\ faults \in 0..MaxFaults

\* claim_task: "Atomically claim the next task".  Unless a lock ages while its holder
\* is still working, no two workers - of one process or of several - ever have the
\* same application in hand, through every release, retry, hold, crash and exception.
ExclusiveProcessing ==
  \A v, w \in Worker :
    Working(v) /\ Working(w) /\ task[v] = task[w] /\ task[v] \notin expired => v = w

\* At most one submission of an application leaves for the employer, unless one was
\* uncertain: not seen to arrive, or cut off before the row said APPLIED for good.
\* Releases, retries, restarts and holds alone never submit twice.
SubmittedOnce ==
  \A a \in App \ (uncertain \cup expired) : submissions[a] <= 1

\* A row says APPLIED only of an application that was submitted, or that a worker took
\* a click to have submitted.
AppliedIsBacked ==
  \A a \in App : status[a] = "APPLIED" => submissions[a] >= 1 \/ a \in mistaken

\* A submission that is not in doubt is on record for good, or its worker still has it in
\* hand and is about to put it there: no release, retry, hold or other worker takes the
\* row away from it.
SentIsOnRecord ==
  \A a \in App \ (uncertain \cup expired) :
    submissions[a] >= 1 =>
      \/ status[a] = "APPLIED"
      \/ \E w \in Worker : task[w] = a /\ pc[w] \in {"sent", "http_sent"}

\* Rows and employers agree on what was applied for, up to the clicks that were mistaken
\* for submissions and the submissions that are in doubt.
RecordAgrees == AppliedIsBacked /\ SentIsOnRecord

\* Never more than MaxPerTenant workers of a process fill forms for one tenant, however
\* many slots the tracker has lost or counts twice.
TenantLimit ==
  \A p \in Process, ten \in Tenant :
    Cardinality({w \in Worker : /\ Home[w] = p
                                /\ pc[w] \notin {"idle"} \cup Unstarted
                                /\ TenantOf[task[w]] = ten}) <= MaxPerTenant

\* Every application is in the end applied for, waiting for its user, or dead-lettered,
\* and stays so: no row is forgotten, neither in PROCESSING after a crash nor in the
\* queue behind slots that were never given back.
Settled(a) == status[a] \in {"APPLIED", "REQUIRES_INPUT", "FAILED"}
Settles == \A a \in App : <>[]Settled(a)

-------------------------------------------------------------------------------
\* What the repository says of the worker and the model shows not to hold.

\* _handle_failure: an application that keeps failing "reached max attempts. Moving to
\* DLQ": in the end it is on record as FAILED.
DoomedFails == \A a \in Doomed : <>(status[a] = "FAILED")
===============================================================================
