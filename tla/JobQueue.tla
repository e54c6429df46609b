-------------------------------- MODULE JobQueue --------------------------------
(***************************************************************************)
(* The background job queue, src/packages/backend/domain/job_queue.py, and *)
(* the processes that drain it (src/apps/worker/job_queue_worker.py): jobs *)
(* are rows, a process claims a batch of them under a lease and runs their *)
(* handlers one after the other.  A statement on the table is one step.    *)
(*                                                                         *)
(* The table itself is part of the state: every start of a process drops   *)
(* and creates the enum types of its columns before it makes sure that the *)
(* table exists.                                                           *)
(***************************************************************************)
EXTENDS Integers, FiniteSets

CONSTANTS
  Job,             \* ids of jobs that may be enqueued
  Key,             \* deduplication keys
  NoKey,           \* a job without one
  KeyOf,           \* dedup_key of a job
  Rank,            \* position in the order a claim picks rows; smaller first
  Unhandled,       \* jobs of a type no handler is registered for
  MaxAttempts,     \* max_attempts of a job
  BatchSize,       \* batch_size of process_jobs
  Process,         \* job queue worker processes
  MaxFaults        \* bound: processes that stop or die, and statements that fail

ASSUME JobQueueAssumption ==
  /\ KeyOf \in [Job -> Key \cup {NoKey}]
  /\ Rank \in [Job -> Nat]
  /\ \A j, k \in Job : Rank[j] = Rank[k] => j = k
  /\ Unhandled \subseteq Job
  /\ MaxAttempts \in Nat \ {0}
  /\ BatchSize \in Nat \ {0}
  /\ IsFiniteSet(Process)
  /\ MaxFaults \in Nat

VARIABLES
  table,           \* background_jobs: absent, ready, or broken (without its status
                   \* and priority columns)
  status,          \* status of a job's row: "none" without one, "lost" without a column
  attempts,        \* attempts of a job's row
  due,             \* scheduled_at is NULL or has passed
  lease,           \* lock_expires_at: NULL, in the future, or passed
  pc,              \* where a process is
  batch,           \* what is left of the batch a process claimed
  current,         \* the job whose handler it runs, as a set of at most one entry
  runs,            \* history: how often a job's handler was started
  wins,            \* history: how often it reported success
  overrun,         \* history: jobs whose lease ended while a process had them in hand
  cut,             \* history: jobs whose success was not recorded
  faults           \* history: how much of MaxFaults is used

rows == <<status, attempts, due, lease>>
procs == <<pc, batch, current>>
history == <<runs, wins, overrun, cut, faults>>
vars == <<table, rows, procs, history>>

Final == {"completed", "failed"}
Status == {"none", "lost", "pending", "queued", "running"} \cup Final

\* A job as a claim returned it, with the number of the attempt it is claimed for.
Entry == [job : Job, attempt : Nat]

Init ==
  /\ table = "absent"
  /\ status = [j \in Job |-> "none"]
  /\ attempts = [j \in Job |-> 0]
  /\ due = [j \in Job |-> FALSE]
  /\ lease = [j \in Job |-> "none"]
  /\ pc = [p \in Process |-> "down"]
  /\ batch = [p \in Process |-> {}]
  /\ current = [p \in Process |-> {}]
  /\ runs = [j \in Job |-> 0]
  /\ wins = [j \in Job |-> 0]
  /\ overrun = {}
  /\ cut = {}
  /\ faults = 0

-------------------------------------------------------------------------------
Goes(p, s) == pc' = [pc EXCEPT ![p] = s]

InHand(p) == batch[p] \cup current[p]
Holds(p, j) == \E e \in InHand(p) : e.job = j

\* The first statement of create_job_queue_tables.  DROP TYPE ... CASCADE takes the
\* columns of that type with it, and the table is not made anew if it exists.
DropTypes(p) ==
  /\ pc[p] = "down"
  /\ Goes(p, "starting")
  /\ table' = IF table = "absent" THEN "absent" ELSE "broken"
  /\ status' = [j \in Job |-> IF status[j] = "none" THEN "none" ELSE "lost"]
  /\ UNCHANGED <<attempts, due, lease, batch, current, history>>

\* The second one.  Its CREATE INDEX on a column that is gone raises: the process exits.
CreateTables(p) ==
  /\ pc[p] = "starting"
  /\ IF table = "broken"
     THEN Goes(p, "down") /\ UNCHANGED table
     ELSE Goes(p, "polling") /\ table' = "ready"
  /\ UNCHANGED <<rows, batch, current, history>>

\* Mutant of Enqueue: a job with a verdict does not keep its dedup_key taken.
EnqueueAfterVerdict(j, scheduled) ==
  /\ table = "ready" /\ status[j] = "none"
  /\ \A k \in Job : status[k] \notin {"none"} \cup Final => KeyOf[k] # KeyOf[j] \/ KeyOf[j] = NoKey
  /\ status' = [status EXCEPT ![j] = IF scheduled THEN "pending" ELSE "queued"]
  /\ due' = [due EXCEPT ![j] = ~ scheduled]
  /\ UNCHANGED <<table, attempts, lease, procs, history>>

\* enqueue: a row unless one with the same dedup_key exists, whatever its status.
Enqueue(j, scheduled) ==
  /\ table = "ready" /\ status[j] = "none"
  /\ \A k \in Job : status[k] # "none" => KeyOf[k] # KeyOf[j] \/ KeyOf[j] = NoKey
  /\ status' = [status EXCEPT ![j] = IF scheduled THEN "pending" ELSE "queued"]
  /\ due' = [due EXCEPT ![j] = ~ scheduled]
  /\ UNCHANGED <<table, attempts, lease, procs, history>>

\* Mutant of Claimable: attempts are counted but not limited.
ClaimableForever(j) ==
  /\ \/ status[j] \in {"pending", "queued"}
     \/ status[j] = "running" /\ lease[j] = "expired"
  /\ due[j]

\* Mutant of Claimable: a running job's lease is not looked at.
ClaimableUnderLease(j) ==
  /\ status[j] \in {"pending", "queued", "running"}
  /\ due[j]
  /\ attempts[j] < MaxAttempts

\* Mutant of Claimable: a running job is never reclaimed.
ClaimableOnce(j) ==
  /\ status[j] \in {"pending", "queued"}
  /\ due[j]
  /\ attempts[j] < MaxAttempts

Claimable(j) ==
  /\ \/ status[j] \in {"pending", "queued"}
     \/ status[j] = "running" /\ lease[j] = "expired"
  /\ due[j]
  /\ attempts[j] < MaxAttempts

\* ORDER BY priority, created_at LIMIT batch_size.
Chosen ==
  {j \in Job : Claimable(j)
               /\ Cardinality({k \in Job : Claimable(k) /\ Rank[k] < Rank[j]}) < BatchSize}

\* claim: all jobs of the batch get the same five minutes, from now on.
Claim(p) ==
  /\ pc[p] = "polling" /\ batch[p] = {} /\ table = "ready"
  /\ Chosen # {}
  /\ status' = [j \in Job |-> IF j \in Chosen THEN "running" ELSE status[j]]
  /\ attempts' = [j \in Job |-> IF j \in Chosen THEN attempts[j] + 1 ELSE attempts[j]]
  /\ lease' = [j \in Job |-> IF j \in Chosen THEN "held" ELSE lease[j]]
  /\ batch' = [batch EXCEPT ![p] = {[job |-> j, attempt |-> attempts[j] + 1] : j \in Chosen}]
  /\ UNCHANGED <<table, due, pc, current, history>>

\* process_jobs raises: the rest of the batch is left as it is, in status running.
Leaves(p, s) ==
  /\ Goes(p, s)
  /\ batch' = [batch EXCEPT ![p] = {}]
  /\ current' = [current EXCEPT ![p] = {}]

\* process_jobs goes on with the next job of its batch.
GoesOn(p) ==
  /\ Goes(p, "polling")
  /\ current' = [current EXCEPT ![p] = {}]
  /\ UNCHANGED batch

\* The UPDATE of complete, or of fail without a retry: by id, whatever the status is.
Ends(j, s) ==
  /\ status' = [status EXCEPT ![j] = s]
  /\ lease' = [lease EXCEPT ![j] = "none"]
  /\ UNCHANGED <<attempts, due>>

\* A handler is started; what it does is not the queue's business.
StartHandler(p) ==
  /\ pc[p] = "polling"
  /\ \E e \in batch[p] :
       /\ e.job \notin Unhandled
       /\ batch' = [batch EXCEPT ![p] = @ \ {e}]
       /\ current' = [current EXCEPT ![p] = {e}]
       /\ runs' = [runs EXCEPT ![e.job] = @ + 1]
  /\ Goes(p, "running")
  /\ UNCHANGED <<table, rows, wins, overrun, cut, faults>>

\* No handler for the job's type: it fails for good, at its first attempt.
NoHandler(p) ==
  /\ pc[p] = "polling"
  /\ \E e \in batch[p] :
       /\ e.job \in Unhandled
       /\ IF table = "ready"
          THEN /\ Ends(e.job, "failed")
               /\ batch' = [batch EXCEPT ![p] = @ \ {e}]
               /\ UNCHANGED <<pc, current>>
          ELSE Leaves(p, "polling") /\ UNCHANGED rows
  /\ UNCHANGED <<table, history>>

\* The handler reports success.
Succeeds(p) ==
  /\ pc[p] = "running"
  /\ \E e \in current[p] : wins' = [wins EXCEPT ![e.job] = @ + 1]
  /\ Goes(p, "succeeded")
  /\ UNCHANGED <<table, rows, batch, current, runs, overrun, cut, faults>>

\* Mutant of Complete: the lease is given up but the status is not written.
CompleteQuietly(p) ==
  /\ pc[p] = "succeeded" /\ table = "ready"
  /\ \E e \in current[p] : lease' = [lease EXCEPT ![e.job] = "expired"]
  /\ GoesOn(p)
  /\ UNCHANGED <<table, status, attempts, due, history>>

\* complete.
Complete(p) ==
  /\ pc[p] = "succeeded" /\ table = "ready"
  /\ \E e \in current[p] : Ends(e.job, "completed")
  /\ GoesOn(p)
  /\ UNCHANGED <<table, history>>

\* The handler fails or raises, with attempts left: fail's UPDATE holds the placeholder
\* of an f-string that is none, so it raises, and so does the same call in the handler
\* of that exception.  Without attempts left it is marked failed.
Fails(p) ==
  /\ pc[p] = "running"
  /\ \E e \in current[p] :
       IF e.attempt < MaxAttempts \/ table # "ready"
       THEN Leaves(p, "polling") /\ UNCHANGED rows
       ELSE Ends(e.job, "failed") /\ GoesOn(p)
  /\ UNCHANGED <<table, history>>

Budgeted == faults < MaxFaults /\ faults' = faults + 1

CutOff(p) == cut' = cut \cup {e.job : e \in {x \in current[p] : pc[p] = "succeeded"}}

\* complete raises, on a lost connection or on a table without status, and so does fail;
\* or on a live one with attempts left, where fail raises by itself.
CompleteRaises(p) ==
  /\ pc[p] = "succeeded"
  /\ IF table = "ready" THEN Budgeted ELSE UNCHANGED faults
  /\ CutOff(p)
  /\ Leaves(p, "polling")
  /\ UNCHANGED <<table, rows, runs, wins, overrun>>

\* complete raises on a live connection at the last attempt: the exception's handler marks
\* the job, which succeeded, as failed.
CompleteOverruled(p) ==
  /\ pc[p] = "succeeded" /\ table = "ready"
  /\ Budgeted
  /\ \E e \in current[p] : e.attempt >= MaxAttempts /\ Ends(e.job, "failed")
  /\ CutOff(p)
  /\ GoesOn(p)
  /\ UNCHANGED <<table, runs, wins, overrun>>

\* A process dies, or is stopped by a deployment.
Stop(p) ==
  /\ pc[p] # "down"
  /\ Budgeted
  /\ CutOff(p)
  /\ Leaves(p, "down")
  /\ UNCHANGED <<table, rows, runs, wins, overrun>>

\* Five minutes pass since the claim; nothing renews a lease, neither for the job that
\* runs nor for those behind it in the batch.
LeaseExpires(j) ==
  /\ status[j] = "running" /\ lease[j] = "held"
  /\ lease' = [lease EXCEPT ![j] = "expired"]
  /\ overrun' = IF \E p \in Process : Holds(p, j) THEN overrun \cup {j} ELSE overrun
  /\ UNCHANGED <<table, status, attempts, due, procs, runs, wins, cut, faults>>

ComesDue(j) ==
  /\ status[j] = "pending" /\ ~ due[j]
  /\ due' = [due EXCEPT ![j] = TRUE]
  /\ UNCHANGED <<table, status, attempts, lease, procs, history>>

Step(p) ==
  \/ CreateTables(p) \/ Claim(p) \/ StartHandler(p) \/ NoHandler(p) \/ Succeeds(p)
  \/ Complete(p) \/ Fails(p)

Next ==
  \/ \E j \in Job, scheduled \in BOOLEAN : Enqueue(j, scheduled)
  \/ \E p \in Process : DropTypes(p) \/ Step(p) \/ CompleteRaises(p) \/ CompleteOverruled(p)
                     \/ Stop(p)
  \/ \E j \in Job : LeaseExpires(j) \/ ComesDue(j)

Spec == Init /\ [][Next]_vars

\* The loop of a process that was started goes on; handlers end; time passes.
FairSpec ==
  /\ Spec
  /\ \A p \in Process : WF_vars(Step(p))
  /\ \A j \in Job : WF_vars(LeaseExpires(j)) /\ WF_vars(ComesDue(j))

-------------------------------------------------------------------------------
\* Every variable has its type.
TypeOK ==
  /\ table \in {"absent", "ready", "broken"}
  /\ status \in [Job -> Status]
  /\ attempts \in [Job -> 0..MaxAttempts]
  /\ due \in [Job -> BOOLEAN]
  /\ lease \in [Job -> {"none", "held", "expired"}]
  /\ pc \in [Process -> {"down", "starting", "polling", "running", "succeeded"}]
  /\ batch \in [Process -> SUBSET Entry]
  /\ current \in [Process -> SUBSET Entry]
  /\ runs \in [Job -> Nat]
  /\ wins \in [Job -> Nat]
  /\ overrun \subseteq Job /\ cut \subseteq Job
  /\ faults \in 0..MaxFaults

\* However leases end, processes stop and batches are left, a job's handler is started
\* at most max_attempts times: an attempt is paid for before it is made.
RunsBounded == \A j \in Job : runs[j] <= MaxAttempts

\* Two processes have one job in hand only if its lease ended while one of them had it.
ExclusiveUnlessOverrun ==
  \A p, q \in Process, j \in Job \ overrun : Holds(p, j) /\ Holds(q, j) => p = q

\* What succeeded is not done again and is not on record as failed, unless the success
\* could not be recorded or two processes had the job at a time.
SucceedsOnce ==
  \A j \in Job \ (cut \cup overrun) :
    /\ wins[j] <= 1
    /\ wins[j] = 1 => \/ status[j] \in {"completed", "lost"}
                      \/ \E p \in Process : pc[p] = "succeeded" /\ Holds(p, j)

\* A verdict is final, as long as no two processes had the job and its table is whole.
VerdictStays ==
  [][\A j \in Job \ overrun' :
       status[j] \in Final => status'[j] \in {status[j], "lost"}]_vars

\* Where one process runs by itself and does not stop, every job gets a verdict or uses
\* its attempts up: none is forgotten behind a failed one, after its lease or its schedule.
Alone(p) == faults = 0 /\ \A q \in Process \ {p} : pc[q] = "down"

Drains ==
  \A p \in Process :
    []Alone(p) /\ <>(pc[p] = "polling") =>
      \A j \in Job : <>[](status[j] \in {"none", "lost"} \cup Final
                        \/ attempts[j] = MaxAttempts)
===============================================================================
