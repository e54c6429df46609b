--------------------------- MODULE JobQueueRefinement ---------------------------
(***************************************************************************)
(* JobQueue implements BackgroundJobs: leases, batches, processes and what *)
(* happens to the table show no more than the abstract life of a job.      *)
(***************************************************************************)
EXTENDS JobQueue

\* A process is at s with job j.
At(s, j) == \E p \in Process : pc[p] = s /\ \E e \in current[p] : e.job = j

\* Track of a job is lost when its lease ends under a process that has it, when its
\* success cannot be written, and with the columns of its row.
Lost(j) == j \in overrun \cup cut \/ status[j] = "lost"

LifeOf(j) ==
  IF status[j] = "none" THEN "none"
  ELSE IF Lost(j) THEN "unknown"
  ELSE IF status[j] \in Final THEN status[j]
  ELSE IF At("succeeded", j) THEN "succeeded"
  ELSE IF At("running", j) THEN "running" ELSE "open"

J == INSTANCE BackgroundJobs WITH
       life <- [j \in Job |-> LifeOf(j)],
       starts <- runs,
       Limit <- MaxAttempts

\* job_queue.py and its worker, with their claims, leases, batches, stops and the tables
\* they drop, keep the promises of BackgroundJobs about every job.
QueuePromises == J!Spec
===============================================================================
