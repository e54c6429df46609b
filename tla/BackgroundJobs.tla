----------------------------- MODULE BackgroundJobs -----------------------------
(***************************************************************************)
(* What the background queue promises about a job, whatever its processes, *)
(* leases, batches and restarts do.  Of the jobs with one key one is       *)
(* accepted.  A job runs once at a time and Limit times at most; one that  *)
(* succeeded does not run again, and its verdict is completed; failed is   *)
(* the verdict of a run that failed, or of a job that was never run; and a *)
(* verdict is final.  The one escape is that track of a job is lost, which *)
(* is for good: all that is promised then is the limit.                    *)
(***************************************************************************)
EXTENDS Integers

CONSTANTS Job, NoKey, KeyOf, Limit

VARIABLES
  life,     \* what has become of a job
  starts    \* how often it was run

vars == <<life, starts>>

Init ==
  /\ life = [j \in Job |-> "none"]
  /\ starts = [j \in Job |-> 0]

Becomes(j, s) == life' = [life EXCEPT ![j] = s]

Accept(j) ==
  /\ life[j] = "none"
  /\ \A k \in Job : life[k] # "none" => KeyOf[k] # KeyOf[j] \/ KeyOf[j] = NoKey
  /\ Becomes(j, "open")
  /\ UNCHANGED starts

\* A run, which is counted whether or not anyone knows what it finds.
Start(j) ==
  /\ starts[j] < Limit
  /\ starts' = [starts EXCEPT ![j] = @ + 1]
  /\ \/ life[j] = "open" /\ Becomes(j, "running")
     \/ life[j] = "unknown" /\ UNCHANGED life

\* The run is broken off, and may be made anew.
Break(j) ==
  /\ life[j] = "running" /\ Becomes(j, "open")
  /\ UNCHANGED starts

Succeed(j) ==
  /\ life[j] = "running" /\ Becomes(j, "succeeded")
  /\ UNCHANGED starts

Record(j) ==
  /\ life[j] = "succeeded" /\ Becomes(j, "completed")
  /\ UNCHANGED starts

GiveUp(j) ==
  /\ life[j] = "running" \/ (life[j] = "open" /\ starts[j] = 0)
  /\ Becomes(j, "failed")
  /\ UNCHANGED starts

\* Track of some of the jobs is lost.
Lose ==
  /\ \E lost \in SUBSET {j \in Job : life[j] # "none"} :
       life' = [j \in Job |-> IF j \in lost THEN "unknown" ELSE life[j]]
  /\ UNCHANGED starts

Next ==
  \/ Lose
  \/ \E j \in Job : Accept(j) \/ Start(j) \/ Break(j) \/ Succeed(j) \/ Record(j) \/ GiveUp(j)

Spec == Init /\ [][Next]_vars
===============================================================================
