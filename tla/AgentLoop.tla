------------------------------- MODULE AgentLoop -------------------------------
(***************************************************************************)
(* FormAgent.run_forever and _listen_loop of src/apps/worker/agent.py: how *)
(* an agent that runs as a process of its own learns that there is work.   *)
(* A swipe queues a row and notifies the channel job_queue; a retry, a     *)
(* release or an aged lock makes a row claimable without a notification,   *)
(* an aged lock even while the agent that took the row goes on with it.    *)
(* run_once is reduced to its rate limiter, taking a row and being done    *)
(* with it; FormAgent has the whole of it.                                 *)
(*                                                                         *)
(* _processing_limiter (RateLimiter.allow_sync of src/shared/metrics.py,   *)
(* as it is without Redis: one per process) admits MaxCalls calls of       *)
(* run_once in any minute, those that find no row included.  The minute is *)
(* kept as the calls that are still in it.                                 *)
(***************************************************************************)
EXTENDS Integers

CONSTANTS
  Agent,           \* agent processes
  Row,             \* applications
  NoRow,
  MaxCalls,        \* max_applications_per_minute
  MaxDrops         \* bound: listener connections lost, retries, locks that age under
                   \* their holder and processes that die

ASSUME AgentLoopAssumption == NoRow \notin Row /\ MaxDrops \in Nat /\ MaxCalls \in Nat \ {0}

VARIABLES
  row,             \* a row is new, claimable, taken, resting (a retry or an aging
                   \* lock), or done; claimable is what the claim statement takes, be
                   \* the status QUEUED or PROCESSING with an aged lock
  pc,              \* where run_forever of an agent is
  taken,           \* the row that run_once processes
  listening,       \* LISTEN is in effect on the listener's connection
  notified,        \* rows announced to a connection and not yet delivered
  wake_event,
  calls,           \* calls of run_once that the limiter admitted in the last minute
  drops,           \* history: how much of MaxDrops is used
  expired          \* history: rows whose lock aged under its holder

vars == <<row, pc, taken, listening, notified, wake_event, calls, drops, expired>>

\* Mutant of Claimable: the age of the lock of a PROCESSING row is not looked at.
ClaimableLocked == {r \in Row : row[r] \in {"claimable", "taken"}}

Claimable == {r \in Row : row[r] = "claimable"}

Init ==
  /\ row = [r \in Row |-> "new"]
  /\ pc = [a \in Agent |-> "looking"]
  /\ taken = [a \in Agent |-> NoRow]
  /\ listening = [a \in Agent |-> FALSE]
  /\ notified = [a \in Agent |-> {}]
  /\ wake_event = [a \in Agent |-> FALSE]
  /\ calls = [a \in Agent |-> 0]
  /\ drops = 0
  /\ expired = {}

-------------------------------------------------------------------------------
Goes(a, s) == pc' = [pc EXCEPT ![a] = s]
Budgeted == drops < MaxDrops /\ drops' = drops + 1

\* create_application commits a QUEUED row and NOTIFY job_queue together.
Swipe(r) ==
  /\ row[r] = "new"
  /\ row' = [row EXCEPT ![r] = "claimable"]
  /\ notified' = [a \in Agent |-> IF listening[a] THEN notified[a] \cup {r} ELSE notified[a]]
  /\ UNCHANGED <<pc, taken, listening, wake_event, calls, drops, expired>>

\* The event loop hands the notification to the listener's callback.
Deliver(a) ==
  /\ notified[a] # {}
  /\ wake_event' = [wake_event EXCEPT ![a] = TRUE]
  /\ notified' = [notified EXCEPT ![a] = {}]
  /\ UNCHANGED <<row, pc, taken, listening, calls, drops, expired>>

\* Mutant of Admit: a call is refused for good once the limit was reached.
AdmitOnce(a) ==
  /\ pc[a] = "looking"
  /\ calls[a] < MaxCalls
  /\ calls' = [calls EXCEPT ![a] = IF @ = MaxCalls - 1 THEN MaxCalls + 1 ELSE @ + 1]
  /\ Goes(a, "claiming")
  /\ UNCHANGED <<row, taken, listening, notified, wake_event, drops, expired>>

\* run_once asks the limiter first ...
Admit(a) ==
  /\ pc[a] = "looking"
  /\ calls[a] < MaxCalls
  /\ calls' = [calls EXCEPT ![a] = @ + 1]
  /\ Goes(a, "claiming")
  /\ UNCHANGED <<row, taken, listening, notified, wake_event, drops, expired>>

\* ... and when it is over its limit returns False without a look at the queue.
Refuse(a) ==
  /\ pc[a] = "looking" /\ calls[a] = MaxCalls
  /\ Goes(a, "empty")
  /\ UNCHANGED <<row, taken, listening, notified, wake_event, calls, drops, expired>>

\* The oldest of the calls is a minute ago.
CallAges(a) ==
  /\ calls[a] > 0
  /\ calls' = [calls EXCEPT ![a] = @ - 1]
  /\ UNCHANGED <<row, pc, taken, listening, notified, wake_event, drops, expired>>

\* run_once claims a row ...
Take(a) ==
  /\ pc[a] = "claiming"
  /\ \E r \in Claimable :
       /\ row' = [row EXCEPT ![r] = "taken"]
       /\ taken' = [taken EXCEPT ![a] = r]
  /\ Goes(a, "processing")
  /\ UNCHANGED <<listening, notified, wake_event, calls, drops, expired>>

\* ... or finds none.
FindNone(a) ==
  /\ pc[a] = "claiming" /\ Claimable = {}
  /\ Goes(a, "empty")
  /\ UNCHANGED <<row, taken, listening, notified, wake_event, calls, drops, expired>>

\* run_once returns True: the row is settled, or will be claimable later.  The write is
\* by id, whatever another agent that took the row since has made of it.
Processed(a) ==
  /\ pc[a] = "processing"
  /\ \/ row' = [row EXCEPT ![taken[a]] = "done"] /\ UNCHANGED drops
     \/ row' = [row EXCEPT ![taken[a]] = "resting"] /\ Budgeted
  /\ taken' = [taken EXCEPT ![a] = NoRow]
  /\ Goes(a, "looking")
  /\ UNCHANGED <<listening, notified, wake_event, calls, expired>>

\* wake_event.clear(), then wait_for(wake_event.wait()).
Wait(a) ==
  /\ pc[a] = "empty"
  /\ wake_event' = [wake_event EXCEPT ![a] = FALSE]
  /\ Goes(a, "waiting")
  /\ UNCHANGED <<row, taken, listening, notified, calls, drops, expired>>

Wake(a) ==
  /\ pc[a] = "waiting" /\ wake_event[a]
  /\ Goes(a, "looking")
  /\ UNCHANGED <<row, taken, listening, notified, wake_event, calls, drops, expired>>

\* Mutant of TimeOut: after the timeout the loop waits again without a look.
TimeOutWaitsAgain(a) ==
  /\ pc[a] = "waiting"
  /\ Goes(a, "empty")
  /\ UNCHANGED <<row, taken, listening, notified, wake_event, calls, drops, expired>>

\* poll_interval_seconds have passed.
TimeOut(a) ==
  /\ pc[a] = "waiting"
  /\ Goes(a, "looking")
  /\ UNCHANGED <<row, taken, listening, notified, wake_event, calls, drops, expired>>

\* _listen_loop connects and adds its listener; it keeps trying.
Listen(a) ==
  /\ ~ listening[a] /\ pc[a] # "dead"
  /\ listening' = [listening EXCEPT ![a] = TRUE]
  /\ UNCHANGED <<row, pc, taken, notified, wake_event, calls, drops, expired>>

\* The connection is lost, and with it what it has not delivered.
LoseConnection(a) ==
  /\ listening[a]
  /\ Budgeted
  /\ listening' = [listening EXCEPT ![a] = FALSE]
  /\ notified' = [notified EXCEPT ![a] = {}]
  /\ UNCHANGED <<row, pc, taken, wake_event, calls, expired>>

OnlyHand(a, r) == taken[a] = r /\ \A b \in Agent \ {a} : taken[b] # r

\* An exception that run_once lets out ends run_forever, and the process with it.
Die(a) ==
  /\ pc[a] # "dead"
  /\ Budgeted
  /\ row' = [r \in Row |-> IF OnlyHand(a, r) /\ row[r] = "taken" THEN "resting" ELSE row[r]]
  /\ taken' = [taken EXCEPT ![a] = NoRow]
  /\ listening' = [listening EXCEPT ![a] = FALSE]
  /\ notified' = [notified EXCEPT ![a] = {}]
  /\ wake_event' = [wake_event EXCEPT ![a] = FALSE]
  /\ calls' = [calls EXCEPT ![a] = 0]
  /\ Goes(a, "dead")
  /\ UNCHANGED expired

\* The host starts the process again.
Restart(a) ==
  /\ pc[a] = "dead"
  /\ Goes(a, "looking")
  /\ UNCHANGED <<row, taken, listening, notified, wake_event, calls, drops, expired>>

\* A retry comes due or a lock is ten minutes old; nobody is notified.
Ripen(r) ==
  /\ row[r] = "resting"
  /\ row' = [row EXCEPT ![r] = "claimable"]
  /\ UNCHANGED <<pc, taken, listening, notified, wake_event, calls, drops, expired>>

\* The lock is ten minutes old and its holder goes on: the next claim takes the row as well.
LockAges(r) ==
  /\ row[r] = "taken"
  /\ Budgeted
  /\ row' = [row EXCEPT ![r] = "claimable"]
  /\ expired' = expired \cup {r}
  /\ UNCHANGED <<pc, taken, listening, notified, wake_event, calls>>

Step(a) == Admit(a) \/ Refuse(a) \/ Take(a) \/ FindNone(a) \/ Processed(a) \/ Wait(a) \/ Wake(a) \/ TimeOut(a)
           \/ Restart(a)

Next ==
  \/ \E r \in Row : Swipe(r) \/ Ripen(r) \/ LockAges(r)
  \/ \E a \in Agent : \/ Step(a) \/ CallAges(a) \/ Deliver(a) \/ Listen(a) \/ LoseConnection(a) \/ Die(a)

Spec == Init /\ [][Next]_vars

\* The event loop runs what is ready, wait_for has a timeout, and time passes.
FairSpec ==
  /\ Spec
  /\ \A a \in Agent : WF_vars(Step(a)) /\ WF_vars(CallAges(a))
  /\ \A r \in Row : WF_vars(Ripen(r))

-------------------------------------------------------------------------------
\* Every variable has its type.
TypeOK ==
  /\ row \in [Row -> {"new", "claimable", "taken", "resting", "done"}]
  /\ pc \in [Agent -> {"looking", "claiming", "processing", "empty", "waiting", "dead"}]
  /\ taken \in [Agent -> Row \cup {NoRow}]
  /\ listening \in [Agent -> BOOLEAN]
  /\ notified \in [Agent -> SUBSET Row]
  /\ wake_event \in [Agent -> BOOLEAN]
  /\ calls \in [Agent -> 0..MaxCalls]
  /\ drops \in 0..MaxDrops
  /\ expired \subseteq Row

\* A row whose lock never aged under its holder is in the hands of one agent at most, and
\* nobody else has written it meanwhile; and whatever aged or died, a row that is taken is
\* in the hands of an agent that goes on.
OneHand ==
  /\ \A a, b \in Agent : taken[a] = taken[b] /\ taken[a] \notin expired \cup {NoRow} => a = b
  /\ \A a \in Agent : taken[a] \notin expired \cup {NoRow} => row[taken[a]] = "taken"
  /\ \A r \in Row : row[r] = "taken" => \E a \in Agent : taken[a] = r

\* No row that was swiped is left in the queue for good: not when its notification comes
\* while an agent looks elsewhere or is over its limit, is lost with a connection, or was
\* never sent, not when idle polls use up the calls of the minute, and not when an agent
\* that lost its lock writes over what the next one made of the row.
EveryRowIsProcessed == \A r \in Row : (row[r] # "new") ~> (row[r] = "done")
===============================================================================
