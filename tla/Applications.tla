----------------------------- MODULE Applications -----------------------------
(***************************************************************************)
(* The tables the worker and the API share: a row of applications per      *)
(* application, its application_inputs and its job_dead_letter_queue rows, *)
(* and the SQL statements that the code runs on them.  A statement (or a   *)
(* transaction) is one atomic update; no statement here looks at the       *)
(* status it overwrites, because none in the code does.                    *)
(*                                                                         *)
(* Time is kept as two facts about a row: it is deferred while             *)
(* available_at or snoozed_until lies in the future, and its lock is stale *)
(* once locked_at is more than ten minutes old.                            *)
(***************************************************************************)
EXTENDS Integers, FiniteSets

CONSTANTS
  App,            \* applications: (user, job) pairs
  Field,          \* form fields the agent may have to ask the user about
  Rank,           \* position in the order the claim picks rows; smaller first
  MaxAttempts,    \* max_attempts in shared/config.py
  MaxHolds,       \* bound: how often one application is put on hold
  EventLabels     \* labels the deployed application_event_type accepts

ASSUME ApplicationsAssumption ==
  /\ Rank \in [App -> Nat]
  /\ \A a, b \in App : Rank[a] = Rank[b] => a = b
  /\ MaxAttempts \in Nat \ {0}
  /\ MaxHolds \in Nat \ {0}

VARIABLES
  status,         \* applications.status, "NONE" when there is no row
  attempts,       \* applications.attempt_count
  deferred,       \* which of available_at, snoozed_until lie in the future
  stale,          \* locked_at < now() - interval '10 minutes'
  inputs,         \* application_inputs of an application
  holds,          \* number of hold transactions so far: the next one's number
  dlq             \* number of job_dead_letter_queue rows of an application

rows == <<status, attempts, deferred, stale, inputs, holds, dlq>>

Status == {"NONE", "QUEUED", "PROCESSING", "REQUIRES_INPUT", "APPLIED", "FAILED",
           "REJECTED"}

\* A question put to the user; hold tells the transactions that asked apart.  It is
\* resolved exactly when it has an answer: both are written together.
Input == [field : Field, hold : Nat, resolved : BOOLEAN]

RowsType ==
  /\ status \in [App -> Status]
  /\ attempts \in [App -> Nat]
  /\ deferred \in [App -> SUBSET {"available_at", "snoozed_until"}]
  /\ stale \in [App -> BOOLEAN]
  /\ inputs \in [App -> SUBSET Input]
  /\ holds \in [App -> Nat]
  /\ dlq \in [App -> Nat]

\* Every row as a swipe inserts it with status s; with "NONE", before any swipe.
RowsInit(s) ==
  /\ status = [a \in App |-> s]
  /\ attempts = [a \in App |-> 0]
  /\ deferred = [a \in App |-> {}]
  /\ stale = [a \in App |-> FALSE]
  /\ inputs = [a \in App |-> {}]
  /\ holds = [a \in App |-> 0]
  /\ dlq = [a \in App |-> 0]

-------------------------------------------------------------------------------
\* UPDATE applications SET status = ... WHERE id = a: nothing if the row is gone.
SetStatus(a, s) ==
  status' = [status EXCEPT ![a] = IF @ = "NONE" THEN "NONE" ELSE s]

\* record_event succeeds: the row exists (foreign key) and the enum has the label.
CanEmit(a, label) == status[a] # "NONE" /\ label \in EventLabels

Unresolved(a) == {i \in inputs[a] : ~ i.resolved}

\* Mutant of Claimable: the lock's age is not looked at.
ClaimableIgnoringLock(a) ==
  /\ status[a] \in {"QUEUED", "PROCESSING"}
  /\ deferred[a] = {}
  /\ attempts[a] < MaxAttempts

\* Mutant of Claimable: a row under a lock, however old, is never picked up again.
ClaimableQueuedOnly(a) ==
  /\ status[a] = "QUEUED"
  /\ deferred[a] = {}
  /\ attempts[a] < MaxAttempts

\* Mutant of Claimable: rows that wait for their user are picked up as well.
ClaimableAnswered(a) ==
  /\ \/ status[a] \in {"QUEUED", "REQUIRES_INPUT"}
     \/ status[a] = "PROCESSING" /\ stale[a]
  /\ deferred[a] = {}
  /\ attempts[a] < MaxAttempts

\* The rows claim_next_prioritized may pick: queued, or processing under a lock
\* that is older than ten minutes.
Claimable(a) ==
  /\ \/ status[a] = "QUEUED"
     \/ status[a] = "PROCESSING" /\ stale[a]
  /\ deferred[a] = {}
  /\ attempts[a] < MaxAttempts

\* ORDER BY priority_score DESC, created_at ASC LIMIT 1.
First(S, a) == a \in S /\ \A b \in S : Rank[a] <= Rank[b]

\* claim_next_prioritized: marks the row and stamps the lock; attempt_count stays.
ClaimNext(a) ==
  /\ First({b \in App : Claimable(b)}, a)
  /\ status' = [status EXCEPT ![a] = "PROCESSING"]
  /\ stale' = [stale EXCEPT ![a] = FALSE]
  /\ UNCHANGED <<attempts, deferred, inputs, holds, dlq>>

\* insert_unresolved: nothing in the schema makes a second row for the same selector
\* conflict, so ON CONFLICT DO NOTHING never applies.
InsertUnresolved(a, fields) ==
  /\ inputs' = [inputs EXCEPT ![a] =
       @ \cup [field : fields, hold : {holds[a]}, resolved : {FALSE}]]
  /\ holds' = [holds EXCEPT ![a] = @ + 1]

\* Ten minutes pass since locked_at.
LockAges(a) ==
  /\ status[a] = "PROCESSING" /\ ~ stale[a]
  /\ stale' = [stale EXCEPT ![a] = TRUE]
  /\ UNCHANGED <<status, attempts, deferred, inputs, holds, dlq>>

\* available_at or snoozed_until is reached.
DeferralEnds(a) ==
  /\ \E d \in deferred[a] : deferred' = [deferred EXCEPT ![a] = @ \ {d}]
  /\ UNCHANGED <<status, attempts, stale, inputs, holds, dlq>>
===============================================================================
