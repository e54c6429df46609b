------------------------------- MODULE JobHuntin -------------------------------
(***************************************************************************)
(* The users' requests about applications (src/apps/api/user.py and        *)
(* core_routes.py) run against the same rows as the workers of FormAgent.  *)
(*                                                                         *)
(* A handler is cut between its statements: it reads, decides, and writes  *)
(* in a later step without looking at the row again.  Only the swipe locks *)
(* the row it reads, which helps when there is a row.                      *)
(*                                                                         *)
(* An element of App is here the id of a row: an undone swipe deletes its  *)
(* row, and swiping the job again makes a row with another id.             *)
(***************************************************************************)
EXTENDS FormAgent

CONSTANTS
  Job,             \* the jobs one user swipes on
  JobOf,           \* the job a row is about
  Client,          \* requests in flight at a time
  Operations,      \* the operations clients call in a run
  MaxRequests      \* bound: requests that write

Idle == [op |-> "none"]

ASSUME JobHuntinAssumption ==
  /\ JobOf \in [App -> Job]
  /\ Operations \subseteq {"accept", "reject", "undo", "answer", "resume", "snooze",
                           "withdraw", "patch", "stage"}
  /\ MaxRequests \in Nat

VARIABLES
  request,         \* what each client's handler has read and means to write
  created,         \* ids of rows that exist or have existed
  recent,          \* rows whose created_at is less than ten seconds ago
  requests,        \* history: requests begun
  overtaken,       \* history: rows queued over a status other than the one read
  undone           \* history: jobs a row of which was deleted by an undo

api == <<request, created, recent>>
apiHistory == <<requests, overtaken, undone>>
allVars == <<vars, api, apiHistory>>

Exists(a) == status[a] # "NONE"
RowsOf(j) == {a \in App : JobOf[a] = j /\ Exists(a)}

ApiInit ==
  /\ request = [c \in Client |-> Idle]
  /\ created = {}
  /\ recent = {}
  /\ requests = 0
  /\ overtaken = {} /\ undone = {}

\* No row yet: every application starts with a swipe.
SystemInit == RowsInit("NONE") /\ AgentInit /\ ApiInit

-------------------------------------------------------------------------------
\* The handler of client c has read what r says; or it answers and is done.
Reads(c, r) ==
  /\ request[c] = Idle /\ requests < MaxRequests
  /\ request' = [request EXCEPT ![c] = r]
  /\ requests' = requests + 1
  /\ UNCHANGED <<vars, created, recent, overtaken, undone>>

Answers(c) == request' = [request EXCEPT ![c] = Idle]

\* create_application: SELECT ... FOR UPDATE finds no row and so locks none.  (With a
\* row it answers "duplicate" and changes nothing.)  Bound: an id is left for the row.
Swipe(c, decision, j) ==
  /\ decision \in Operations /\ RowsOf(j) = {}
  /\ \E a \in App \ created : JobOf[a] = j
  /\ Reads(c, [op |-> decision, job |-> j])

\* Mutant of Insert: without the UNIQUE constraint there is no conflict.
InsertAlways(c) ==
  LET r == request[c]
      s == IF r.op = "accept" THEN "QUEUED" ELSE "REJECTED" IN
  /\ r.op \in {"accept", "reject"}
  /\ \E a \in App \ created :
       /\ JobOf[a] = r.job
       /\ status' = [status EXCEPT ![a] = s]
       /\ created' = created \cup {a} /\ recent' = recent \cup {a}
  /\ Answers(c)
  /\ UNCHANGED <<attempts, deferred, stale, inputs, holds, dlq, agent, history, requests,
                 overtaken, undone>>

\* INSERT ... ON CONFLICT (user_id, job_id) DO UPDATE SET status = ...
Insert(c) ==
  LET r == request[c]
      s == IF r.op = "accept" THEN "QUEUED" ELSE "REJECTED" IN
  /\ r.op \in {"accept", "reject"}
  /\ \/ \E a \in RowsOf(r.job) :
          /\ status' = [status EXCEPT ![a] = s]
          /\ overtaken' = IF s = "QUEUED" THEN overtaken \cup {a} ELSE overtaken
          /\ UNCHANGED <<created, recent>>
     \/ /\ RowsOf(r.job) = {}
        /\ \E a \in App \ created :
             /\ JobOf[a] = r.job
             /\ status' = [status EXCEPT ![a] = s]
             /\ created' = created \cup {a} /\ recent' = recent \cup {a}
        /\ UNCHANGED overtaken
  /\ Answers(c)
  /\ UNCHANGED <<attempts, deferred, stale, inputs, holds, dlq, agent, history, requests,
                 undone>>

\* undo_application: a row younger than ten seconds is found ...
FindUndo(c, j) ==
  /\ "undo" \in Operations /\ RowsOf(j) \cap recent # {}
  /\ Reads(c, [op |-> "undo", job |-> j])

\* ... and whatever row the job then has is deleted, with its application_inputs.
Undo(c) ==
  LET rowsOfJob == RowsOf(request[c].job) IN
  /\ request[c].op = "undo"
  /\ status' = [a \in App |-> IF a \in rowsOfJob THEN "NONE" ELSE status[a]]
  /\ inputs' = [a \in App |-> IF a \in rowsOfJob THEN {} ELSE inputs[a]]
  /\ undone' = undone \cup {request[c].job}
  /\ Answers(c)
  /\ UNCHANGED <<attempts, deferred, stale, holds, dlq, agent, history, created, recent,
                 requests, overtaken>>

\* answer_hold reads the status, then - on another connection - the open questions.
BeginAnswer(c, a) ==
  /\ "answer" \in Operations /\ status[a] = "REQUIRES_INPUT"
  /\ Reads(c, [op |-> "questions", app |-> a])

\* The oldest open question gets the answer; with none open it is a conflict.
ReadQuestions(c) ==
  LET a == request[c].app IN
  /\ request[c].op = "questions"
  /\ IF Unresolved(a) = {} THEN Answers(c)
     ELSE \E i \in Unresolved(a) :
            /\ \A k \in Unresolved(a) : i.hold <= k.hold
            /\ request' = [request EXCEPT ![c] =
                             [op |-> "answer", app |-> a, answered |-> {i}]]
  /\ UNCHANGED <<vars, created, recent, apiHistory>>

\* resume_task reads the status; the body names the questions it answers.
BeginResume(c, a) ==
  /\ "resume" \in Operations /\ status[a] = "REQUIRES_INPUT"
  /\ \E answered \in SUBSET inputs[a] :
       answered # {} /\ Reads(c, [op |-> "answer", app |-> a, answered |-> answered])

\* update_answers, by the ids of the questions.
Resolved(a, answered) ==
  {IF \E k \in answered : k.field = i.field /\ k.hold = i.hold
   THEN [i EXCEPT !.resolved = TRUE] ELSE i : i \in inputs[a]}

\* Mutant of WriteAnswer: the answers are committed before the status is written.
WriteAnswerOnly(c) ==
  LET a == request[c].app IN
  /\ request[c].op = "answer"
  /\ inputs' = [inputs EXCEPT ![a] = Resolved(a, request[c].answered)]
  /\ Answers(c)
  /\ UNCHANGED <<status, overtaken, attempts, deferred, stale, holds, dlq, agent, history,
                 created, recent, requests, undone>>

\* Answers, events and status in one transaction, which fails if the row is gone.
WriteAnswer(c) ==
  LET a == request[c].app IN
  /\ request[c].op = "answer"
  /\ IF CanEmit(a, "USER_ANSWERED") /\ CanEmit(a, "RETRY_SCHEDULED")
     THEN /\ inputs' = [inputs EXCEPT ![a] = Resolved(a, request[c].answered)]
          /\ SetStatus(a, "QUEUED")
          /\ overtaken' = IF status[a] = "REQUIRES_INPUT" THEN overtaken
                          ELSE overtaken \cup {a}
     ELSE UNCHANGED <<inputs, status, overtaken>>
  /\ Answers(c)
  /\ UNCHANGED <<attempts, deferred, stale, holds, dlq, agent, history, created, recent,
                 requests, undone>>

\* snooze_application: one statement.
Snooze(c, a) ==
  /\ "snooze" \in Operations /\ Exists(a)
  /\ request[c] = Idle /\ requests < MaxRequests
  /\ deferred' = [deferred EXCEPT ![a] = @ \cup {"snoozed_until"}]
  /\ requests' = requests + 1
  /\ UNCHANGED <<status, attempts, stale, inputs, holds, dlq, agent, history, api,
                 overtaken, undone>>

\* withdraw_application refuses what it reads as APPLIED ...
BeginWithdraw(c, a) ==
  /\ "withdraw" \in Operations /\ Exists(a) /\ status[a] # "APPLIED"
  /\ Reads(c, [op |-> "withdraw", app |-> a])

\* ... and update_application_status (PATCH) nothing.
BeginPatch(c, a) ==
  /\ "patch" \in Operations /\ Exists(a)
  /\ Reads(c, [op |-> "patch", app |-> a])

\* Both write whatever the status is by then.  The statuses of PATCH, which the worker
\* and the other handlers treat alike, are all REJECTED here.
WriteRejected(c) ==
  LET r == request[c] IN
  /\ r.op \in {"withdraw", "patch"}
  /\ SetStatus(r.app, "REJECTED")
  /\ Answers(c)
  /\ UNCHANGED <<attempts, deferred, stale, inputs, holds, dlq, agent, history, created,
                 recent, requests, overtaken, undone>>

\* update_application_stage of the pipeline view: one statement, which moves a row to the
\* status of a stage whatever it was; all but "submitted" are REJECTED here, as above.
MoveStage(c, a) ==
  /\ "stage" \in Operations /\ Exists(a)
  /\ request[c] = Idle /\ requests < MaxRequests
  /\ \E s \in {"APPLIED", "REJECTED"} : SetStatus(a, s)
  /\ requests' = requests + 1
  /\ UNCHANGED <<attempts, deferred, stale, inputs, holds, dlq, agent, history, api,
                 overtaken, undone>>

Handle(c) == Insert(c) \/ Undo(c) \/ ReadQuestions(c) \/ WriteAnswer(c) \/ WriteRejected(c)

Request(c) ==
  \/ \E j \in Job : Swipe(c, "accept", j) \/ Swipe(c, "reject", j) \/ FindUndo(c, j)
  \/ \E a \in App : \/ BeginAnswer(c, a) \/ BeginResume(c, a) \/ Snooze(c, a)
                    \/ BeginWithdraw(c, a) \/ BeginPatch(c, a)
                    \/ MoveStage(c, a)

\* Ten seconds have passed since created_at.
GrowsOld(a) ==
  /\ a \in recent /\ recent' = recent \ {a}
  /\ UNCHANGED <<vars, request, created, apiHistory>>

SystemNext ==
  \/ Next /\ UNCHANGED <<api, apiHistory>>
  \/ \E c \in Client : Request(c) \/ Handle(c)
  \/ \E a \in App : GrowsOld(a)

System == SystemInit /\ [][SystemNext]_allVars

\* A handler that has begun comes to its end, whether or not its caller waits.
FairSystem ==
  /\ System
  /\ \A w \in Worker : WF_allVars(Step(w) /\ UNCHANGED <<api, apiHistory>>)
  /\ \A a \in App : /\ WF_allVars(OrphanAges(a) /\ UNCHANGED <<api, apiHistory>>)
                    /\ WF_allVars(RetryComesDue(a) /\ UNCHANGED <<api, apiHistory>>)
  /\ \A c \in Client : WF_allVars(Handle(c))

-------------------------------------------------------------------------------
\* Every variable has its type, and a request in flight names a job or a row.
SystemTypeOK ==
  /\ TypeOK
  /\ \A c \in Client : request[c] = Idle \/
       /\ request[c].op \in {"accept", "reject", "undo"} => request[c].job \in Job
       /\ request[c].op \in {"questions", "answer", "withdraw", "patch"} =>
            request[c].app \in App
  /\ created \subseteq App /\ recent \subseteq created
  /\ requests \in 0..MaxRequests
  /\ overtaken \subseteq App /\ undone \subseteq Job

\* With users interfering, two workers still share an application only if its lock aged
\* under one of them or a request queued it over a status it had not read.
ExclusiveUnlessOvertaken ==
  \A v, w \in Worker :
    /\ Working(v) /\ Working(w) /\ task[v] = task[w]
    /\ task[v] \notin expired \cup overtaken
    => v = w

\* A user's job is applied for once - over all the rows it ever had - whatever the user
\* does but undo, unless a submission was in doubt, a lock aged under its holder or a
\* request queued over a status it had not read.
JobSubmittedOnce ==
  \A j \in Job \ undone :
    LET sent == {a \in App : JobOf[a] = j /\ submissions[a] > 0} IN
    sent \cap (uncertain \cup expired \cup overtaken) = {} =>
      Cardinality(sent) <= 1 /\ \A a \in sent : submissions[a] = 1

\* An application that waits for its user has a question the user can answer: through
\* racing answers, second holds and withdrawals, none is left to wait for nothing.
HoldHasQuestion ==
  \A a \in App : status[a] = "REQUIRES_INPUT" => Unresolved(a) # {}

\* Once the users stop, every row comes to rest: the workers leave none in the queue or
\* in PROCESSING, whatever the requests did to the rows they were working on.
RowsSettle ==
  \A a \in App : <>[](status[a] \notin {"QUEUED", "PROCESSING"})

-------------------------------------------------------------------------------
\* What the repository says of the requests and the model shows not to hold.

\* user.py: "Cannot withdraw an already submitted application": a withdrawal is never
\* written over APPLIED.
AppliedNotWithdrawn ==
  [][\A c \in Client :
       request[c].op = "withdraw" /\ request'[c] = Idle =>
         status[request[c].app] # "APPLIED"]_allVars
===============================================================================
