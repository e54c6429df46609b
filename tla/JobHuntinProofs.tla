---------------------------- MODULE JobHuntinProofs ----------------------------
(***************************************************************************)
(* Theorems about the composed system, workers and users' requests, for    *)
(* every set of rows, jobs, workers and requests in flight.  Its workers   *)
(* do not own their rows: a request may write any of them at any time.     *)
(***************************************************************************)
EXTENDS JobHuntin, FormAgentProofs

\* Rows two workers may come to share.
Shared == expired \cup overtaken
Disputed == Shared \cup uncertain

Requests ==
  {Idle} \cup [op : {"accept", "reject", "undo"}, job : Job]
         \cup [op : {"questions", "withdraw", "patch"}, app : App]
         \cup [op : {"answer"}, app : App, answered : SUBSET Input]

\* A request in flight carries what it has read, and the bookkeeping has its type.
ApiType ==
  /\ request \in [Client -> Requests]
  /\ created \subseteq App /\ recent \subseteq created
  /\ requests \in 0..MaxRequests
  /\ overtaken \subseteq App /\ undone \subseteq Job

\* What is left of a worker's hold on its row: whatever the requests made of the row, it
\* cannot be claimed, nor be put back in the queue by an answer that found it waiting.
KeepsRow ==
  \A w \in Worker :
    Working(w) /\ task[w] \notin Shared =>
      status[task[w]] \notin {"QUEUED", "REQUIRES_INPUT"} /\ ~ stale[task[w]]

\* Before a worker submits, nothing has left.
Unsent ==
  \A w \in Worker :
    pc[w] \in Undecided \ Sending /\ task[w] \notin Disputed => submissions[task[w]] = 0

\* What has left is being recorded, or its row is where no worker finds it.
SentIsKept ==
  \A a \in App \ Disputed :
    /\ submissions[a] <= 1
    /\ submissions[a] = 1 =>
         \/ status[a] \in {"APPLIED", "REJECTED", "NONE"}
         \/ \E w \in Worker : task[w] = a /\ pc[w] \in Sending

\* Only a row that was made exists, is worked on or is submitted.
RowMade ==
  /\ \A a \in App : Exists(a) \/ submissions[a] # 0 => a \in created
  /\ \A w \in Worker : task[w] # NoApp => task[w] \in created

\* A job whose rows were never deleted has one row.
OneRowPerJob ==
  /\ \A a \in created : JobOf[a] \notin undone => Exists(a)
  /\ \A a, b \in created : JobOf[a] = JobOf[b] /\ JobOf[a] \notin undone => a = b

\* A worker that is about to put a row on hold has something to ask.
Asking == \A w \in Worker : pc[w] \in {"holding", "captcha"} => asked[w] # {}

Guarded == InHand /\ KeepsRow /\ Unsent /\ SentIsKept /\ RowMade /\ ExclusiveUnlessOvertaken
Asked == Asking /\ HoldHasQuestion
SystemInv == TypeOK /\ ApiType /\ Guarded /\ OneRowPerJob /\ Asked

-------------------------------------------------------------------------------
USE DEF PC, Unstarted, Starting, Trying, Handling, Passed

\* The types.
LEMMA ResolvedType ==
  ASSUME TypeOK, NEW a \in App, NEW answered \in SUBSET Input
  PROVE  Resolved(a, answered) \subseteq Input
<1>1. ASSUME NEW i \in Input PROVE [i EXCEPT !.resolved = TRUE] \in Input
  BY DEF Input
<1>2. inputs[a] \subseteq Input
  BY DEF TypeOK, RowsType
<1>3. ASSUME NEW x \in Resolved(a, answered) PROVE x \in Input
  <2>1. PICK i \in inputs[a] : x = i \/ x = [i EXCEPT !.resolved = TRUE]
    BY <1>3 DEF Resolved
  <2> QED
    BY <1>1, <1>2, <2>1
<1> QED
  BY <1>3

LEMMA SystemInitInv == SystemInit => SystemInv
<1> SUFFICES ASSUME SystemInit PROVE SystemInv
  OBVIOUS
<1>1. TypeOK
  <2>1. RowsType
    BY DEF SystemInit, RowsInit, RowsType, Status
  <2>2. tracker \in [Process -> T!TrackerState]
    BY TrackerTypes DEF SystemInit, AgentInit
  <2> QED
    BY <2>1, <2>2, FormAgentAssumption DEF SystemInit, AgentInit, TypeOK
<1>2. ApiType
  BY JobHuntinAssumption DEF SystemInit, ApiInit, ApiType, Requests
<1>3. Guarded /\ OneRowPerJob /\ Asked
  BY DEF SystemInit, RowsInit, AgentInit, ApiInit, Guarded, InHand, KeepsRow, Unsent, Undecided,
         Sending, SentIsKept, RowMade, Exists, ExclusiveUnlessOvertaken, Working, OneRowPerJob,
         Asked, Asking, HoldHasQuestion
<1> QED
  BY <1>1, <1>2, <1>3 DEF SystemInv

\* A request that begins.
LEMMA ReadsType ==
  ASSUME TypeOK, ApiType, NEW c \in Client, NEW r \in Requests, Reads(c, r)
  PROVE  ApiType'
BY JobHuntinAssumption DEF ApiType, Reads

LEMMA RequestTypeStep ==
  ASSUME TypeOK, ApiType, NEW c \in Client, Request(c)
  PROVE  ApiType'
<1>1. ASSUME NEW j \in Job, Swipe(c, "accept", j) \/ Swipe(c, "reject", j) \/ FindUndo(c, j)
      PROVE  ApiType'
  <2>1. \E d \in {"accept", "reject", "undo"} : Reads(c, [op |-> d, job |-> j])
    BY <1>1 DEF Swipe, FindUndo
  <2> QED
    BY <2>1, ReadsType DEF Requests
<1>2. ASSUME NEW a \in App, BeginAnswer(c, a) \/ BeginWithdraw(c, a) \/ BeginPatch(c, a)
      PROVE  ApiType'
  <2>1. \E d \in {"questions", "withdraw", "patch"} : Reads(c, [op |-> d, app |-> a])
    BY <1>2 DEF BeginAnswer, BeginWithdraw, BeginPatch
  <2> QED
    BY <2>1, ReadsType DEF Requests
<1>3. ASSUME NEW a \in App, BeginResume(c, a) PROVE ApiType'
  <2>1. PICK answered \in SUBSET inputs[a] :
          Reads(c, [op |-> "answer", app |-> a, answered |-> answered])
    BY <1>3 DEF BeginResume
  <2>2. answered \in SUBSET Input
    BY DEF TypeOK, RowsType
  <2>3. [op |-> "answer", app |-> a, answered |-> answered] \in Requests
    BY <2>2 DEF Requests
  <2> QED
    BY <2>1, <2>3, ReadsType
<1>4. ASSUME NEW a \in App, Snooze(c, a) \/ MoveStage(c, a) PROVE ApiType'
  BY <1>4, JobHuntinAssumption DEF Snooze, MoveStage, ApiType, api
<1> QED
  BY <1>1, <1>2, <1>3, <1>4 DEF Request

\* A request that writes is over.
LEMMA HandleTypeStep ==
  ASSUME TypeOK, ApiType, NEW c \in Client, Handle(c)
  PROVE  ApiType'
<1>0. Idle \in Requests
  BY DEF Requests
<1>1. CASE Insert(c)
  <2>1. request' \in [Client -> Requests]
    BY <1>0, <1>1 DEF Insert, Answers, ApiType
  <2>2. created' \subseteq App /\ recent' \subseteq created'
    BY <1>1 DEF Insert, ApiType
  <2>3. overtaken' \subseteq App
    BY <1>1 DEF Insert, ApiType, RowsOf
  <2> QED
    BY <1>1, <2>1, <2>2, <2>3 DEF Insert, ApiType
<1>2. CASE Undo(c)
  <2>1. request[c] \in Requests /\ request[c].op = "undo"
    BY <1>2 DEF Undo, ApiType
  <2>2. request[c].job \in Job
    BY <2>1 DEF Requests, Idle
  <2> QED
    BY <1>0, <1>2, <2>2 DEF Undo, Answers, ApiType
<1>3. CASE ReadQuestions(c)
  <2> DEFINE a == request[c].app
  <2>1. request[c] \in Requests /\ request[c].op = "questions"
    BY <1>3 DEF ReadQuestions, ApiType
  <2>2. a \in App
    BY <2>1 DEF Requests, Idle
  <2>3. request' \in [Client -> Requests]
    <3>1. CASE Answers(c)
      BY <1>0, <3>1 DEF Answers, ApiType
    <3>2. ASSUME NEW i \in Unresolved(a),
                 request' = [request EXCEPT ![c] =
                               [op |-> "answer", app |-> a, answered |-> {i}]]
          PROVE  request' \in [Client -> Requests]
      <4>1. {i} \in SUBSET Input
        BY <2>2 DEF Unresolved, TypeOK, RowsType
      <4>2. [op |-> "answer", app |-> a, answered |-> {i}] \in Requests
        BY <2>2, <4>1 DEF Requests
      <4> QED
        BY <3>2, <4>2 DEF ApiType
    <3> QED
      BY <1>3, <3>1, <3>2 DEF ReadQuestions
  <2> QED
    BY <1>3, <2>3 DEF ReadQuestions, ApiType, apiHistory
<1>4. CASE WriteAnswer(c)
  <2>1. request[c] \in Requests /\ request[c].op = "answer"
    BY <1>4 DEF WriteAnswer, ApiType
  <2>2. request[c].app \in App
    BY <2>1 DEF Requests, Idle
  <2>3. overtaken' \subseteq App
    BY <1>4, <2>2 DEF WriteAnswer, ApiType
  <2> QED
    BY <1>0, <1>4, <2>3 DEF WriteAnswer, Answers, ApiType
<1>5. CASE WriteRejected(c)
  BY <1>0, <1>5 DEF WriteRejected, Answers, ApiType
<1> QED
  BY <1>1, <1>2, <1>3, <1>4, <1>5 DEF Handle

\* What a request writes to the rows has the rows' type.
LEMMA RowsTypeStep ==
  ASSUME TypeOK, ApiType, NEW c \in Client, Request(c) \/ Handle(c)
  PROVE  TypeOK'
<1> USE DEF TypeOK, RowsType, Status, rows, agent, history
<1>1. ASSUME UNCHANGED vars PROVE TypeOK'
  BY <1>1 DEF vars
<1>2. ASSUME NEW j \in Job, Swipe(c, "accept", j) \/ Swipe(c, "reject", j) \/ FindUndo(c, j)
      PROVE  TypeOK'
  BY <1>1, <1>2 DEF Swipe, FindUndo, Reads
<1>3. ASSUME NEW a \in App,
             BeginAnswer(c, a) \/ BeginWithdraw(c, a) \/ BeginPatch(c, a) \/ BeginResume(c, a)
      PROVE  TypeOK'
  BY <1>1, <1>3 DEF BeginAnswer, BeginWithdraw, BeginPatch, BeginResume, Reads
<1>4. ASSUME NEW a \in App, Snooze(c, a) PROVE TypeOK'
  BY <1>4 DEF Snooze
<1>5. ASSUME NEW a \in App, MoveStage(c, a) PROVE TypeOK'
  BY <1>5 DEF MoveStage, SetStatus
<1>6. CASE Insert(c)
  BY <1>6 DEF Insert, RowsOf
<1>7. CASE Undo(c)
  BY <1>7 DEF Undo
<1>8. CASE ReadQuestions(c)
  BY <1>1, <1>8 DEF ReadQuestions
<1>9. CASE WriteAnswer(c)
  <2> DEFINE a == request[c].app  answered == request[c].answered
  <2>1. request[c] \in Requests /\ request[c].op = "answer"
    BY <1>9 DEF WriteAnswer, ApiType
  <2>2. a \in App /\ answered \in SUBSET Input
    BY <2>1 DEF Requests, Idle
  <2>3. Resolved(a, answered) \in SUBSET Input
    BY <2>2, ResolvedType
  <2>4. inputs' \in [App -> SUBSET Input]
    <3> HIDE DEF a, answered
    <3>1. inputs' = inputs \/ inputs' = [inputs EXCEPT ![a] = Resolved(a, answered)]
      BY <1>9 DEF WriteAnswer, a, answered
    <3> QED
      BY <2>2, <2>3, <3>1
  <2>5. status' \in [App -> Status]
    BY <1>9, <2>2 DEF WriteAnswer, SetStatus
  <2> QED
    BY <1>9, <2>4, <2>5 DEF WriteAnswer
<1>10. CASE WriteRejected(c)
  BY <1>10 DEF WriteRejected, SetStatus
<1> QED
  BY <1>2, <1>3, <1>4, <1>5, <1>6, <1>7, <1>8, <1>9, <1>10 DEF Request, Handle

-------------------------------------------------------------------------------
\* The workers' steps.
Aside == UNCHANGED <<api, apiHistory>>

\* A step that moves a worker on without touching its row or submitting anything, and
\* marks the application when it gives up a submission; or lets go of it that way.
LEMMA QuietGuarded ==
  ASSUME TypeOK, Guarded, Aside, NEW w \in Worker, NEW s \in PC \ Sending,
         pc[w] # "idle",
         \/ s = "idle" /\ Returns(w)
         \/ s # "idle" /\ Goes(w, s) /\ UNCHANGED task,
         UNCHANGED <<status, stale, submissions, expired>>,
         uncertain \subseteq uncertain',
         pc[w] \in Sending => task[w] \in uncertain',
         pc[w] = "ending" => s \in {"ending", "idle"},
         s \in Undecided => pc[w] \in Undecided \/ task[w] \in uncertain'
  PROVE  Guarded'
<1> USE FormAgentAssumption
    DEF Guarded, TypeOK, Aside, apiHistory, api, Goes, Returns, Sending, Disputed, Shared
<1>1. InHand'
  BY DEF InHand
<1>2. ExclusiveUnlessOvertaken'
  BY DEF ExclusiveUnlessOvertaken, Working
<1>3. KeepsRow'
  BY DEF KeepsRow, Working
<1>4. Unsent'
  BY DEF Unsent, Undecided
<1>5. SentIsKept'
  BY DEF SentIsKept
<1>6. RowMade'
  BY DEF RowMade, Exists
<1> QED
  BY <1>1, <1>2, <1>3, <1>4, <1>5, <1>6

\* A worker that has nothing submitted which is not in doubt gives its row a status other
\* than APPLIED and is done with it.
LEMMA WritingGuarded ==
  ASSUME TypeOK, Guarded, Aside, NEW w \in Worker, NEW s \in Status \ {"APPLIED", "NONE"},
         pc[w] \in Undecided \ Sending, SetStatus(task[w], s),
         \/ Returns(w)
         \/ Goes(w, "ending") /\ UNCHANGED task,
         UNCHANGED <<stale, submissions, uncertain, expired>>
  PROVE  Guarded'
<1> USE FormAgentAssumption
    DEF Guarded, TypeOK, RowsType, Aside, apiHistory, api, Goes, Returns, Sending, Undecided,
        Disputed, Shared
<1>0. task[w] \in App /\ Working(w)
  BY DEF InHand, Working
<1>1. InHand'
  BY DEF InHand
<1>2. ExclusiveUnlessOvertaken'
  BY DEF ExclusiveUnlessOvertaken, Working
<1>3. KeepsRow'
  BY <1>0 DEF KeepsRow, ExclusiveUnlessOvertaken, Working, SetStatus
<1>4. Unsent'
  BY DEF Unsent
<1>5. SentIsKept'
  BY <1>0 DEF SentIsKept, Unsent, SetStatus
<1>6. RowMade'
  BY <1>0 DEF RowMade, Exists, SetStatus
<1> QED
  BY <1>1, <1>2, <1>3, <1>4, <1>5, <1>6

\* A submission: nothing of an application that is not in doubt was submitted before.
LEMMA SendingGuarded ==
  ASSUME TypeOK, Guarded, Aside, NEW w \in Worker, NEW n \in {1, 2},
         NEW s \in Sending \cup {"opening", "failing"},
         pc[w] \in Undecided \ Sending, Goes(w, s), Sends(task[w], n),
         UNCHANGED <<status, stale, task, expired>>,
         uncertain \subseteq uncertain',
         n = 2 \/ s \notin Sending => task[w] \in uncertain'
  PROVE  Guarded'
<1> USE FormAgentAssumption
    DEF Guarded, TypeOK, RowsType, Aside, apiHistory, api, Goes, Sending, Undecided, Disputed,
        Shared
<1>0. task[w] \in App /\ Working(w)
  BY DEF InHand, Working
<1>a. /\ submissions' \in [App -> 0..2]
      /\ \A a \in App \ {task[w]} : submissions'[a] = submissions[a]
      /\ n = 1 /\ submissions[task[w]] = 0 => submissions'[task[w]] = 1
  BY <1>0 DEF Sends
<1>1. InHand'
  BY DEF InHand
<1>2. ExclusiveUnlessOvertaken'
  BY DEF ExclusiveUnlessOvertaken, Working
<1>3. KeepsRow'
  BY <1>0 DEF KeepsRow, Working
<1>4. Unsent'
  <2> SUFFICES ASSUME NEW v \in Worker, pc'[v] \in Undecided \ Sending, task[v] \notin Disputed'
               PROVE  submissions'[task[v]] = 0
    BY DEF Unsent
  <2>1. v # w
    BY <1>0
  <2>2. task[v] # task[w] /\ task[v] \in App
    BY <1>0, <2>1 DEF ExclusiveUnlessOvertaken, Working, InHand
  <2> QED
    BY <1>a, <2>1, <2>2 DEF Unsent
<1>5. SentIsKept'
  <2> SUFFICES ASSUME NEW a \in App, a \notin Disputed'
               PROVE  /\ submissions'[a] <= 1
                      /\ submissions'[a] = 1 =>
                           \/ status[a] \in {"APPLIED", "REJECTED", "NONE"}
                           \/ \E v \in Worker : task[v] = a /\ pc'[v] \in Sending
    BY DEF SentIsKept
  <2>1. CASE a = task[w]
    <3>1. submissions[a] = 0
      BY <2>1, <1>0 DEF Unsent
    <3> QED
      BY <2>1, <3>1, <1>a, <1>0
  <2>2. CASE a # task[w]
    BY <2>2, <1>a DEF SentIsKept
  <2> QED
    BY <2>1, <2>2
<1>6. RowMade'
  BY <1>0, <1>a DEF RowMade, Exists, InHand
<1> QED
  BY <1>1, <1>2, <1>3, <1>4, <1>5, <1>6

\* A click that sends nothing and counts.
LEMMA MistakingGuarded ==
  ASSUME TypeOK, Guarded, Aside, NEW w \in Worker,
         pc[w] \in Undecided \ Sending, Goes(w, "sent"),
         UNCHANGED <<status, stale, task, submissions, uncertain, expired>>
  PROVE  Guarded'
<1> USE DEF Guarded, TypeOK, Aside, apiHistory, api, Goes, Sending, Undecided, Disputed, Shared
<1>1. InHand' /\ ExclusiveUnlessOvertaken' /\ KeepsRow'
  BY DEF InHand, ExclusiveUnlessOvertaken, KeepsRow, Working
<1>2. Unsent'
  BY DEF Unsent
<1>3. SentIsKept'
  BY DEF SentIsKept
<1>4. RowMade'
  BY DEF RowMade, Exists
<1> QED
  BY <1>1, <1>2, <1>3, <1>4

\* The claim: whoever may have the row's application in hand has lost it already.
LEMMA ClaimGuarded ==
  ASSUME TypeOK, Guarded, Aside, NEW w \in Worker, Claim(w)
  PROVE  Guarded'
<1> USE FormAgentAssumption
    DEF Guarded, TypeOK, RowsType, Aside, apiHistory, api, Goes, Sending, Undecided, Disputed,
        Shared, history
<1>1. PICK a \in App : ClaimNext(a) /\ task' = [task EXCEPT ![w] = a]
  BY DEF Claim
<1>2. /\ Claimable(a)
      /\ status' = [status EXCEPT ![a] = "PROCESSING"]
      /\ stale' = [stale EXCEPT ![a] = FALSE]
  BY <1>1 DEF ClaimNext, First
<1>3. /\ pc[w] = "idle" /\ pc' = [pc EXCEPT ![w] = "claimed"]
      /\ UNCHANGED <<submissions, uncertain, expired>>
  BY DEF Claim
<1>4. \A v \in Worker : Working(v) /\ task[v] = a => a \in Shared
  BY <1>2 DEF Claimable, KeepsRow
<1>5. InHand'
  BY <1>1, <1>3 DEF InHand
<1>6. ExclusiveUnlessOvertaken'
  BY <1>1, <1>3, <1>4 DEF ExclusiveUnlessOvertaken, Working
<1>7. KeepsRow'
  BY <1>1, <1>2, <1>3, <1>4 DEF KeepsRow, Working, InHand
<1>8. a \notin Disputed => submissions[a] = 0
  <2> SUFFICES ASSUME a \notin Disputed, submissions[a] = 1 PROVE FALSE
    BY DEF SentIsKept
  <2>1. status[a] \notin {"APPLIED", "REJECTED", "NONE"}
    BY <1>2 DEF Claimable
  <2>2. \A v \in Worker : task[v] = a => pc[v] \notin Sending
    BY <1>4 DEF Working
  <2> QED
    BY <2>1, <2>2 DEF SentIsKept
<1>9. Unsent'
  BY <1>1, <1>3, <1>8 DEF Unsent
<1>10. SentIsKept'
  BY <1>1, <1>2, <1>3, <1>8 DEF SentIsKept
<1>11. RowMade'
  BY <1>1, <1>2, <1>3 DEF RowMade, Exists, Claimable
<1> QED
  BY <1>5, <1>6, <1>7, <1>9, <1>10, <1>11

\* The worker that submitted writes APPLIED, if there still is a row.
LEMMA MarkAppliedGuarded ==
  ASSUME TypeOK, Guarded, Aside, NEW w \in Worker, MarkApplied(w)
  PROVE  Guarded'
<1> USE FormAgentAssumption
    DEF Guarded, TypeOK, RowsType, Aside, apiHistory, api, Goes, Sending, Undecided, Disputed,
        Shared, history
<1>1. /\ pc[w] \in Sending /\ task[w] \in App /\ Working(w)
      /\ \E s \in {"applied", "http_applied"} : pc' = [pc EXCEPT ![w] = s]
      /\ SetStatus(task[w], "APPLIED")
      /\ UNCHANGED <<stale, task, submissions, uncertain, expired>>
  BY DEF MarkApplied, InHand, Working
<1>2. InHand'
  BY <1>1 DEF InHand
<1>3. ExclusiveUnlessOvertaken'
  BY <1>1 DEF ExclusiveUnlessOvertaken, Working
<1>4. KeepsRow'
  BY <1>1 DEF KeepsRow, Working, SetStatus
<1>5. Unsent'
  BY <1>1 DEF Unsent
<1>6. SentIsKept'
  <2>1. status'[task[w]] \in {"APPLIED", "NONE"}
    BY <1>1 DEF SetStatus
  <2>2. \A a \in App \ {task[w]} : status'[a] = status[a]
    BY <1>1 DEF SetStatus
  <2>3. \A v \in Worker : task[v] # task[w] => pc'[v] = pc[v]
    BY <1>1
  <2> QED
    BY <1>1, <2>1, <2>2, <2>3 DEF SentIsKept
<1>7. RowMade'
  BY <1>1 DEF RowMade, Exists, SetStatus
<1> QED
  BY <1>2, <1>3, <1>4, <1>5, <1>6, <1>7

\* Every step of a worker has one of the shapes above.
LEMMA WorkerGuarded ==
  ASSUME TypeOK, Guarded, Aside, NEW w \in Worker, Step(w)
  PROVE  Guarded'
<1> USE FormAgentAssumption DEF Sending, Undecided, Status, rows, history
<1>1. CASE Claim(w)
  BY <1>1, ClaimGuarded
<1>2. CASE PeekLimit(w) \/ StartTask(w) \/ OpenPage(w)
  <2>1. \E s \in {"peeked", "releasing", "started", "page", "failing"} : Goes(w, s)
    BY <1>2 DEF PeekLimit, StartTask, OpenPage
  <2>2. /\ UNCHANGED <<status, stale, submissions, task, uncertain, expired>>
        /\ pc[w] \in {"claimed", "peeked", "opening"}
    BY <1>2 DEF PeekLimit, StartTask, OpenPage
  <2> QED
    BY <2>1, <2>2, QuietGuarded
<1>3. CASE Release(w)
  BY <1>3, WritingGuarded DEF Release
<1>4. CASE HttpApply(w)
  <2>1. CASE Goes(w, "opening") /\ UNCHANGED <<submissions, uncertain, faults>>
    BY <1>4, <2>1, QuietGuarded DEF HttpApply
  <2>2. CASE \E s \in {"http_sent", "opening"} :
               /\ Goes(w, s) /\ Sends(task[w], 1)
               /\ IF s = "opening" THEN uncertain' = uncertain \cup {task[w]}
                                  ELSE uncertain' = uncertain
    BY <1>4, <2>2, SendingGuarded DEF HttpApply
  <2> QED
    BY <1>4, <2>1, <2>2 DEF HttpApply
<1>5. CASE Abandon(w)
  BY <1>5, QuietGuarded DEF Abandon
<1>6. CASE AskUser(w) \/ MeetCaptcha(w) \/ PageRaises(w) \/ FinishSuccess(w) \/ HoldRaises(w)
           \/ FailureRaises(w)
  <2>1. \E s \in {"holding", "captcha", "failing", "ending"} : Goes(w, s)
    BY <1>6 DEF AskUser, MeetCaptcha, PageRaises, FinishSuccess, HoldRaises, FailureRaises
  <2>2. /\ UNCHANGED <<status, stale, submissions, task, uncertain, expired>>
        /\ pc[w] \in {"page", "applied", "http_applied", "holding", "captcha", "failing"}
        /\ pc[w] \in {"applied", "http_applied"} => Goes(w, "ending")
    BY <1>6 DEF AskUser, MeetCaptcha, PageRaises, FinishSuccess, HoldRaises, FailureRaises
  <2> QED
    BY <2>1, <2>2, QuietGuarded
<1>7. CASE Submit(w)
  <2>1. CASE \E s \in {"sent", "failing"}, n \in {1, 2} :
               /\ Goes(w, s) /\ Sends(task[w], n)
               /\ \/ s = "sent" /\ n = 1 /\ uncertain' = uncertain
                  \/ uncertain' = uncertain \cup {task[w]}
    BY <1>7, <2>1, SendingGuarded DEF Submit
  <2>2. CASE Goes(w, "sent") /\ UNCHANGED <<submissions, uncertain>>
    BY <1>7, <2>2, MistakingGuarded DEF Submit
  <2> QED
    BY <1>7, <2>1, <2>2 DEF Submit
<1>8. CASE MarkApplied(w)
  BY <1>8, MarkAppliedGuarded
<1>9. CASE SuccessRaises(w)
  BY <1>9, QuietGuarded DEF SuccessRaises
<1>10. CASE EnterHold(w)
  BY <1>10, WritingGuarded DEF EnterHold
<1>11. CASE HandleFailure(w)
  <2>1. \E s \in {"FAILED", "QUEUED"} : SetStatus(task[w], s)
    BY <1>11 DEF HandleFailure
  <2> QED
    BY <1>11, <2>1, WritingGuarded DEF HandleFailure
<1>12. CASE EndTask(w)
  BY <1>12, QuietGuarded DEF EndTask
<1> QED
  BY <1>1, <1>2, <1>3, <1>4, <1>5, <1>6, <1>7, <1>8, <1>9, <1>10, <1>11, <1>12 DEF Step

\* A crash, and the passing of time.
LEMMA EnvironmentGuarded ==
  ASSUME TypeOK, Guarded, Aside,
         \/ \E p \in Process : Crash(p)
         \/ \E a \in App : OrphanAges(a) \/ LockExpires(a) \/ RetryComesDue(a)
  PROVE  Guarded'
<1> USE FormAgentAssumption
    DEF Guarded, TypeOK, RowsType, Aside, apiHistory, api, Sending, Undecided, Disputed, Shared,
        agent, history
<1>1. ASSUME NEW p \in Process, Crash(p) PROVE Guarded'
  <2>1. /\ \A w \in Worker : \/ pc'[w] = "idle" /\ task'[w] = NoApp /\ Home[w] = p
                             \/ pc'[w] = pc[w] /\ task'[w] = task[w] /\ Home[w] # p
        /\ \A w \in Worker : pc[w] \in Sending /\ Home[w] = p => task[w] \in uncertain'
        /\ uncertain \subseteq uncertain'
        /\ UNCHANGED <<status, stale, submissions, expired>>
    BY <1>1 DEF Crash, rows
  <2>2. InHand'
    BY <2>1 DEF InHand
  <2>3. ExclusiveUnlessOvertaken'
    BY <2>1 DEF ExclusiveUnlessOvertaken, Working
  <2>4. KeepsRow'
    BY <2>1 DEF KeepsRow, Working
  <2>5. Unsent'
    BY <2>1 DEF Unsent
  <2>6. SentIsKept'
    BY <2>1 DEF SentIsKept
  <2>7. RowMade'
    BY <2>1 DEF RowMade, Exists
  <2> QED
    BY <2>2, <2>3, <2>4, <2>5, <2>6, <2>7
<1>2. ASSUME NEW a \in App, OrphanAges(a) \/ LockExpires(a) \/ RetryComesDue(a) PROVE Guarded'
  <2>1. /\ UNCHANGED <<status, pc, task, submissions, uncertain>>
        /\ expired \subseteq expired'
        /\ \A b \in App : stale'[b] => stale[b] \/ b \in expired' \/ ~ Held(b)
    BY <1>2 DEF OrphanAges, LockExpires, RetryComesDue, LockAges, DeferralEnds
  <2>2. KeepsRow'
    BY <2>1 DEF KeepsRow, Working, Held, InHand
  <2> QED
    BY <2>1, <2>2 DEF InHand, ExclusiveUnlessOvertaken, Working, Unsent, SentIsKept, RowMade,
                      Exists
<1> QED
  BY <1>1, <1>2

\* No step of a worker makes a row, or deletes one.
LEMMA RowsStay ==
  ASSUME TypeOK, InHand, Next
  PROVE  \A a \in App : Exists(a)' <=> Exists(a)
<1> USE DEF TypeOK, RowsType, Exists
<1>0. ASSUME UNCHANGED status PROVE \A a \in App : Exists(a)' <=> Exists(a)
  BY <1>0
<1>1. ASSUME NEW w \in Worker, Step(w) PROVE \A a \in App : Exists(a)' <=> Exists(a)
  <2>1. CASE Claim(w)
    BY <2>1 DEF Claim, ClaimNext, First, Claimable
  <2>2. CASE Release(w) \/ MarkApplied(w) \/ EnterHold(w) \/ HandleFailure(w)
    <3>1. \E s \in {"QUEUED", "APPLIED", "REQUIRES_INPUT", "FAILED"} : SetStatus(task[w], s)
      BY <2>2 DEF Release, MarkApplied, EnterHold, HandleFailure
    <3> QED
      BY <3>1 DEF SetStatus
  <2>3. CASE ~ (Claim(w) \/ Release(w) \/ MarkApplied(w) \/ EnterHold(w) \/ HandleFailure(w))
    BY <1>0, <1>1, <2>3
       DEF Step, PeekLimit, StartTask, HttpApply, OpenPage, Abandon, AskUser, MeetCaptcha, Submit,
           PageRaises, FinishSuccess, SuccessRaises, HoldRaises, FailureRaises, EndTask, rows
  <2> QED
    BY <2>1, <2>2, <2>3
<1>2. ASSUME NEW p \in Process, Crash(p) PROVE \A a \in App : Exists(a)' <=> Exists(a)
  BY <1>0, <1>2 DEF Crash, rows
<1>3. ASSUME NEW a \in App, OrphanAges(a) \/ LockExpires(a) \/ RetryComesDue(a)
      PROVE  \A b \in App : Exists(b)' <=> Exists(b)
  BY <1>0, <1>3 DEF OrphanAges, LockExpires, RetryComesDue, LockAges, DeferralEnds
<1> QED
  BY <1>1, <1>2, <1>3 DEF Next

\* A hold leaves a question open, and no other step of a worker touches one.
LEMMA AgentAsked ==
  ASSUME TypeOK, InHand, Asked, Next
  PROVE  Asked'
<1> USE DEF Asked, TypeOK, RowsType
<1>0. ASSUME UNCHANGED inputs, \A a \in App : status'[a] = "REQUIRES_INPUT" => status[a] = status'[a]
      PROVE  HoldHasQuestion'
  BY <1>0 DEF HoldHasQuestion, Unresolved
<1>1. ASSUME NEW w \in Worker, Step(w) PROVE Asked'
  <2>1. CASE EnterHold(w)
    <3> DEFINE a == task[w]
               new == [field : asked[w], hold : {holds[a]}, resolved : {FALSE}]
    <3>1. a \in App /\ asked[w] # {} /\ UNCHANGED asked
      BY <2>1 DEF EnterHold, InHand, Asking
    <3>2. inputs' = [inputs EXCEPT ![a] = @ \cup new]
      BY <2>1 DEF EnterHold, InsertUnresolved
    <3>3. \E i \in new : ~ i.resolved
      <4>1. PICK f \in asked[w] : TRUE
        BY <3>1
      <4>2. [field |-> f, hold |-> holds[a], resolved |-> FALSE] \in new
        BY <4>1
      <4> QED
        BY <4>2
    <3>4. {k \in inputs'[a] : ~ k.resolved} # {}
      <4> HIDE DEF new
      <4>1. new \subseteq inputs'[a]
        BY <3>1, <3>2
      <4>2. PICK i \in new : ~ i.resolved
        BY <3>3
      <4> QED
        BY <4>1, <4>2
    <3>5. \A b \in App \ {a} : status'[b] = status[b] /\ inputs'[b] = inputs[b]
      BY <2>1, <3>2 DEF EnterHold, SetStatus
    <3>6. HoldHasQuestion'
      <4> HIDE DEF a
      <4> SUFFICES ASSUME NEW b \in App, status'[b] = "REQUIRES_INPUT"
                   PROVE  {k \in inputs'[b] : ~ k.resolved} # {}
        BY DEF HoldHasQuestion, Unresolved
      <4>1. CASE b = a
        BY <3>4, <4>1
      <4>2. CASE b # a
        BY <3>5, <4>2 DEF HoldHasQuestion, Unresolved
      <4> QED
        BY <4>1, <4>2
    <3>7. Asking'
      BY <2>1, <3>1 DEF EnterHold, Goes, Asking
    <3> QED
      BY <3>6, <3>7
  <2>2. CASE Claim(w) \/ Release(w) \/ MarkApplied(w) \/ HandleFailure(w)
    <3>1. HoldHasQuestion'
      BY <1>0, <2>2 DEF Claim, ClaimNext, Release, MarkApplied, HandleFailure, SetStatus
    <3>2. Asking'
      BY <2>2 DEF Claim, Release, MarkApplied, HandleFailure, Goes, Returns, Asking
    <3> QED
      BY <3>1, <3>2
  <2>3. CASE AskUser(w) \/ MeetCaptcha(w)
    <3>1. HoldHasQuestion'
      BY <1>0, <2>3 DEF AskUser, MeetCaptcha, rows
    <3>2. Asking'
      <4>1. PICK fields \in SUBSET Field : fields # {} /\ asked' = [asked EXCEPT ![w] = fields]
        BY <2>3, FormAgentAssumption DEF AskUser, MeetCaptcha
      <4>2. \E s \in {"holding", "captcha"} : Goes(w, s)
        BY <2>3 DEF AskUser, MeetCaptcha
      <4> QED
        BY <4>1, <4>2 DEF Goes, Asking
    <3> QED
      BY <3>1, <3>2
  <2>4. CASE \/ PeekLimit(w) \/ StartTask(w) \/ HttpApply(w) \/ OpenPage(w) \/ Abandon(w)
             \/ Submit(w) \/ PageRaises(w) \/ FinishSuccess(w) \/ SuccessRaises(w)
             \/ HoldRaises(w) \/ FailureRaises(w) \/ EndTask(w)
    <3>1. UNCHANGED rows
      BY <2>4 DEF PeekLimit, StartTask, HttpApply, OpenPage, Abandon, Submit, PageRaises,
                  FinishSuccess, SuccessRaises, HoldRaises, FailureRaises, EndTask
    <3>2. \E s \in PC \ {"holding", "captcha"} : Goes(w, s)
      BY <2>4 DEF PeekLimit, StartTask, HttpApply, OpenPage, Abandon, Submit, PageRaises,
                  FinishSuccess, SuccessRaises, HoldRaises, FailureRaises, EndTask, Returns
    <3>3. UNCHANGED asked \/ Returns(w)
      BY <2>4 DEF PeekLimit, StartTask, HttpApply, OpenPage, Abandon, Submit, PageRaises,
                  FinishSuccess, SuccessRaises, HoldRaises, FailureRaises, EndTask
    <3> QED
      BY <1>0, <3>1, <3>2, <3>3 DEF rows, Goes, Returns, Asking
  <2> QED
    BY <1>1, <2>1, <2>2, <2>3, <2>4 DEF Step
<1>2. ASSUME NEW p \in Process, Crash(p) PROVE Asked'
  BY <1>0, <1>2 DEF Crash, rows, Asking
<1>3. ASSUME NEW a \in App, OrphanAges(a) \/ LockExpires(a) \/ RetryComesDue(a) PROVE Asked'
  BY <1>0, <1>3 DEF OrphanAges, LockExpires, RetryComesDue, LockAges, DeferralEnds, agent, Asking
<1> QED
  BY <1>1, <1>2, <1>3 DEF Next

-------------------------------------------------------------------------------
\* The requests' steps.

\* What a request may write to a row that somebody works on or has submitted: nothing that
\* puts it back in the queue, unless it waited for its user or the request overtook it.
LEMMA ApiGuarded ==
  ASSUME TypeOK, Guarded, UNCHANGED <<stale, agent, history>>,
         created \subseteq created', overtaken \subseteq overtaken',
         \A a \in created : \/ status'[a] \in {status[a], "APPLIED", "REJECTED", "NONE"}
                            \/ status[a] = "REQUIRES_INPUT"
                            \/ a \in overtaken',
         \A a \in App : status'[a] # "NONE" => a \in created'
  PROVE  Guarded'
<1> USE DEF Guarded, TypeOK, RowsType, agent, history, Sending, Undecided, Disputed, Shared
<1>1. InHand' /\ ExclusiveUnlessOvertaken' /\ Unsent'
  BY DEF InHand, ExclusiveUnlessOvertaken, Working, Unsent
<1>2. KeepsRow'
  <2> SUFFICES ASSUME NEW w \in Worker, Working(w), task[w] \notin expired \cup overtaken'
               PROVE  status'[task[w]] \notin {"QUEUED", "REQUIRES_INPUT"} /\ ~ stale[task[w]]
    BY DEF KeepsRow, Working
  <2>1. /\ status[task[w]] \notin {"QUEUED", "REQUIRES_INPUT"} /\ ~ stale[task[w]]
        /\ task[w] \in created
    BY DEF KeepsRow, RowMade, InHand, Working
  <2> QED
    BY <2>1
<1>3. SentIsKept'
  <2> SUFFICES ASSUME NEW a \in App, a \notin uncertain \cup expired \cup overtaken',
                      submissions[a] = 1, status[a] \in {"APPLIED", "REJECTED", "NONE"}
               PROVE  status'[a] \in {"APPLIED", "REJECTED", "NONE"}
    BY DEF SentIsKept
  <2> QED
    BY DEF RowMade
<1>4. RowMade'
  BY DEF RowMade, Exists
<1> QED
  BY <1>1, <1>2, <1>3, <1>4

\* What a request may do to the questions of a row that waits afterwards: nothing.
LEMMA ApiAsked ==
  ASSUME Asked, UNCHANGED agent,
         \A a \in App : status'[a] = "REQUIRES_INPUT" => status[a] = status'[a] /\ inputs'[a] = inputs[a]
  PROVE  Asked'
BY DEF Asked, Asking, HoldHasQuestion, Unresolved, agent

\* A request that makes no row and deletes none.
LEMMA ApiOneRow ==
  ASSUME ApiType, OneRowPerJob, UNCHANGED <<created, undone>>,
         \A a \in App : Exists(a) => Exists(a)'
  PROVE  OneRowPerJob'
BY DEF OneRowPerJob, ApiType

\* A request begins: it has read the rows, or it is one statement.
LEMMA RequestStep ==
  ASSUME SystemInv, NEW c \in Client, Request(c)
  PROVE  Guarded' /\ OneRowPerJob' /\ Asked'
<1> USE DEF SystemInv
<1>1. \/ UNCHANGED rows
      \/ \E a \in App : Snooze(c, a) \/ MoveStage(c, a)
  BY DEF Request, Swipe, FindUndo, BeginAnswer, BeginResume, BeginWithdraw, BeginPatch, Reads, vars
<1>2. /\ UNCHANGED <<stale, inputs, agent, history, created, overtaken, undone>>
  BY DEF Request, Swipe, FindUndo, BeginAnswer, BeginResume, BeginWithdraw, BeginPatch, Reads, vars,
         rows, Snooze, MoveStage, api
<1>3. \A a \in App : \/ status'[a] = status[a]
                     \/ status'[a] \in {"APPLIED", "REJECTED"} /\ status[a] # "NONE"
  BY <1>1 DEF rows, Snooze, MoveStage, SetStatus, Exists, TypeOK, RowsType
<1>4. created \subseteq App
  BY DEF ApiType
<1>5. Guarded'
  BY <1>2, <1>3, <1>4, ApiGuarded DEF Guarded, RowMade, Exists
<1>6. OneRowPerJob'
  BY <1>2, <1>3, ApiOneRow DEF Exists
<1>7. Asked'
  BY <1>2, <1>3, ApiAsked
<1> QED
  BY <1>5, <1>6, <1>7

\* INSERT ... ON CONFLICT: over the row that is there, whatever it was by now, or a new one.
LEMMA InsertStep ==
  ASSUME SystemInv, NEW c \in Client, Insert(c)
  PROVE  Guarded' /\ OneRowPerJob' /\ Asked'
<1> USE DEF SystemInv
<1> DEFINE r == request[c]
           s == IF r.op = "accept" THEN "QUEUED" ELSE "REJECTED"
<1>0. s \in {"QUEUED", "REJECTED"} /\ UNCHANGED <<stale, inputs, agent, history, undone>>
  BY DEF Insert
<1>1. CASE \E a \in RowsOf(r.job) :
             /\ status' = [status EXCEPT ![a] = s]
             /\ overtaken' = IF s = "QUEUED" THEN overtaken \cup {a} ELSE overtaken
             /\ UNCHANGED <<created, recent>>
  <2> HIDE DEF r, s
  <2>1. PICK a \in App : /\ Exists(a)
                         /\ status' = [status EXCEPT ![a] = s]
                         /\ overtaken' = IF s = "QUEUED" THEN overtaken \cup {a} ELSE overtaken
                         /\ UNCHANGED created
    BY <1>1 DEF RowsOf
  <2>2. \A b \in App : /\ b # a => status'[b] = status[b]
                       /\ b = a => status'[b] = s
    BY <2>1 DEF TypeOK, RowsType
  <2>3. \A b \in App : Exists(b)' <=> Exists(b)
    BY <1>0, <2>1, <2>2 DEF Exists
  <2>4. Guarded'
    <3>1. \A b \in created : \/ status'[b] \in {status[b], "APPLIED", "REJECTED", "NONE"}
                             \/ b \in overtaken'
      BY <1>0, <2>1, <2>2 DEF ApiType
    <3>2. \A b \in App : status'[b] # "NONE" => b \in created'
      BY <2>1, <2>3 DEF Exists, Guarded, RowMade
    <3>3. created \subseteq created' /\ overtaken \subseteq overtaken'
      BY <2>1
    <3> QED
      BY <1>0, <3>1, <3>2, <3>3, ApiGuarded
  <2>5. OneRowPerJob'
    BY <1>0, <2>1, <2>3, ApiOneRow
  <2>6. Asked'
    BY <1>0, <2>2, ApiAsked
  <2> QED
    BY <2>4, <2>5, <2>6
<1>2. CASE /\ RowsOf(r.job) = {}
           /\ \E a \in App \ created :
                /\ JobOf[a] = r.job
                /\ status' = [status EXCEPT ![a] = s]
                /\ created' = created \cup {a} /\ recent' = recent \cup {a}
           /\ UNCHANGED overtaken
  <2> HIDE DEF r, s
  <2>1. PICK a \in App \ created : /\ JobOf[a] = r.job
                                   /\ status' = [status EXCEPT ![a] = s]
                                   /\ created' = created \cup {a}
    BY <1>2
  <2>2. \A b \in App : /\ b # a => status'[b] = status[b]
                       /\ b = a => status'[b] = s
    BY <2>1 DEF TypeOK, RowsType
  <2>3. Guarded'
    <3>1. \A b \in created : status'[b] = status[b]
      BY <2>1, <2>2 DEF ApiType
    <3>2. \A b \in App : status'[b] # "NONE" => b \in created'
      BY <2>1, <2>2 DEF Exists, Guarded, RowMade
    <3>3. created \subseteq created' /\ overtaken \subseteq overtaken'
      BY <1>2, <2>1
    <3> QED
      BY <1>0, <3>1, <3>2, <3>3, ApiGuarded
  <2>4. OneRowPerJob'
    <3>1. \A b \in created : JobOf[b] = JobOf[a] => JobOf[b] \in undone
      BY <1>2, <2>1 DEF OneRowPerJob, RowsOf, ApiType
    <3>2. Exists(a)' /\ \A b \in created : Exists(b) => Exists(b)'
      BY <1>0, <2>1, <2>2 DEF Exists, ApiType
    <3> QED
      BY <1>0, <2>1, <3>1, <3>2 DEF OneRowPerJob
  <2>5. Asked'
    BY <1>0, <2>2, ApiAsked
  <2> QED
    BY <2>3, <2>4, <2>5
<1> QED
  BY <1>1, <1>2 DEF Insert

\* The other writes look at the request they belong to, not at the row.
LEMMA HandleStep ==
  ASSUME SystemInv, NEW c \in Client, Handle(c)
  PROVE  Guarded' /\ OneRowPerJob' /\ Asked'
<1> USE DEF SystemInv
<1>0. created \subseteq App /\ request[c] \in Requests
  BY DEF ApiType
<1>1. CASE Insert(c)
  BY <1>1, InsertStep
<1>2. CASE Undo(c)
  <2>1. /\ UNCHANGED <<stale, agent, history, created, overtaken>>
        /\ undone' = undone \cup {request[c].job}
        /\ \A a \in App : \/ status'[a] = "NONE" /\ JobOf[a] = request[c].job
                          \/ status'[a] = status[a] /\ inputs'[a] = inputs[a]
    BY <1>2 DEF Undo, RowsOf
  <2>2. Guarded'
    BY <1>0, <2>1, ApiGuarded DEF Guarded, RowMade, Exists
  <2>3. OneRowPerJob'
    BY <1>0, <2>1 DEF OneRowPerJob, Exists
  <2>4. Asked'
    BY <2>1, ApiAsked
  <2> QED
    BY <2>2, <2>3, <2>4
<1>3. CASE ReadQuestions(c)
  <2>1. UNCHANGED <<status, stale, inputs, agent, history, created, overtaken, undone>>
    BY <1>3 DEF ReadQuestions, vars, rows, apiHistory
  <2>2. Guarded'
    BY <1>0, <2>1, ApiGuarded DEF Guarded, RowMade, Exists
  <2>3. OneRowPerJob' /\ Asked'
    BY <2>1, ApiOneRow, ApiAsked DEF Exists
  <2> QED
    BY <2>2, <2>3
<1>4. CASE WriteAnswer(c)
  <2> DEFINE a == request[c].app
  <2>1. a \in App
    BY <1>0, <1>4 DEF WriteAnswer, Requests, Idle
  <2>2. UNCHANGED <<stale, agent, history, created, undone>>
    BY <1>4 DEF WriteAnswer
  <2>3. \/ UNCHANGED <<inputs, status, overtaken>>
        \/ /\ status[a] # "NONE" /\ SetStatus(a, "QUEUED")
           /\ inputs' = [inputs EXCEPT ![a] = Resolved(a, request[c].answered)]
           /\ overtaken' = IF status[a] = "REQUIRES_INPUT" THEN overtaken ELSE overtaken \cup {a}
    BY <1>4 DEF WriteAnswer, CanEmit
  <2> HIDE DEF a
  <2>4. /\ overtaken \subseteq overtaken'
        /\ \A b \in App : \/ status'[b] = status[b] /\ inputs'[b] = inputs[b]
                          \/ /\ status'[b] = "QUEUED" /\ status[b] # "NONE"
                             /\ status[b] = "REQUIRES_INPUT" \/ b \in overtaken'
    BY <2>1, <2>3 DEF SetStatus, TypeOK, RowsType
  <2>5. Guarded'
    BY <1>0, <2>2, <2>4, ApiGuarded DEF Guarded, RowMade, Exists
  <2>6. OneRowPerJob'
    BY <2>2, <2>4, ApiOneRow DEF Exists
  <2>7. Asked'
    BY <2>2, <2>4, ApiAsked
  <2> QED
    BY <2>5, <2>6, <2>7
<1>5. CASE WriteRejected(c)
  <2>1. /\ UNCHANGED <<stale, inputs, agent, history, created, overtaken, undone>>
        /\ \A a \in App : \/ status'[a] = status[a]
                          \/ status'[a] = "REJECTED" /\ status[a] # "NONE"
    BY <1>5 DEF WriteRejected, SetStatus, TypeOK, RowsType
  <2>2. Guarded'
    BY <1>0, <2>1, ApiGuarded DEF Guarded, RowMade, Exists
  <2>3. OneRowPerJob' /\ Asked'
    BY <2>1, ApiOneRow, ApiAsked DEF Exists
  <2> QED
    BY <2>2, <2>3
<1> QED
  BY <1>1, <1>2, <1>3, <1>4, <1>5 DEF Handle

LEMMA SystemInvStep == SystemInv /\ [SystemNext]_allVars => SystemInv'
<1> SUFFICES ASSUME SystemInv, [SystemNext]_allVars PROVE SystemInv'
  OBVIOUS
<1>1. CASE Next /\ Aside
  <2>1. TypeOK'
    BY <1>1, TypeStep, TypeEnvironment DEF Next, SystemInv, Guarded
  <2>2. Guarded'
    BY <1>1, WorkerGuarded, EnvironmentGuarded DEF Next, SystemInv
  <2>3. ApiType'
    BY <1>1 DEF SystemInv, ApiType, Aside, api, apiHistory
  <2>4. OneRowPerJob'
    BY <1>1, RowsStay DEF SystemInv, Guarded, ApiType, OneRowPerJob, Aside, api, apiHistory
  <2>5. Asked'
    BY <1>1, AgentAsked DEF SystemInv, Guarded
  <2> QED
    BY <2>1, <2>2, <2>3, <2>4, <2>5 DEF SystemInv
<1>2. ASSUME NEW c \in Client, Request(c) \/ Handle(c) PROVE SystemInv'
  <2>1. TypeOK' /\ ApiType'
    BY <1>2, RowsTypeStep, RequestTypeStep, HandleTypeStep DEF SystemInv
  <2>2. Guarded' /\ OneRowPerJob' /\ Asked'
    BY <1>2, RequestStep, HandleStep
  <2> QED
    BY <2>1, <2>2 DEF SystemInv
<1>3. CASE UNCHANGED <<vars, request, created, apiHistory>> /\ recent' \subseteq recent
  <2> USE <1>3 DEF vars, rows, agent, history, apiHistory
  <2>1. TypeOK' /\ ApiType'
    BY DEF SystemInv, TypeOK, RowsType, ApiType
  <2>2. Guarded'
    BY DEF SystemInv, Guarded, InHand, KeepsRow, Unsent, SentIsKept, RowMade, Exists,
           ExclusiveUnlessOvertaken, Working, Disputed, Shared
  <2>3. OneRowPerJob' /\ Asked'
    BY DEF SystemInv, OneRowPerJob, Exists, Asked, Asking, HoldHasQuestion, Unresolved
  <2> QED
    BY <2>1, <2>2, <2>3 DEF SystemInv
<1> QED
  BY <1>1, <1>2, <1>3 DEF SystemNext, GrowsOld, Aside, allVars, api

LEMMA SystemInvariance == System => []SystemInv
BY SystemInitInv, SystemInvStep, PTL DEF System

-------------------------------------------------------------------------------
\* Every variable of the workers, the rows and the requests keeps its type.
THEOREM SystemTypeCorrect == System => []SystemTypeOK
<1>1. SystemInv => SystemTypeOK
  <2> SUFFICES ASSUME SystemInv, NEW c \in Client, request[c] # Idle
               PROVE  /\ request[c].op \in {"accept", "reject", "undo"} => request[c].job \in Job
                      /\ request[c].op \in {"questions", "answer", "withdraw", "patch"} =>
                           request[c].app \in App
    BY DEF SystemInv, ApiType, SystemTypeOK
  <2>1. request[c] \in Requests
    BY DEF SystemInv, ApiType
  <2> QED
    BY <2>1 DEF Requests
<1> QED
  BY <1>1, SystemInvariance, PTL

\* With any number of users swiping, answering, withdrawing and undoing at any moment of
\* run_once, two workers share an application only if its lock aged under one of them or a
\* request queued it over a status it had not read.
THEOREM ExclusiveUnlessOvertakenHolds == System => []ExclusiveUnlessOvertaken
<1>1. SystemInv => ExclusiveUnlessOvertaken
  BY DEF SystemInv, Guarded
<1> QED
  BY <1>1, SystemInvariance, PTL

\* A job is applied for once over all the rows it ever had, unless one was undone, a
\* submission was in doubt, a lock aged or a request overtook a worker.
THEOREM JobSubmittedOnceHolds == System => []JobSubmittedOnce
<1>1. SystemInv => JobSubmittedOnce
  <2> SUFFICES ASSUME SystemInv, NEW j \in Job \ undone,
                      {a \in App : JobOf[a] = j /\ submissions[a] > 0} \cap Disputed = {}
               PROVE  /\ Cardinality({a \in App : JobOf[a] = j /\ submissions[a] > 0}) <= 1
                      /\ \A a \in {b \in App : JobOf[b] = j /\ submissions[b] > 0} :
                           submissions[a] = 1
    BY DEF JobSubmittedOnce, Disputed, Shared
  <2> DEFINE sent == {a \in App : JobOf[a] = j /\ submissions[a] > 0}
  <2>1. \A a \in sent : submissions[a] = 1
    BY DEF SystemInv, Guarded, SentIsKept, TypeOK
  <2>2. \A a, b \in sent : a = b
    BY DEF SystemInv, Guarded, RowMade, OneRowPerJob
  <2>3. Cardinality(sent) <= 1
    <3>1. CASE sent = {}
      BY <3>1, FS_EmptySet
    <3>2. CASE sent # {}
      <4> HIDE DEF sent
      <4>1. PICK a : a \in sent
        BY <3>2
      <4>2. sent = {a}
        <5>1. \A b \in sent : b = a
          BY <2>2, <4>1
        <5> QED
          BY <4>1, <5>1
      <4>3. Cardinality({a}) = 1
        BY FS_Singleton
      <4> QED
        BY <4>2, <4>3
    <3> QED
      BY <3>1, <3>2
  <2> QED
    BY <2>1, <2>3
<1> QED
  BY <1>1, SystemInvariance, PTL

\* Through racing answers, second holds, withdrawals and undone swipes, a row that waits
\* for its user has a question that is open.
THEOREM HoldHasQuestionHolds == System => []HoldHasQuestion
<1>1. SystemInv => HoldHasQuestion
  BY DEF SystemInv, Asked
<1> QED
  BY <1>1, SystemInvariance, PTL

\* What users do to the rows never lets a process fill more forms for a tenant at a time
\* than max_per_tenant: not when an overtaken row is started by two workers, and not when
\* a row is withdrawn, moved or deleted under the worker that counts for it.
THEOREM SystemTenantLimitHolds == System => []TenantLimit
<1>1. SystemInv => TypeOK /\ InHand
  BY DEF SystemInv, Guarded
<1>2. SystemInv /\ Counted /\ [SystemNext]_allVars => Counted'
  <2> SUFFICES ASSUME TypeOK, InHand, Counted, [SystemNext]_allVars PROVE Counted'
    BY <1>1
  <2>1. CASE Next
    BY <2>1, CountedStep
  <2>2. CASE \E c \in Client : Request(c) \/ Handle(c)
    <3>1. UNCHANGED <<pc, task, tracker>>
      BY <2>2 DEF Request, Swipe, FindUndo, BeginAnswer, BeginResume, Snooze, BeginWithdraw,
                  BeginPatch, MoveStage, Reads, Handle, Insert, Undo, ReadQuestions, WriteAnswer,
                  WriteRejected, vars, agent
    <3> QED
      BY <3>1, CountedAside
  <2>3. CASE (\E a \in App : GrowsOld(a)) \/ UNCHANGED allVars
    BY <2>3, CountedAside DEF GrowsOld, allVars, vars, agent
  <2> QED
    BY <2>1, <2>2, <2>3 DEF SystemNext
<1> QED
  BY <1>1, <1>2, InitCounted, CountedLimits, SystemInvariance, PTL DEF System, SystemInit

\* A worker that has a submission to record has made it or believes so, and so of the rows
\* that say APPLIED.
Recorded ==
  /\ \A w \in Worker : pc[w] \in Sending => Passed(task[w])
  /\ AppliedIsBacked

LEMMA RecordedWhenQuiet ==
  ASSUME TypeOK, Recorded, UNCHANGED <<submissions, mistaken>>,
         \A w \in Worker : pc'[w] \in Sending => pc[w] = pc'[w] /\ task'[w] = task[w],
         \A a \in App : status'[a] = "APPLIED" =>
           status[a] = "APPLIED" \/ \E w \in Worker : pc[w] \in Sending /\ task[w] = a
  PROVE  Recorded'
BY DEF Recorded, AppliedIsBacked

LEMMA RecordedWorker ==
  ASSUME TypeOK, InHand, Recorded, NEW w \in Worker, Step(w)
  PROVE  Recorded'
<1> USE DEF TypeOK, RowsType, Sending
<1>0. task[w] \in App \/ pc[w] = "idle"
  BY DEF InHand
<1>1. CASE HttpApply(w) \/ Submit(w)
  <2>1. /\ task' = task /\ status' = status /\ task[w] \in App
        /\ pc' = [pc EXCEPT ![w] = pc'[w]]
        /\ \A a \in App : submissions'[a] >= submissions[a]
        /\ mistaken \subseteq mistaken'
    BY <1>0, <1>1 DEF HttpApply, Submit, Goes, Sends, rows
  <2>2. pc'[w] \in Sending => Passed(task[w])'
    BY <1>0, <1>1 DEF HttpApply, Submit, Goes, Sends
  <2>3. \A v \in Worker \ {w} : pc'[v] = pc[v]
    BY <2>1
  <2>4. \A v \in Worker : pc[v] \in Sending => task[v] \in App
    BY DEF InHand
  <2>5. \A a \in App : submissions'[a] \in 0..2
    BY <1>0, <1>1 DEF HttpApply, Submit, Goes, Sends
  <2> QED
    BY <2>1, <2>2, <2>3, <2>4, <2>5 DEF Recorded, AppliedIsBacked
<1>2. CASE Claim(w)
  <2>1. \A a \in App : status'[a] = "APPLIED" => status[a] = "APPLIED"
    BY <1>2 DEF Claim, ClaimNext
  <2> QED
    BY <1>2, <2>1, RecordedWhenQuiet DEF Claim, Goes, history
<1>3. CASE PeekLimit(w) \/ StartTask(w) \/ OpenPage(w) \/ AskUser(w) \/ MeetCaptcha(w) \/ PageRaises(w)
  <2>1. UNCHANGED <<submissions, mistaken, status, task>> /\ \E s \in PC \ Sending : Goes(w, s)
    BY <1>3 DEF PeekLimit, StartTask, OpenPage, AskUser, MeetCaptcha, PageRaises, rows, history
  <2> QED
    BY <2>1, RecordedWhenQuiet DEF Goes
<1>4. CASE FinishSuccess(w) \/ SuccessRaises(w) \/ HoldRaises(w) \/ FailureRaises(w)
  <2>1. UNCHANGED <<submissions, mistaken, status, task>> /\ \E s \in PC \ Sending : Goes(w, s)
    BY <1>4 DEF FinishSuccess, SuccessRaises, HoldRaises, FailureRaises, rows, history
  <2> QED
    BY <2>1, RecordedWhenQuiet DEF Goes
<1>5. CASE Release(w) \/ EnterHold(w) \/ HandleFailure(w)
  <2>1. UNCHANGED <<submissions, mistaken>> /\ \E s \in PC \ Sending : Goes(w, s)
    BY <1>5 DEF Release, EnterHold, HandleFailure, Returns, history
  <2>2. \A v \in Worker \ {w} : task'[v] = task[v]
    BY <1>5 DEF Release, EnterHold, HandleFailure, Returns
  <2>3. \A a \in App : status'[a] = "APPLIED" => status[a] = "APPLIED"
    BY <1>5 DEF Release, EnterHold, HandleFailure, SetStatus
  <2> QED
    BY <2>1, <2>2, <2>3, RecordedWhenQuiet DEF Goes
<1>6. CASE Abandon(w) \/ EndTask(w)
  <2>1. UNCHANGED <<submissions, mistaken, status>> /\ Goes(w, "idle") /\ \A v \in Worker \ {w} : task'[v] = task[v]
    BY <1>6 DEF Abandon, EndTask, Returns, rows, history
  <2> QED
    BY <2>1, RecordedWhenQuiet DEF Goes
<1>7. CASE MarkApplied(w)
  <2>1. /\ UNCHANGED <<submissions, mistaken, task>> /\ pc[w] \in Sending
        /\ Goes(w, "applied") \/ Goes(w, "http_applied")
        /\ \A a \in App : status'[a] = "APPLIED" => status[a] = "APPLIED" \/ a = task[w]
    BY <1>7 DEF MarkApplied, SetStatus, history
  <2> QED
    BY <2>1, RecordedWhenQuiet DEF Goes
<1> QED
  BY <1>1, <1>2, <1>3, <1>4, <1>5, <1>6, <1>7 DEF Step

LEMMA RecordedRequest ==
  ASSUME "stage" \notin Operations, TypeOK, Recorded, NEW c \in Client, Request(c) \/ Handle(c)
  PROVE  Recorded'
<1> USE DEF TypeOK, RowsType
<1>1. UNCHANGED <<pc, task, submissions, mistaken>>
  BY DEF Request, Swipe, FindUndo, BeginAnswer, BeginResume, Snooze, BeginWithdraw, BeginPatch,
         MoveStage, Reads, Handle, Insert, Undo, ReadQuestions, WriteAnswer, WriteRejected, vars,
         agent, history
<1>2. \A a \in App : status'[a] = "APPLIED" => status[a] = "APPLIED"
  <2>1. CASE Request(c)
    BY <2>1 DEF Request, Swipe, FindUndo, BeginAnswer, BeginResume, Snooze, BeginWithdraw,
                BeginPatch, MoveStage, Reads, vars, rows
  <2>2. CASE Insert(c)
    BY <2>2 DEF Insert
  <2>3. CASE Undo(c) \/ ReadQuestions(c)
    BY <2>3 DEF Undo, ReadQuestions, vars, rows
  <2>4. CASE WriteAnswer(c) \/ WriteRejected(c)
    BY <2>4 DEF WriteAnswer, WriteRejected, SetStatus
  <2> QED
    BY <2>1, <2>2, <2>3, <2>4 DEF Handle
<1> QED
  BY <1>1, <1>2, RecordedWhenQuiet

\* But for the pipeline view, which may say APPLIED of any row, only a worker's submission,
\* or a click it took for one, puts a row on record: no swipe, answer, withdrawal or undo
\* (user.py), at whatever moment of run_once, leaves a row APPLIED that no worker submitted
\* or believed submitted.
THEOREM SystemAppliedIsBackedHolds ==
  ASSUME "stage" \notin Operations
  PROVE  System => []AppliedIsBacked
<1>1. SystemInit => Recorded
  BY DEF SystemInit, RowsInit, AgentInit, Recorded, AppliedIsBacked, Sending
<1>2. SystemInv /\ Recorded /\ [SystemNext]_allVars => Recorded'
  <2> SUFFICES ASSUME SystemInv, Recorded, [SystemNext]_allVars PROVE Recorded'
    OBVIOUS
  <2>0. TypeOK /\ InHand
    BY DEF SystemInv, Guarded
  <2>1. ASSUME NEW w \in Worker, Step(w) PROVE Recorded'
    BY <2>0, <2>1, RecordedWorker
  <2>2. ASSUME NEW p \in Process, Crash(p) PROVE Recorded'
    <3>1. UNCHANGED <<submissions, mistaken, status>>
      BY <2>2 DEF Crash, rows
    <3>2. \A w \in Worker : pc'[w] = "idle" \/ (pc'[w] = pc[w] /\ task'[w] = task[w])
      BY <2>2 DEF Crash
    <3> QED
      BY <2>0, <3>1, <3>2, RecordedWhenQuiet DEF Sending
  <2>3. ASSUME NEW c \in Client, Request(c) \/ Handle(c) PROVE Recorded'
    BY <2>0, <2>3, RecordedRequest
  <2>4. CASE \/ \E a \in App : \/ OrphanAges(a) \/ LockExpires(a) \/ RetryComesDue(a)
                              \/ GrowsOld(a)
             \/ UNCHANGED allVars
    <3>1. UNCHANGED <<pc, task, status, submissions, mistaken>>
      BY <2>4 DEF OrphanAges, LockExpires, RetryComesDue, LockAges, DeferralEnds, GrowsOld,
                  allVars, vars, rows, agent, history
    <3> QED
      BY <2>0, <3>1, RecordedWhenQuiet
  <2> QED
    BY <2>1, <2>2, <2>3, <2>4 DEF SystemNext, Next
<1>3. Recorded => AppliedIsBacked
  BY DEF Recorded
<1> QED
  BY <1>1, <1>2, <1>3, SystemInvariance, PTL DEF System
===============================================================================
