---------------------------- MODULE FormAgentProofs ----------------------------
(***************************************************************************)
(* Proofs about FormAgent for every set of applications, workers and       *)
(* processes, every limit and every number of faults: its invariants, and  *)
(* the refinement of Submission.                                           *)
(***************************************************************************)
EXTENDS FormAgentRefinement, FiniteSetTheorems, TLAPS

\* Where a worker is before it has handed the application over to APPLIED.
Undecided == PC \ {"idle", "ending", "applied", "http_applied"}

Sending == {"sent", "http_sent"}

\* A worker has an application in hand exactly when it is not idle.
InHand == \A w \in Worker : pc[w] = "idle" <=> task[w] = NoApp

\* A worker whose lock has not aged owns the row: it is PROCESSING under a fresh lock,
\* or APPLIED by this worker's own doing.
OwnsRow ==
  \A w \in Worker :
    Working(w) /\ task[w] \notin expired =>
      /\ status[task[w]] \in {"PROCESSING", "APPLIED"}
      /\ ~ stale[task[w]]
      /\ pc[w] \in Undecided /\ task[w] \notin uncertain => status[task[w]] = "PROCESSING"

\* It was submitted, or passes for it.
Passed(a) == submissions[a] >= 1 \/ a \in mistaken

\* An application none of whose submissions is in doubt was submitted, or mistaken for
\* submitted, once at most, and then its row says so or the worker that did it is about
\* to make it.
Accounted ==
  \A a \in App \ (uncertain \cup expired) :
    /\ submissions[a] <= 1
    /\ submissions[a] = 1 => a \notin mistaken
    /\ Passed(a) =>
         \/ status[a] = "APPLIED"
         \/ \E w \in Worker : task[w] = a /\ pc[w] \in Sending

\* A worker that is about to write APPLIED has submitted, or taken a click for it.
HasSent == \A w \in Worker : pc[w] \in Sending => Passed(task[w])

IInv ==
  TypeOK /\ InHand /\ ExclusiveProcessing /\ OwnsRow /\ Accounted /\ HasSent
         /\ AppliedIsBacked

-------------------------------------------------------------------------------
USE DEF PC, Unstarted, Starting, Trying, Handling, Passed

\* The tracker's operations keep its type.
LEMMA TrackerTypes ==
  /\ T!FreshTracker \in T!TrackerState
  /\ \A tr \in T!TrackerState, a \in App :
       /\ T!Started(tr, a, TenantOf[a]) \in T!TrackerState
       /\ T!Ended(tr, a) \in T!TrackerState
<1>1. T!FreshTracker \in T!TrackerState
  BY DEF T!FreshTracker, T!TrackerState
<1>2. ASSUME NEW tr \in T!TrackerState, NEW a \in App
      PROVE  T!Started(tr, a, TenantOf[a]) \in T!TrackerState
  <2>1. tr.active_tasks \cup {a} \in SUBSET App
    BY <1>2 DEF T!TrackerState
  <2>2. [x \in Tenant |-> IF x = TenantOf[a] THEN tr.tenant_usage[x] + 1
                                            ELSE tr.tenant_usage[x]] \in [Tenant -> Nat]
    BY <1>2 DEF T!TrackerState
  <2>3. [x \in App |-> IF x = a /\ TenantOf[a] \in Tenant
                       THEN TenantOf[a] ELSE tr.task_tenant_map[x]]
          \in [App -> Tenant \cup {NoTenant}]
    BY <1>2 DEF T!TrackerState
  <2> QED
    BY <2>1, <2>2, <2>3 DEF T!Started, T!TrackerState
<1>3. ASSUME NEW tr \in T!TrackerState, NEW a \in App
      PROVE  T!Ended(tr, a) \in T!TrackerState
  <2>1. tr.active_tasks \ {a} \in SUBSET App
    BY <1>3 DEF T!TrackerState
  <2>2. [x \in Tenant |-> IF x = tr.task_tenant_map[a] /\ tr.tenant_usage[x] > 0
                          THEN tr.tenant_usage[x] - 1 ELSE tr.tenant_usage[x]]
          \in [Tenant -> Nat]
    BY <1>3 DEF T!TrackerState
  <2>3. [tr.task_tenant_map EXCEPT ![a] = NoTenant] \in [App -> Tenant \cup {NoTenant}]
    BY <1>3 DEF T!TrackerState
  <2> QED
    BY <1>3, <2>1, <2>2, <2>3 DEF T!Ended, T!TrackerState
<1> QED
  BY <1>1, <1>2, <1>3

\* The questions of a hold are questions.
LEMMA QuestionsType ==
  ASSUME NEW fields \in SUBSET Field, NEW n \in Nat
  PROVE  [field : fields, hold : {n}, resolved : {FALSE}] \subseteq Input
BY DEF Input

LEMMA InitIInv == Init => IInv
<1> SUFFICES ASSUME Init PROVE IInv
  OBVIOUS
<1>1. TypeOK
  <2>1. RowsType
    BY DEF Init, RowsInit, RowsType, Status
  <2>2. tracker \in [Process -> T!TrackerState]
    BY TrackerTypes DEF Init, AgentInit
  <2> QED
    BY <2>1, <2>2, FormAgentAssumption DEF Init, AgentInit, TypeOK
<1>2. InHand /\ ExclusiveProcessing /\ OwnsRow /\ Accounted /\ HasSent
      /\ AppliedIsBacked
  BY DEF Init, AgentInit, RowsInit, InHand, ExclusiveProcessing, Working, OwnsRow, Accounted,
         Sending, HasSent, AppliedIsBacked
<1> QED
  BY <1>1, <1>2 DEF IInv

\* The steps of a worker keep the types.
LEMMA TypeStep ==
  ASSUME TypeOK, InHand, NEW w \in Worker, Step(w)
  PROVE  TypeOK'
<1> USE FormAgentAssumption DEF TypeOK, RowsType, Status, InHand, Goes, Returns,
        rows, history
<1>1. CASE Claim(w)
  BY <1>1 DEF Claim, ClaimNext, First, Claimable
<1>2. CASE PeekLimit(w)
  BY <1>2 DEF PeekLimit
<1>3. CASE StartTask(w)
  <2> DEFINE p == Home[w]  a == task[w]
  <2>0. p \in Process /\ a \in App /\ tracker[p] \in T!TrackerState
    BY <1>3 DEF StartTask
  <2>1. tracker' \in [Process -> T!TrackerState]
    <3>1. T!Started(tracker[p], a, TenantOf[a]) \in T!TrackerState
      BY <2>0, TrackerTypes
    <3>2. \/ tracker' = tracker
          \/ tracker' = [tracker EXCEPT ![p] = T!Started(@, a, TenantOf[a])]
      BY <1>3 DEF StartTask
    <3> QED
      BY <2>0, <3>1, <3>2
  <2>2. pc' \in [Worker -> PC]
    BY <1>3 DEF StartTask
  <2> QED
    BY <1>3, <2>1, <2>2 DEF StartTask
<1>4. CASE Release(w)
  BY <1>4 DEF Release, SetStatus
<1>5. CASE HttpApply(w)
  BY <1>5 DEF HttpApply, Sends, Budgeted
<1>6. CASE OpenPage(w)
  BY <1>6 DEF OpenPage, Raises, Budgeted
<1>7. CASE Abandon(w)
  BY <1>7 DEF Abandon, Raises, Budgeted
<1>8. CASE AskUser(w)
  BY <1>8 DEF AskUser
<1>9. CASE MeetCaptcha(w)
  BY <1>9 DEF MeetCaptcha
<1>10. CASE Submit(w)
  BY <1>10 DEF Submit, Sends, Budgeted
<1>11. CASE PageRaises(w)
  BY <1>11 DEF PageRaises, Budgeted
<1>12. CASE MarkApplied(w)
  BY <1>12 DEF MarkApplied, SetStatus
<1>13. CASE FinishSuccess(w)
  BY <1>13 DEF FinishSuccess
<1>14. CASE SuccessRaises(w)
  BY <1>14 DEF SuccessRaises, Raises, Budgeted
<1>15. CASE EnterHold(w)
  <2> DEFINE a == task[w]
             new == [field : asked[w], hold : {holds[a]}, resolved : {FALSE}]
  <2>1. a \in App
    BY <1>15 DEF EnterHold
  <2>2. new \subseteq Input
    <3>1. asked[w] \in SUBSET Field /\ holds[a] \in Nat
      BY <2>1
    <3> QED
      BY <3>1, QuestionsType
  <2>3. inputs' \in [App -> SUBSET Input]
    BY <1>15, <2>1, <2>2 DEF EnterHold, InsertUnresolved
  <2>4. holds' \in [App -> Nat]
    BY <1>15, <2>1 DEF EnterHold, InsertUnresolved
  <2>5. status' \in [App -> Status]
    BY <1>15, <2>1 DEF EnterHold, SetStatus
  <2>6. pc' \in [Worker -> PC]
    BY <1>15 DEF EnterHold
  <2>7. UNCHANGED <<attempts, deferred, stale, dlq, task, attempt, asked, tracker, history>>
    BY <1>15 DEF EnterHold
  <2> QED
    BY <2>3, <2>4, <2>5, <2>6, <2>7
<1>16. CASE HoldRaises(w)
  BY <1>16 DEF HoldRaises, Raises, Budgeted
<1>17. CASE HandleFailure(w)
  BY <1>17 DEF HandleFailure, SetStatus
<1>18. CASE FailureRaises(w)
  BY <1>18 DEF FailureRaises, Raises, Budgeted
<1>19. CASE EndTask(w)
  BY <1>19, TrackerTypes DEF EndTask
<1> QED
  BY <1>1, <1>2, <1>3, <1>4, <1>5, <1>6, <1>7, <1>8, <1>9, <1>10, <1>11, <1>12, <1>13, <1>14, <1>15, <1>16, <1>17, <1>18, <1>19 DEF Step

\* So do a crash and the passing of time.
LEMMA TypeEnvironment ==
  ASSUME TypeOK, InHand,
         \/ \E p \in Process : Crash(p)
         \/ \E a \in App : OrphanAges(a) \/ LockExpires(a) \/ RetryComesDue(a)
  PROVE  TypeOK'
<1> USE FormAgentAssumption DEF TypeOK, RowsType, Status, rows, agent, history
<1>1. CASE \E p \in Process : Crash(p)
  <2>1. PICK p \in Process : Crash(p)
    BY <1>1
  <2>2. tracker' \in [Process -> T!TrackerState]
    BY <2>1, TrackerTypes DEF Crash
  <2>3. uncertain' \subseteq App
    <3>1. \A w \in Worker : pc[w] \in {"sent", "http_sent"} => task[w] \in App
      BY DEF InHand
    <3> QED
      BY <2>1, <3>1 DEF Crash
  <2> QED
    BY <2>1, <2>2, <2>3 DEF Crash, Budgeted
<1>2. ASSUME NEW a \in App, OrphanAges(a) PROVE TypeOK'
  BY <1>2 DEF OrphanAges, LockAges
<1>3. ASSUME NEW a \in App, LockExpires(a) PROVE TypeOK'
  BY <1>3 DEF LockExpires, LockAges, Budgeted
<1>4. ASSUME NEW a \in App, RetryComesDue(a) PROVE TypeOK'
  BY <1>4 DEF RetryComesDue, DeferralEnds
<1> QED
  BY <1>1, <1>2, <1>3, <1>4

-------------------------------------------------------------------------------
\* The part of the inductive invariant that is not about types.
Kept == InHand /\ ExclusiveProcessing /\ OwnsRow /\ Accounted /\ HasSent
               /\ AppliedIsBacked

\* A step that moves a worker on without touching its row or submitting anything,
\* and marks the application when it gives up a submission.
LEMMA QuietStep ==
  ASSUME IInv, NEW w \in Worker, NEW s \in PC \ (Sending \cup {"idle"}),
         pc[w] # "idle", Goes(w, s),
         UNCHANGED <<status, stale, submissions, task, mistaken, expired>>,
         uncertain \subseteq uncertain',
         pc[w] \in Sending => task[w] \in uncertain',
         pc[w] = "ending" => s = "ending",
         s \in Undecided => pc[w] \in Undecided \/ task[w] \in uncertain'
  PROVE  Kept'
<1> USE DEF IInv, TypeOK, Goes, Sending
<1>1. InHand'
  BY DEF InHand
<1>2. ExclusiveProcessing'
  BY DEF ExclusiveProcessing, Working
<1>3. OwnsRow'
  BY DEF OwnsRow, Working, Undecided
<1>4. Accounted'
  BY DEF Accounted
<1>5. HasSent'
  BY DEF HasSent
<1>6. AppliedIsBacked'
  BY DEF AppliedIsBacked
<1> QED
  BY <1>1, <1>2, <1>3, <1>4, <1>5, <1>6 DEF Kept

\* A step in which a worker lets go of its application without touching the row.
LEMMA LeavingStep ==
  ASSUME IInv, NEW w \in Worker, Returns(w),
         UNCHANGED <<status, stale, submissions, mistaken, expired>>,
         uncertain \subseteq uncertain',
         pc[w] \in Sending => task[w] \in uncertain'
  PROVE  Kept'
<1> USE FormAgentAssumption DEF IInv, TypeOK, Returns, Goes, Sending
<1>1. InHand'
  BY DEF InHand
<1>2. ExclusiveProcessing'
  BY DEF ExclusiveProcessing, Working
<1>3. OwnsRow'
  BY DEF OwnsRow, Working, Undecided
<1>4. Accounted'
  BY DEF Accounted
<1>5. HasSent'
  BY DEF HasSent
<1>6. AppliedIsBacked'
  BY DEF AppliedIsBacked
<1> QED
  BY <1>1, <1>2, <1>3, <1>4, <1>5, <1>6 DEF Kept

\* A step in which a worker that owns its row, and has nothing submitted that is not
\* in doubt, gives the row a status other than APPLIED and is done with it.
LEMMA WritingStep ==
  ASSUME IInv, NEW w \in Worker, NEW s \in Status \ {"APPLIED"},
         pc[w] \in Undecided \ Sending, SetStatus(task[w], s),
         \/ Returns(w)
         \/ Goes(w, "ending") /\ UNCHANGED task,
         UNCHANGED <<stale, submissions, uncertain, mistaken, expired>>
  PROVE  Kept'
<1> USE FormAgentAssumption DEF IInv, TypeOK, RowsType, Returns, Goes, Sending, Undecided
<1>0. task[w] \in App /\ Working(w)
  BY DEF InHand, Working
<1>1. InHand'
  BY DEF InHand
<1>2. ExclusiveProcessing'
  BY DEF ExclusiveProcessing, Working
<1>3. OwnsRow'
  BY <1>0 DEF OwnsRow, ExclusiveProcessing, Working, SetStatus
<1>4. Accounted'
  <2> SUFFICES ASSUME NEW a \in App, a \notin uncertain \cup expired, Passed(a)
               PROVE  \/ status'[a] = "APPLIED"
                      \/ \E v \in Worker : task'[v] = a /\ pc'[v] \in Sending
    BY DEF Accounted
  <2>1. CASE a = task[w]
    <3>1. status[a] = "PROCESSING"
      BY <2>1, <1>0 DEF OwnsRow
    <3>2. PICK v \in Worker : task[v] = a /\ pc[v] \in Sending
      BY <3>1 DEF Accounted
    <3> QED
      BY <3>2, <2>1, <1>0 DEF ExclusiveProcessing, Working
  <2>2. CASE a # task[w]
    BY <2>2, <1>0 DEF Accounted, SetStatus
  <2> QED
    BY <2>1, <2>2
<1>5. HasSent'
  BY DEF HasSent
<1>6. AppliedIsBacked'
  BY <1>0 DEF AppliedIsBacked, SetStatus
<1> QED
  BY <1>1, <1>2, <1>3, <1>4, <1>5, <1>6 DEF Kept

\* A submission: nothing of an application that is not in doubt was submitted before.
LEMMA SendingStep ==
  ASSUME IInv, NEW w \in Worker, NEW n \in {1, 2},
         NEW s \in Sending \cup {"opening", "failing"},
         pc[w] \in Undecided \ Sending, Goes(w, s), Sends(task[w], n),
         UNCHANGED <<status, stale, task, mistaken, expired>>,
         uncertain \subseteq uncertain',
         n = 2 \/ s \notin Sending => task[w] \in uncertain'
  PROVE  Kept'
<1> USE FormAgentAssumption DEF IInv, TypeOK, RowsType, Goes, Sending, Undecided
<1>0. task[w] \in App /\ Working(w)
  BY DEF InHand, Working
<1>a. /\ submissions' \in [App -> 0..2]
      /\ \A a \in App : submissions'[a] >= submissions[a]
      /\ \A a \in App \ {task[w]} : submissions'[a] = submissions[a]
      /\ submissions'[task[w]] >= 1
      /\ n = 1 /\ submissions[task[w]] = 0 => submissions'[task[w]] = 1
  BY <1>0 DEF Sends
<1>1. InHand'
  BY DEF InHand
<1>2. ExclusiveProcessing'
  BY DEF ExclusiveProcessing, Working
<1>3. OwnsRow'
  BY <1>0 DEF OwnsRow, Working
<1>4. Accounted'
  <2> SUFFICES ASSUME NEW a \in App, a \notin uncertain' \cup expired
               PROVE  /\ submissions'[a] <= 1
                      /\ submissions'[a] = 1 => a \notin mistaken
                      /\ Passed(a)' =>
                           \/ status[a] = "APPLIED"
                           \/ \E v \in Worker : task[v] = a /\ pc'[v] \in Sending
    BY DEF Accounted
  <2>1. CASE a = task[w]
    <3>1. status[a] = "PROCESSING"
      BY <2>1, <1>0 DEF OwnsRow
    <3>2. \A v \in Worker : task[v] = a => pc[v] \notin Sending
      BY <2>1, <1>0 DEF ExclusiveProcessing, Working
    <3>3. submissions[a] = 0 /\ a \notin mistaken
      BY <2>1, <3>1, <3>2, <1>0 DEF Accounted
    <3> QED
      BY <2>1, <3>3, <1>a, <1>0
  <2>2. CASE a # task[w]
    BY <2>2, <1>a DEF Accounted
  <2> QED
    BY <2>1, <2>2
<1>5. HasSent'
  <2> SUFFICES ASSUME NEW v \in Worker, pc'[v] \in Sending
               PROVE  Passed(task[v])'
    BY DEF HasSent
  <2>1. CASE v = w
    BY <2>1, <1>a
  <2>2. CASE v # w
    BY <2>2, <1>a DEF HasSent, InHand
  <2> QED
    BY <2>1, <2>2
<1>6. AppliedIsBacked'
  BY <1>a DEF AppliedIsBacked
<1> QED
  BY <1>1, <1>2, <1>3, <1>4, <1>5, <1>6 DEF Kept

\* A click that sends nothing: of an application that is not in doubt it is the first.
LEMMA MistakingStep ==
  ASSUME IInv, NEW w \in Worker,
         pc[w] \in Undecided \ Sending, Goes(w, "sent"),
         mistaken' = mistaken \cup {task[w]},
         UNCHANGED <<status, stale, task, submissions, uncertain, expired>>
  PROVE  Kept'
<1> USE FormAgentAssumption DEF IInv, TypeOK, RowsType, Goes, Sending, Undecided
<1>0. task[w] \in App /\ Working(w)
  BY DEF InHand, Working
<1>1. InHand'
  BY DEF InHand
<1>2. ExclusiveProcessing'
  BY DEF ExclusiveProcessing, Working
<1>3. OwnsRow'
  BY <1>0 DEF OwnsRow, Working
<1>4. Accounted'
  <2> SUFFICES ASSUME NEW a \in App, a \notin uncertain \cup expired
               PROVE  /\ submissions[a] <= 1
                      /\ submissions[a] = 1 => a \notin mistaken'
                      /\ Passed(a)' =>
                           \/ status[a] = "APPLIED"
                           \/ \E v \in Worker : task[v] = a /\ pc'[v] \in Sending
    BY DEF Accounted
  <2>1. CASE a = task[w]
    <3>1. status[a] = "PROCESSING"
      BY <2>1, <1>0 DEF OwnsRow
    <3>2. \A v \in Worker : task[v] = a => pc[v] \notin Sending
      BY <2>1, <1>0 DEF ExclusiveProcessing, Working
    <3>3. submissions[a] = 0
      BY <2>1, <3>1, <3>2, <1>0 DEF Accounted
    <3> QED
      BY <2>1, <3>3, <1>0
  <2>2. CASE a # task[w]
    BY <2>2 DEF Accounted
  <2> QED
    BY <2>1, <2>2
<1>5. HasSent'
  BY DEF HasSent
<1>6. AppliedIsBacked'
  BY DEF AppliedIsBacked
<1> QED
  BY <1>1, <1>2, <1>3, <1>4, <1>5, <1>6 DEF Kept

\* The claim: whoever may have the row's application in hand does not own it.
LEMMA ClaimStep ==
  ASSUME IInv, NEW w \in Worker, Claim(w)
  PROVE  Kept'
<1> USE FormAgentAssumption
    DEF IInv, TypeOK, RowsType, Goes, Sending, Undecided, history
<1>1. PICK a \in App : ClaimNext(a) /\ task' = [task EXCEPT ![w] = a]
  BY DEF Claim
<1>2. /\ Claimable(a)
      /\ status' = [status EXCEPT ![a] = "PROCESSING"]
      /\ stale' = [stale EXCEPT ![a] = FALSE]
  BY <1>1 DEF ClaimNext, First
<1>3. /\ pc[w] = "idle" /\ pc' = [pc EXCEPT ![w] = "claimed"]
      /\ UNCHANGED <<submissions, uncertain, mistaken, expired>>
  BY DEF Claim
<1>4. \A v \in Worker : Working(v) /\ task[v] = a => a \in expired
  BY <1>2 DEF Claimable, OwnsRow
<1>5. InHand'
  BY <1>1, <1>3 DEF InHand
<1>6. ExclusiveProcessing'
  BY <1>1, <1>3, <1>4 DEF ExclusiveProcessing, Working
<1>7. OwnsRow'
  BY <1>1, <1>2, <1>3, <1>4 DEF OwnsRow, Working, InHand
<1>8. Accounted'
  <2>1. ASSUME a \notin uncertain \cup expired PROVE ~ Passed(a)
    <3>1. status[a] # "APPLIED"
      BY <1>2 DEF Claimable
    <3>2. \A v \in Worker : task[v] = a => pc[v] \notin Sending
      BY <2>1, <1>4 DEF Working
    <3> QED
      BY <2>1, <3>1, <3>2 DEF Accounted
  <2> QED
    BY <1>1, <1>2, <1>3, <2>1 DEF Accounted
<1>9. HasSent'
  BY <1>1, <1>3 DEF HasSent
<1>10. AppliedIsBacked'
  BY <1>2, <1>3 DEF AppliedIsBacked
<1> QED
  BY <1>5, <1>6, <1>7, <1>8, <1>9, <1>10 DEF Kept

\* The worker that submitted writes APPLIED.
LEMMA MarkAppliedStep ==
  ASSUME IInv, NEW w \in Worker, MarkApplied(w)
  PROVE  Kept'
<1> USE FormAgentAssumption
    DEF IInv, TypeOK, RowsType, Goes, Sending, Undecided, history
<1>1. /\ pc[w] \in Sending /\ task[w] \in App /\ Working(w)
      /\ \E s \in {"applied", "http_applied"} : pc' = [pc EXCEPT ![w] = s]
      /\ SetStatus(task[w], "APPLIED")
      /\ UNCHANGED <<stale, task, submissions, uncertain, mistaken, expired>>
  BY DEF MarkApplied, InHand, Working
<1>2. InHand'
  BY <1>1 DEF InHand
<1>3. ExclusiveProcessing'
  BY <1>1 DEF ExclusiveProcessing, Working
<1>4. OwnsRow'
  BY <1>1 DEF OwnsRow, ExclusiveProcessing, Working, SetStatus
<1>5. Accounted'
  <2>1. task[w] \notin uncertain \cup expired => status'[task[w]] = "APPLIED"
    BY <1>1 DEF OwnsRow, SetStatus
  <2>2. \A a \in App \ {task[w]} : status'[a] = status[a]
    BY <1>1 DEF SetStatus
  <2>3. \A v \in Worker : task[v] # task[w] => pc'[v] = pc[v]
    BY <1>1
  <2> QED
    BY <1>1, <2>1, <2>2, <2>3 DEF Accounted
<1>6. HasSent'
  BY <1>1 DEF HasSent
<1>7. AppliedIsBacked'
  BY <1>1 DEF AppliedIsBacked, HasSent, SetStatus
<1> QED
  BY <1>2, <1>3, <1>4, <1>5, <1>6, <1>7 DEF Kept

\* A crash, and the passing of time.
LEMMA EnvironmentStep ==
  ASSUME IInv,
         \/ \E p \in Process : Crash(p)
         \/ \E a \in App : OrphanAges(a) \/ LockExpires(a) \/ RetryComesDue(a)
  PROVE  Kept'
<1> USE FormAgentAssumption
    DEF IInv, TypeOK, RowsType, Sending, Undecided, rows, agent, history
<1>1. ASSUME NEW p \in Process, Crash(p) PROVE Kept'
  <2>1. /\ \A w \in Worker : \/ pc'[w] = "idle" /\ task'[w] = NoApp
                             \/ pc'[w] = pc[w] /\ task'[w] = task[w] /\ Home[w] # p
        /\ \A w \in Worker : pc[w] \in Sending /\ Home[w] = p => task[w] \in uncertain'
        /\ uncertain \subseteq uncertain'
        /\ UNCHANGED <<status, stale, submissions, mistaken, expired>>
    BY <1>1 DEF Crash
  <2>2. InHand'
    BY <2>1 DEF InHand
  <2>3. ExclusiveProcessing'
    BY <2>1 DEF ExclusiveProcessing, Working
  <2>4. OwnsRow'
    BY <2>1 DEF OwnsRow, Working
  <2>5. Accounted'
    <3> SUFFICES ASSUME NEW a \in App, a \notin uncertain' \cup expired,
                        Passed(a), status[a] # "APPLIED"
                 PROVE  \E w \in Worker : task'[w] = a /\ pc'[w] \in Sending
      BY <2>1 DEF Accounted
    <3>1. PICK w \in Worker : task[w] = a /\ pc[w] \in Sending
      BY <2>1 DEF Accounted
    <3>2. Home[w] # p
      BY <2>1, <3>1
    <3>3. task'[w] = task[w] /\ pc'[w] = pc[w]
      BY <1>1, <3>2 DEF Crash
    <3> QED
      BY <3>1, <3>3
  <2>6. HasSent' /\ AppliedIsBacked'
    BY <2>1 DEF HasSent, AppliedIsBacked
  <2> QED
    BY <2>2, <2>3, <2>4, <2>5, <2>6 DEF Kept
<1>2. ASSUME NEW a \in App, OrphanAges(a) PROVE Kept'
  BY <1>2 DEF OrphanAges, LockAges, Held, Kept, InHand, ExclusiveProcessing, Working,
              OwnsRow, Accounted, HasSent, AppliedIsBacked
<1>3. ASSUME NEW a \in App, LockExpires(a) PROVE Kept'
  BY <1>3 DEF LockExpires, LockAges, Kept, InHand, ExclusiveProcessing, Working,
              OwnsRow, Accounted, HasSent, AppliedIsBacked
<1>4. ASSUME NEW a \in App, RetryComesDue(a) PROVE Kept'
  BY <1>4 DEF RetryComesDue, DeferralEnds, Kept, InHand, ExclusiveProcessing, Working,
              OwnsRow, Accounted, HasSent, AppliedIsBacked
<1> QED
  BY <1>1, <1>2, <1>3, <1>4

\* Every step of a worker has one of the shapes above.
LEMMA WorkerStep ==
  ASSUME IInv, NEW w \in Worker, Step(w)
  PROVE  Kept'
<1> USE FormAgentAssumption
    DEF IInv, TypeOK, RowsType, Sending, Undecided, Status, rows, history
<1>1. CASE Claim(w)
  BY <1>1, ClaimStep
<1>2. CASE PeekLimit(w)
  <2>1. \E s \in {"peeked", "releasing"} : Goes(w, s)
    BY <1>2 DEF PeekLimit
  <2> QED
    BY <1>2, <2>1, QuietStep DEF PeekLimit
<1>3. CASE StartTask(w)
  <2>1. \E s \in {"started", "releasing"} : Goes(w, s)
    BY <1>3 DEF StartTask
  <2> QED
    BY <1>3, <2>1, QuietStep DEF StartTask
<1>4. CASE Release(w)
  BY <1>4, WritingStep DEF Release
<1>5. CASE HttpApply(w)
  <2>1. CASE Goes(w, "opening") /\ UNCHANGED <<submissions, uncertain, faults>>
    BY <1>5, <2>1, QuietStep DEF HttpApply
  <2>2. CASE \E s \in {"http_sent", "opening"} :
               /\ Goes(w, s) /\ Sends(task[w], 1)
               /\ IF s = "opening" THEN uncertain' = uncertain \cup {task[w]}
                                  ELSE uncertain' = uncertain
    BY <1>5, <2>2, SendingStep DEF HttpApply
  <2> QED
    BY <1>5, <2>1, <2>2 DEF HttpApply
<1>6. CASE OpenPage(w)
  <2>1. \E s \in {"page", "failing"} : Goes(w, s)
    BY <1>6 DEF OpenPage
  <2> QED
    BY <1>6, <2>1, QuietStep DEF OpenPage
<1>7. CASE Abandon(w)
  BY <1>7, LeavingStep DEF Abandon
<1>8. CASE AskUser(w)
  BY <1>8, QuietStep DEF AskUser
<1>9. CASE MeetCaptcha(w)
  BY <1>9, QuietStep DEF MeetCaptcha
<1>10. CASE Submit(w)
  <2>1. CASE \E s \in {"sent", "failing"}, n \in {1, 2} :
               /\ Goes(w, s) /\ Sends(task[w], n) /\ UNCHANGED mistaken
               /\ \/ s = "sent" /\ n = 1 /\ uncertain' = uncertain
                  \/ uncertain' = uncertain \cup {task[w]}
    BY <1>10, <2>1, SendingStep DEF Submit
  <2>2. CASE /\ Goes(w, "sent") /\ mistaken' = mistaken \cup {task[w]}
             /\ UNCHANGED <<submissions, uncertain, faults>>
    BY <1>10, <2>2, MistakingStep DEF Submit
  <2> QED
    BY <1>10, <2>1, <2>2 DEF Submit
<1>11. CASE PageRaises(w)
  BY <1>11, QuietStep DEF PageRaises
<1>12. CASE MarkApplied(w)
  BY <1>12, MarkAppliedStep
<1>13. CASE FinishSuccess(w)
  BY <1>13, QuietStep DEF FinishSuccess
<1>14. CASE SuccessRaises(w)
  BY <1>14, QuietStep DEF SuccessRaises
<1>15. CASE EnterHold(w)
  BY <1>15, WritingStep DEF EnterHold
<1>16. CASE HoldRaises(w)
  <2>1. \E s \in {"failing", "ending"} : Goes(w, s)
    BY <1>16 DEF HoldRaises
  <2> QED
    BY <1>16, <2>1, QuietStep DEF HoldRaises
<1>17. CASE HandleFailure(w)
  <2>1. \E s \in {"FAILED", "QUEUED"} : SetStatus(task[w], s)
    BY <1>17 DEF HandleFailure
  <2> QED
    BY <1>17, <2>1, WritingStep DEF HandleFailure
<1>18. CASE FailureRaises(w)
  BY <1>18, QuietStep DEF FailureRaises
<1>19. CASE EndTask(w)
  BY <1>19, LeavingStep DEF EndTask
<1> QED
  BY <1>1, <1>2, <1>3, <1>4, <1>5, <1>6, <1>7, <1>8, <1>9, <1>10, <1>11, <1>12, <1>13,
     <1>14, <1>15, <1>16, <1>17, <1>18, <1>19 DEF Step

LEMMA InvStep == IInv /\ [Next]_vars => IInv'
<1> SUFFICES ASSUME IInv, [Next]_vars PROVE IInv'
  OBVIOUS
<1>1. CASE \E w \in Worker : Step(w)
  BY <1>1, TypeStep, WorkerStep DEF IInv, Kept
<1>2. CASE \/ \E p \in Process : Crash(p)
           \/ \E a \in App : OrphanAges(a) \/ LockExpires(a) \/ RetryComesDue(a)
  BY <1>2, TypeEnvironment, EnvironmentStep DEF IInv, Kept
<1>3. CASE UNCHANGED vars
  BY <1>3 DEF vars, rows, agent, history, IInv, TypeOK, RowsType, InHand,
              ExclusiveProcessing, Working, OwnsRow, Accounted, HasSent,
              AppliedIsBacked
<1> QED
  BY <1>1, <1>2, <1>3 DEF Next

LEMMA Invariance == Spec => []IInv
BY InitIInv, InvStep, PTL DEF Spec

-------------------------------------------------------------------------------
\* Every variable keeps its type.
THEOREM TypeCorrect == Spec => []TypeOK
<1>1. IInv => TypeOK
  BY DEF IInv
<1> QED
  BY <1>1, Invariance, PTL

\* For any number of workers, processes and applications, and with any number of
\* exceptions and crashes: two workers have one application in hand only if its lock
\* aged while one of them was working (the claim of agent.py).
THEOREM ExclusiveProcessingHolds == Spec => []ExclusiveProcessing
<1>1. IInv => ExclusiveProcessing
  BY DEF IInv
<1> QED
  BY <1>1, Invariance, PTL

\* However often an application is released, retried, put on hold or orphaned by a
\* crash, it is submitted twice only after a submission that was in doubt.
THEOREM SubmittedOnceHolds == Spec => []SubmittedOnce
<1>1. IInv => SubmittedOnce
  BY DEF IInv, Accounted, SubmittedOnce
<1> QED
  BY <1>1, Invariance, PTL

\* For any number of workers, processes and faults, rows and employers agree up to doubt
\* and mistaken clicks: APPLIED is never written of an application that no worker submitted
\* or believed submitted, and no release, retry, hold or other worker (agent.py, run_once)
\* takes the row of a submission away from the worker that is to put it on record.
THEOREM RecordAgreesHolds == Spec => []RecordAgrees
<1>1. IInv => RecordAgrees
  BY DEF IInv, TypeOK, Accounted, RecordAgrees, SentIsOnRecord, Sending
<1> QED
  BY <1>1, Invariance, PTL

-------------------------------------------------------------------------------
\* The workers of a process that fill forms for a tenant.
Filling(p, ten) ==
  {w \in Worker : /\ Home[w] = p
                  /\ pc[w] \notin {"idle"} \cup Unstarted
                  /\ TenantOf[task[w]] = ten}

\* The counter of a tenant never falls behind the workers it stands for, and is never
\* above the limit; what the tracker would give back is the tenant's.
CountedIn(p) ==
  /\ \A ten \in Tenant : /\ Cardinality(Filling(p, ten)) <= tracker[p].tenant_usage[ten]
                         /\ tracker[p].tenant_usage[ten] <= MaxPerTenant
  /\ \A a \in App : tracker[p].task_tenant_map[a] =
                      IF a \in tracker[p].active_tasks THEN TenantOf[a] ELSE NoTenant

Counted == \A p \in Process : CountedIn(p)

LEMMA FillingFinite ==
  \A p \in Process, ten \in Tenant : /\ IsFiniteSet(Filling(p, ten))
                                     /\ Cardinality(Filling(p, ten)) \in Nat
<1>1. \A p \in Process, ten \in Tenant : Filling(p, ten) \subseteq Worker
  BY DEF Filling
<1> QED BY <1>1, FormAgentAssumption, FS_Subset, FS_CardinalityType

\* A tracker nobody has used counts nobody.
LEMMA FreshCounts ==
  ASSUME NEW p \in Process, tracker[p] = T!FreshTracker,
         \A ten \in Tenant : Filling(p, ten) = {}
  PROVE  CountedIn(p)
<1>1. \A ten \in Tenant : Cardinality(Filling(p, ten)) = 0 /\ tracker[p].tenant_usage[ten] = 0
  BY FS_EmptySet DEF T!FreshTracker
<1>2. \A a \in App : a \notin tracker[p].active_tasks /\ tracker[p].task_tenant_map[a] = NoTenant
  BY DEF T!FreshTracker
<1> QED BY <1>1, <1>2, FormAgentAssumption DEF CountedIn

\* A step that starts nothing leaves the tracker's counters high enough.
LEMMA CountedWhenFewer ==
  ASSUME TypeOK, Counted, NEW p \in Process, tracker'[p] = tracker[p],
         \A ten \in Tenant : Filling(p, ten)' \subseteq Filling(p, ten)
  PROVE  CountedIn(p)'
<1>1. \A ten \in Tenant : /\ Cardinality(Filling(p, ten)') <= Cardinality(Filling(p, ten))
                          /\ Cardinality(Filling(p, ten)') \in Nat
  BY FillingFinite, FS_Subset, FS_CardinalityType
<1>2. \A ten \in Tenant : tracker[p].tenant_usage[ten] \in Nat
  BY DEF TypeOK, T!TrackerState
<1> QED BY <1>1, <1>2, FillingFinite, FormAgentAssumption DEF Counted, CountedIn

\* start_task counts the worker that goes on.
LEMMA CountedStart ==
  ASSUME TypeOK, InHand, Counted, NEW w \in Worker, StartTask(w)
  PROVE  Counted'
<1> DEFINE p == Home[w]  a == task[w]
<1>0. /\ p \in Process /\ a \in App /\ tracker[p] \in T!TrackerState
      /\ pc[w] = "peeked" /\ task' = task
  BY FormAgentAssumption DEF StartTask, TypeOK, InHand
<1>1. CASE ~ T!CanStart(tracker[p], TenantOf[a])
  <2>1. tracker' = tracker /\ pc' = [pc EXCEPT ![w] = "releasing"]
    BY <1>1 DEF StartTask, Goes
  <2>2. \A q \in Process, ten \in Tenant : Filling(q, ten)' \subseteq Filling(q, ten)
    BY <1>0, <2>1 DEF Filling, TypeOK
  <2> QED BY <2>1, <2>2, CountedWhenFewer DEF Counted
<1>2. CASE T!CanStart(tracker[p], TenantOf[a])
  <2>1. /\ tracker' = [tracker EXCEPT ![p] = T!Started(tracker[p], a, TenantOf[a])]
        /\ pc' = [pc EXCEPT ![w] = "started"]
    BY <1>2 DEF StartTask, Goes
  <2>2. \A ten \in Tenant : Filling(p, ten)' =
          IF ten = TenantOf[a] THEN Filling(p, ten) \cup {w} ELSE Filling(p, ten)
    BY <1>0, <2>1 DEF Filling, TypeOK
  <2>3. \A ten \in Tenant : w \notin Filling(p, ten)
    BY <1>0 DEF Filling
  <2>4. \A ten \in Tenant : Cardinality(Filling(p, ten)') =
          IF ten = TenantOf[a] THEN Cardinality(Filling(p, ten)) + 1
                               ELSE Cardinality(Filling(p, ten))
    <3>1. \A ten \in Tenant : Cardinality(Filling(p, ten) \cup {w}) = Cardinality(Filling(p, ten)) + 1
      BY <1>0, <2>3, FillingFinite, FS_AddElement
    <3> QED BY <2>2, <3>1
  <2>5. /\ tracker'[p] = T!Started(tracker[p], a, TenantOf[a])
        /\ \A q \in Process : q # p => tracker'[q] = tracker[q]
    BY <1>0, <2>1 DEF TypeOK
  <2>6. /\ tracker'[p].active_tasks = tracker[p].active_tasks \cup {a}
        /\ \A x \in Tenant : tracker'[p].tenant_usage[x] =
             IF x = TenantOf[a] THEN tracker[p].tenant_usage[x] + 1 ELSE tracker[p].tenant_usage[x]
        /\ \A x \in App : tracker'[p].task_tenant_map[x] =
             IF x = a /\ TenantOf[a] \in Tenant THEN TenantOf[a] ELSE tracker[p].task_tenant_map[x]
    BY <1>0, <2>5 DEF T!Started, T!TrackerState
  <2>7. /\ TenantOf[a] \in Tenant => tracker[p].tenant_usage[TenantOf[a]] < MaxPerTenant
        /\ \A x \in Tenant : tracker[p].tenant_usage[x] \in Nat
    BY <1>0, <1>2 DEF T!CanStart, T!TrackerState
  <2>8. \A ten \in Tenant : /\ Cardinality(Filling(p, ten)') <= tracker'[p].tenant_usage[ten]
                            /\ tracker'[p].tenant_usage[ten] <= MaxPerTenant
    BY <1>0, <2>4, <2>6, <2>7, FillingFinite, FormAgentAssumption DEF Counted, CountedIn
  <2>9. \A x \in App : tracker'[p].task_tenant_map[x] =
                         IF x \in tracker'[p].active_tasks THEN TenantOf[x] ELSE NoTenant
    BY <1>0, <2>6, FormAgentAssumption DEF Counted, CountedIn
  <2>10. \A q \in Process, ten \in Tenant : q # p => Filling(q, ten)' \subseteq Filling(q, ten)
    BY <1>0, <2>1 DEF Filling, TypeOK
  <2>11. CountedIn(p)' BY <2>8, <2>9 DEF CountedIn
  <2>12. \A q \in Process : q # p => CountedIn(q)' BY <2>5, <2>10, CountedWhenFewer
  <2> QED BY <2>11, <2>12 DEF Counted
<1> QED BY <1>1, <1>2

\* end_task gives back at most what the worker that leaves was counted for.
LEMMA CountedEnd ==
  ASSUME TypeOK, InHand, Counted, NEW w \in Worker, EndTask(w)
  PROVE  Counted'
<1> DEFINE p == Home[w]  a == task[w]
<1>0. /\ p \in Process /\ a \in App /\ tracker[p] \in T!TrackerState /\ pc[w] = "ending"
      /\ tracker' = [tracker EXCEPT ![p] = T!Ended(tracker[p], a)]
      /\ pc' = [pc EXCEPT ![w] = "idle"] /\ task' = [task EXCEPT ![w] = NoApp]
  BY FormAgentAssumption DEF EndTask, Returns, Goes, TypeOK, InHand
<1>1. \A ten \in Tenant : Filling(p, ten)' =
        IF ten = TenantOf[a] THEN Filling(p, ten) \ {w} ELSE Filling(p, ten)
  BY <1>0 DEF Filling, TypeOK
<1>2. TenantOf[a] \in Tenant => w \in Filling(p, TenantOf[a])
  BY <1>0 DEF Filling
<1>3. \A ten \in Tenant : Cardinality(Filling(p, ten)') =
        IF ten = TenantOf[a] THEN Cardinality(Filling(p, ten)) - 1
                             ELSE Cardinality(Filling(p, ten))
  <2>1. TenantOf[a] \in Tenant =>
          Cardinality(Filling(p, TenantOf[a]) \ {w}) = Cardinality(Filling(p, TenantOf[a])) - 1
    BY <1>0, <1>2, FillingFinite, FS_RemoveElement
  <2> QED BY <1>1, <2>1
<1>4. /\ tracker'[p] = T!Ended(tracker[p], a)
      /\ \A q \in Process : q # p => tracker'[q] = tracker[q]
  BY <1>0 DEF TypeOK
<1>5. /\ tracker'[p].active_tasks = tracker[p].active_tasks \ {a}
      /\ \A x \in Tenant : tracker'[p].tenant_usage[x] =
           IF a \in tracker[p].active_tasks /\ x = TenantOf[a] /\ tracker[p].tenant_usage[x] > 0
           THEN tracker[p].tenant_usage[x] - 1 ELSE tracker[p].tenant_usage[x]
      /\ \A x \in App : tracker'[p].task_tenant_map[x] =
           IF x = a THEN NoTenant ELSE tracker[p].task_tenant_map[x]
  BY <1>0, <1>4, FormAgentAssumption DEF T!Ended, T!TrackerState, Counted, CountedIn
<1>6. \A x \in Tenant : tracker[p].tenant_usage[x] \in Nat
  BY <1>0 DEF T!TrackerState
<1>7. \A ten \in Tenant : /\ Cardinality(Filling(p, ten)') <= tracker'[p].tenant_usage[ten]
                          /\ tracker'[p].tenant_usage[ten] <= MaxPerTenant
  BY <1>0, <1>3, <1>5, <1>6, FillingFinite, FormAgentAssumption DEF Counted, CountedIn
<1>8. \A x \in App : tracker'[p].task_tenant_map[x] =
                       IF x \in tracker'[p].active_tasks THEN TenantOf[x] ELSE NoTenant
  BY <1>0, <1>5, FormAgentAssumption DEF Counted, CountedIn
<1>9. \A q \in Process, ten \in Tenant : q # p => Filling(q, ten)' \subseteq Filling(q, ten)
  BY <1>0 DEF Filling, TypeOK
<1>10. CountedIn(p)' BY <1>7, <1>8 DEF CountedIn
<1>11. \A q \in Process : q # p => CountedIn(q)' BY <1>4, <1>9, CountedWhenFewer
<1> QED BY <1>10, <1>11 DEF Counted

\* A step that leaves workers and trackers alone.
LEMMA CountedAside ==
  ASSUME TypeOK, Counted, UNCHANGED <<pc, task, tracker>>
  PROVE  Counted'
<1>1. \A p \in Process, ten \in Tenant : Filling(p, ten)' \subseteq Filling(p, ten)
  BY DEF Filling
<1> QED BY <1>1, CountedWhenFewer DEF Counted

LEMMA CountedStep == TypeOK /\ InHand /\ Counted /\ [Next]_vars => Counted'
<1> SUFFICES ASSUME TypeOK, InHand, Counted, [Next]_vars PROVE Counted'
  OBVIOUS
<1> USE DEF TypeOK
<1>1. ASSUME NEW w \in Worker, NEW s \in PC, UNCHANGED tracker, Goes(w, s),
             \/ s = "idle" \/ s \in Unstarted
             \/ pc[w] \notin {"idle"} \cup Unstarted /\ UNCHANGED task,
             \A v \in Worker : v # w => task'[v] = task[v]
      PROVE  Counted'
  <2>1. \A p \in Process, ten \in Tenant : Filling(p, ten)' \subseteq Filling(p, ten)
    BY <1>1 DEF Filling, Goes
  <2> QED BY <1>1, <2>1, CountedWhenFewer DEF Counted
<1>2. ASSUME NEW w \in Worker, Claim(w) \/ PeekLimit(w) \/ Release(w) \/ Abandon(w)
      PROVE  Counted'
  <2>1. \E s \in {"claimed", "peeked", "releasing", "idle"} : Goes(w, s)
    BY <1>2 DEF Claim, PeekLimit, Release, Abandon, Returns
  <2>2. UNCHANGED tracker /\ \A v \in Worker : v # w => task'[v] = task[v]
    BY <1>2 DEF Claim, PeekLimit, Release, Abandon, Returns
  <2> QED BY <1>1, <2>1, <2>2
<1>3. ASSUME NEW w \in Worker,
             \/ HttpApply(w) \/ OpenPage(w) \/ AskUser(w) \/ MeetCaptcha(w) \/ Submit(w)
             \/ PageRaises(w) \/ MarkApplied(w)
      PROVE  Counted'
  <2>1. \E s \in PC : Goes(w, s)
    BY <1>3 DEF HttpApply, OpenPage, AskUser, MeetCaptcha, Submit, PageRaises, MarkApplied
  <2>2. UNCHANGED <<tracker, task>> /\ pc[w] \notin {"idle"} \cup Unstarted
    BY <1>3 DEF HttpApply, OpenPage, AskUser, MeetCaptcha, Submit, PageRaises, MarkApplied
  <2> QED BY <1>1, <2>1, <2>2
<1>4. ASSUME NEW w \in Worker,
             \/ FinishSuccess(w) \/ SuccessRaises(w) \/ EnterHold(w) \/ HoldRaises(w)
             \/ HandleFailure(w) \/ FailureRaises(w)
      PROVE  Counted'
  <2>1. \E s \in PC : Goes(w, s)
    BY <1>4 DEF FinishSuccess, SuccessRaises, EnterHold, HoldRaises, HandleFailure, FailureRaises
  <2>2. UNCHANGED <<tracker, task>> /\ pc[w] \notin {"idle"} \cup Unstarted
    BY <1>4 DEF FinishSuccess, SuccessRaises, EnterHold, HoldRaises, HandleFailure, FailureRaises
  <2> QED BY <1>1, <2>1, <2>2
<1>5. ASSUME NEW p \in Process, Crash(p) PROVE Counted'
  <2>1. /\ tracker'[p] = T!FreshTracker /\ \A q \in Process : q # p => tracker'[q] = tracker[q]
        /\ \A w \in Worker : IF Home[w] = p THEN pc'[w] = "idle"
                                            ELSE pc'[w] = pc[w] /\ task'[w] = task[w]
    BY <1>5 DEF Crash
  <2>2. \A ten \in Tenant : Filling(p, ten)' = {}
    BY <2>1 DEF Filling
  <2>3. \A q \in Process, ten \in Tenant : q # p => Filling(q, ten)' \subseteq Filling(q, ten)
    BY <2>1 DEF Filling
  <2>4. CountedIn(p)'
    <3>0. \A ten \in Tenant : Cardinality(Filling(p, ten))' = 0
      <4> SUFFICES ASSUME NEW ten \in Tenant PROVE Cardinality(Filling(p, ten))' = 0
        OBVIOUS
      <4>1. Filling(p, ten)' = {} BY <2>2
      <4>2. Cardinality({}) = 0 BY FS_EmptySet
      <4> QED BY <4>1, <4>2
    <3>1. \A ten \in Tenant : tracker'[p].tenant_usage[ten] = 0
      BY <2>1 DEF T!FreshTracker
    <3>2. \A a \in App : /\ a \notin tracker'[p].active_tasks
                         /\ tracker'[p].task_tenant_map[a] = NoTenant
      BY <2>1 DEF T!FreshTracker
    <3> QED BY <3>0, <3>1, <3>2, FormAgentAssumption DEF CountedIn
  <2>5. \A q \in Process : q # p => CountedIn(q)' BY <2>1, <2>3, CountedWhenFewer
  <2> QED BY <2>4, <2>5 DEF Counted
<1>6. CASE \/ \E a \in App : OrphanAges(a) \/ LockExpires(a) \/ RetryComesDue(a)
           \/ UNCHANGED vars
  <2>1. UNCHANGED <<pc, task, tracker>>
    BY <1>6 DEF OrphanAges, LockExpires, RetryComesDue, vars, agent
  <2> QED BY <2>1, CountedAside
<1> QED
  BY <1>2, <1>3, <1>4, <1>5, <1>6, CountedStart, CountedEnd DEF Next, Step

LEMMA InitCounted == AgentInit => Counted
<1> SUFFICES ASSUME AgentInit, NEW p \in Process
             PROVE  tracker[p] = T!FreshTracker /\ \A ten \in Tenant : Filling(p, ten) = {}
  BY FreshCounts DEF Counted
<1> QED BY DEF AgentInit, Filling

LEMMA CountedLimits == TypeOK /\ Counted => TenantLimit
<1> SUFFICES ASSUME TypeOK, Counted, NEW p \in Process, NEW ten \in Tenant
             PROVE  Cardinality(Filling(p, ten)) <= MaxPerTenant
  BY DEF TenantLimit, Filling
<1>1. tracker[p].tenant_usage[ten] \in Nat BY DEF TypeOK, T!TrackerState
<1> QED BY <1>1, FillingFinite, FormAgentAssumption DEF Counted, CountedIn

\* For any number of workers, processes, tenants and faults: no process ever fills more
\* forms for a tenant at a time than max_per_tenant, even when tasks are started twice or
\* never ended.
THEOREM TenantLimitHolds == Spec => []TenantLimit
<1>1. IInv => TypeOK /\ InHand
  BY DEF IInv
<1> QED BY <1>1, InitCounted, CountedLimits, CountedStep, Invariance, PTL DEF Spec, Init

-------------------------------------------------------------------------------
(***************************************************************************)
(* FormAgent implements Submission: step simulation over the inductive     *)
(* invariant.                                                              *)
(***************************************************************************)
stage == [a \in App |-> StageOf(status[a])]
doubt == uncertain \cup expired
abstract == <<stage, submissions, mistaken, doubt>>

\* The abstract step is taken by one application, or by none.
Promised == S!Next \/ UNCHANGED abstract

\* What a worker knows of an application that is not in doubt: its row is still open,
\* and its form has left, or passes for sent, exactly if this worker has just seen to it.
LEMMA OwnerKnows ==
  ASSUME IInv, NEW w \in Worker, pc[w] \in Undecided, task[w] \notin doubt
  PROVE  /\ status[task[w]] = "PROCESSING"
         /\ pc[w] \in Sending => Passed(task[w])
         /\ pc[w] \notin Sending => submissions[task[w]] = 0 /\ task[w] \notin mistaken
<1> USE DEF IInv, TypeOK, RowsType, Undecided, Sending, doubt
<1>1. task[w] \in App /\ Working(w)
  BY DEF InHand, Working
<1>2. status[task[w]] = "PROCESSING"
  BY <1>1 DEF OwnsRow
<1>3. submissions[task[w]] \in {0, 1}
  BY <1>1 DEF Accounted
<1>4. pc[w] \in Sending => Passed(task[w])
  BY <1>1, <1>3 DEF HasSent
<1>5. ASSUME pc[w] \notin Sending, Passed(task[w]) PROVE FALSE
  <2>1. PICK v \in Worker : task[v] = task[w] /\ pc[v] \in Sending
    BY <1>1, <1>2, <1>5 DEF Accounted
  <2>2. v = w
    BY <1>1, <2>1 DEF ExclusiveProcessing, Working
  <2> QED
    BY <1>5, <2>1, <2>2
<1> QED
  BY <1>2, <1>3, <1>4, <1>5

\* A status that is written shows as a stage.
LEMMA Shows ==
  ASSUME NEW a \in App, status' = [status EXCEPT ![a] = status'[a]],
         status \in [App -> Status]
  PROVE  stage' = [stage EXCEPT ![a] = StageOf(status'[a])]
BY DEF stage

LEMMA StageType ==
  ASSUME NEW s PROVE StageOf(s) \in {"open", "waiting", "applied", "failed"}
BY DEF StageOf

-------------------------------------------------------------------------------
\* A step that leaves rows and submissions alone; it may lose track of some.
LEMMA QuietPromise ==
  ASSUME UNCHANGED <<status, submissions, mistaken>>, doubt \subseteq doubt', doubt' \subseteq App
  PROVE  S!Next
<1>1. stage' = stage
  BY DEF stage
<1>2. doubt' = doubt \cup doubt'
  OBVIOUS
<1>3. S!Doubt
  <2>1. \E D \in SUBSET App : doubt' = doubt \cup D
    BY <1>2
  <2> QED
    BY <1>1, <2>1 DEF S!Doubt, stage, doubt
<1> QED
  BY <1>3 DEF S!Next

\* Whatever a step does to one application in doubt, short of claiming a submission.
LEMMA DoubtfulPromise ==
  ASSUME IInv, NEW a \in App, doubt' = doubt \cup {a},
         submissions' = [submissions EXCEPT ![a] = submissions'[a]],
         submissions'[a] \in submissions[a]..2,
         mistaken' \in {mistaken, mistaken \cup {a}},
         status' = [status EXCEPT ![a] = status'[a]],
         status'[a] = "APPLIED" => status[a] = "APPLIED" \/ Passed(a)
  PROVE  S!Next
<1>1. stage' = [stage EXCEPT ![a] = StageOf(status'[a])]
  BY Shows DEF IInv, TypeOK, RowsType
<1>a. submissions[a] \in 0..2 /\ (Passed(a) <=> ~ S!Untouched(a))
  BY DEF IInv, TypeOK, S!Untouched
<1>2. StageOf(status'[a]) = "applied" => stage[a] = "applied" \/ Passed(a)
  BY DEF StageOf, stage
<1>3. StageOf(status'[a]) \in S!Stage
  BY StageType DEF S!Stage
<1>4. S!ActInDoubt(a)
  <2>1. \E n \in submissions[a]..2 : submissions' = [submissions EXCEPT ![a] = n]
    OBVIOUS
  <2>2. \E s \in S!Stage :
          /\ s = "applied" => stage[a] = "applied" \/ ~ S!Untouched(a)
          /\ stage' = [stage EXCEPT ![a] = s]
    BY <1>1, <1>2, <1>3, <1>a
  <2> QED
    BY <2>1, <2>2 DEF S!ActInDoubt, stage, doubt
<1> QED
  BY <1>4 DEF S!Next

\* Its worker gives a row a status other than APPLIED, having sent nothing that counts.
LEMMA WritePromise ==
  ASSUME IInv, NEW w \in Worker, NEW s \in Status \ {"APPLIED"},
         pc[w] \in Undecided \ Sending, SetStatus(task[w], s),
         UNCHANGED <<submissions, uncertain, mistaken, expired>>
  PROVE  Promised
<1> DEFINE a == task[w]
<1>1. a \in App /\ status \in [App -> Status] /\ submissions \in [App -> 0..2]
  BY DEF IInv, TypeOK, RowsType, InHand, Undecided
<1>2. status' = [status EXCEPT ![a] = status'[a]] /\ status'[a] # "APPLIED"
  BY <1>1 DEF SetStatus, Status
<1>3. doubt' = doubt
  BY DEF doubt
<1>4. CASE a \in doubt
  <2>1. doubt' = doubt \cup {a}
    BY <1>3, <1>4
  <2>2. submissions' = [submissions EXCEPT ![a] = submissions'[a]]
        /\ submissions'[a] \in submissions[a]..2
    BY <1>1
  <2> QED
    BY <1>1, <1>2, <2>1, <2>2, DoubtfulPromise DEF Promised
<1>5. CASE a \notin doubt
  <2>1. status[a] = "PROCESSING" /\ S!Untouched(a)
    BY <1>5, OwnerKnows DEF S!Untouched
  <2>2. status'[a] = s
    BY <1>1, <2>1 DEF SetStatus
  <2>3. stage' = [stage EXCEPT ![a] = StageOf(s)] /\ stage[a] = "open"
    BY <1>1, <1>2, <2>1, <2>2, Shows DEF stage, StageOf
  <2>4. StageOf(s) \in {"open", "waiting", "failed"}
    BY DEF StageOf
  <2>5. CASE StageOf(s) = "open"
    BY <1>1, <1>3, <2>3, <2>5 DEF Promised, abstract, stage
  <2>6. CASE StageOf(s) \in {"waiting", "failed"}
    <3>1. S!SetAside(a)
      BY <1>1, <1>3, <1>5, <2>1, <2>3, <2>6 DEF S!SetAside, S!Certain, stage, doubt
    <3> QED
      BY <1>1, <3>1 DEF S!Next, Promised
  <2> QED
    BY <2>4, <2>5, <2>6
<1> QED
  BY <1>4, <1>5

\* A form leaves, once and for the first time or in doubt.
LEMMA SendPromise ==
  ASSUME IInv, NEW w \in Worker, NEW n \in {1, 2}, pc[w] \in Undecided \ Sending,
         Sends(task[w], n), UNCHANGED <<status, mistaken, expired>>,
         \/ n = 1 /\ uncertain' = uncertain
         \/ uncertain' = uncertain \cup {task[w]}
  PROVE  Promised
<1> DEFINE a == task[w]
<1>1. a \in App /\ status \in [App -> Status] /\ submissions \in [App -> 0..2]
  BY DEF IInv, TypeOK, RowsType, InHand, Undecided
<1>2. /\ submissions' = [submissions EXCEPT ![a] = submissions'[a]]
      /\ submissions'[a] = IF submissions[a] + n > 2 THEN 2 ELSE submissions[a] + n
      /\ submissions'[a] \in submissions[a]..2
  <2> DEFINE m == IF submissions[a] + n > 2 THEN 2 ELSE submissions[a] + n
  <2>1. submissions' = [submissions EXCEPT ![a] = m]
    BY DEF Sends
  <2>2. submissions'[a] = m
    BY <1>1, <2>1
  <2>3. submissions[a] \in 0..2 /\ m \in submissions[a]..2
    BY <1>1
  <2> QED
    BY <2>1, <2>2, <2>3
<1>3. stage' = stage /\ status' = [status EXCEPT ![a] = status'[a]]
  BY <1>1 DEF stage
<1>4. CASE a \in doubt \/ uncertain' = uncertain \cup {a}
  <2>1. doubt' = doubt \cup {a}
    BY <1>4 DEF doubt
  <2> QED
    BY <1>1, <1>2, <1>3, <2>1, DoubtfulPromise DEF Promised
<1>5. CASE a \notin doubt /\ n = 1 /\ uncertain' = uncertain
  <2>1. status[a] = "PROCESSING" /\ submissions[a] = 0 /\ S!Untouched(a)
    BY <1>5, OwnerKnows DEF S!Untouched
  <2>2. submissions' = [submissions EXCEPT ![a] = 1] /\ stage[a] = "open"
    BY <1>1, <1>2, <1>5, <2>1 DEF stage, StageOf
  <2>3. S!Send(a)
    BY <1>1, <1>3, <1>5, <2>1, <2>2 DEF S!Send, S!Certain, stage, doubt
  <2> QED
    BY <1>1, <2>3 DEF S!Next, Promised
<1> QED
  BY <1>4, <1>5

\* A click passes for the form's leaving, for the first time or in doubt.
LEMMA MistakePromise ==
  ASSUME IInv, NEW w \in Worker, pc[w] \in Undecided \ Sending,
         mistaken' = mistaken \cup {task[w]},
         UNCHANGED <<status, submissions, uncertain, expired>>
  PROVE  Promised
<1> DEFINE a == task[w]
<1>1. a \in App /\ status \in [App -> Status] /\ submissions \in [App -> 0..2]
  BY DEF IInv, TypeOK, RowsType, InHand, Undecided
<1>2. stage' = stage /\ doubt' = doubt
  BY DEF stage, doubt
<1>3. CASE a \in doubt
  <2>1. /\ doubt' = doubt \cup {a} /\ submissions' = [submissions EXCEPT ![a] = submissions'[a]]
        /\ submissions'[a] \in submissions[a]..2 /\ status' = [status EXCEPT ![a] = status'[a]]
    BY <1>1, <1>2, <1>3
  <2> QED
    BY <1>1, <2>1, DoubtfulPromise DEF Promised
<1>4. CASE a \notin doubt
  <2>1. status[a] = "PROCESSING" /\ S!Untouched(a)
    BY <1>4, OwnerKnows DEF S!Untouched
  <2>2. stage[a] = "open"
    BY <1>1, <2>1 DEF stage, StageOf
  <2>3. S!Mistake(a)
    BY <1>1, <1>2, <1>4, <2>1, <2>2 DEF S!Mistake, S!Certain, stage, doubt
  <2> QED
    BY <1>1, <2>3 DEF S!Next, Promised
<1> QED
  BY <1>3, <1>4

\* The claim moves a row from open to open.
LEMMA ClaimPromise ==
  ASSUME IInv, NEW w \in Worker, Claim(w)
  PROVE  Promised
<1>1. PICK a \in App : ClaimNext(a)
  BY DEF Claim
<1>2. status' = [status EXCEPT ![a] = "PROCESSING"] /\ status[a] \in {"QUEUED", "PROCESSING"}
  BY <1>1 DEF ClaimNext, First, Claimable
<1>3. stage' = stage
  BY <1>2 DEF stage, StageOf, IInv, TypeOK, RowsType
<1> QED
  BY <1>3 DEF Claim, history, Promised, abstract, doubt

\* The worker that sent the form puts it on record.
LEMMA RecordPromise ==
  ASSUME IInv, NEW w \in Worker, MarkApplied(w)
  PROVE  Promised
<1> DEFINE a == task[w]
<1>1. /\ pc[w] \in Sending /\ SetStatus(a, "APPLIED")
      /\ UNCHANGED <<submissions, uncertain, mistaken, expired>>
  BY DEF MarkApplied, Sending, history
<1>2. a \in App /\ status \in [App -> Status] /\ submissions \in [App -> 0..2]
      /\ pc[w] \in Undecided
  BY <1>1 DEF IInv, TypeOK, RowsType, InHand, Undecided, Sending
<1>3. status' = [status EXCEPT ![a] = status'[a]] /\ doubt' = doubt
  BY <1>1, <1>2 DEF SetStatus, doubt
<1>4. CASE a \in doubt
  <2>1. Passed(a)
    BY <1>1 DEF IInv, HasSent
  <2>2. doubt' = doubt \cup {a} /\ submissions' = [submissions EXCEPT ![a] = submissions'[a]]
        /\ submissions'[a] \in submissions[a]..2
    BY <1>1, <1>2, <1>3, <1>4
  <2> QED
    BY <1>1, <1>2, <1>3, <2>1, <2>2, DoubtfulPromise DEF Promised
<1>5. CASE a \notin doubt
  <2>1. status[a] = "PROCESSING" /\ ~ S!Untouched(a)
    BY <1>1, <1>2, <1>5, OwnerKnows DEF S!Untouched
  <2>2. status'[a] = "APPLIED"
    BY <1>1, <1>2, <2>1 DEF SetStatus
  <2>3. stage' = [stage EXCEPT ![a] = "applied"] /\ stage[a] = "open"
    BY <1>2, <1>3, <2>1, <2>2, Shows DEF stage, StageOf
  <2>4. S!Record(a)
    BY <1>1, <1>2, <1>3, <1>5, <2>1, <2>3 DEF S!Record, S!Certain, stage, doubt
  <2> QED
    BY <1>2, <2>4 DEF S!Next, Promised
<1> QED
  BY <1>4, <1>5

\* Every step of a worker is one of these.
LEMMA WorkerPromise ==
  ASSUME IInv, TypeOK', NEW w \in Worker, Step(w)
  PROVE  Promised
<1> USE DEF PC, Unstarted, Starting, Trying, Handling
<1>0. uncertain \cup expired \in SUBSET App /\ uncertain' \cup expired' \in SUBSET App
  BY DEF IInv, TypeOK
<1>q. ASSUME UNCHANGED <<status, submissions, mistaken, expired>>, uncertain \subseteq uncertain'
      PROVE  Promised
  BY <1>0, <1>q, QuietPromise DEF Promised, doubt
<1>1. CASE Claim(w)
  BY <1>1, ClaimPromise
<1>2. CASE PeekLimit(w) \/ StartTask(w) \/ OpenPage(w) \/ Abandon(w) \/ AskUser(w)
           \/ MeetCaptcha(w) \/ PageRaises(w) \/ FinishSuccess(w) \/ SuccessRaises(w)
           \/ HoldRaises(w) \/ FailureRaises(w) \/ EndTask(w)
  BY <1>2, <1>q DEF PeekLimit, StartTask, OpenPage, Abandon, AskUser, MeetCaptcha, PageRaises,
       FinishSuccess, SuccessRaises, HoldRaises, FailureRaises, EndTask, rows, history
<1>3. CASE Release(w)
  BY <1>3, WritePromise DEF Release, Undecided, Sending, Status, history
<1>4. CASE HttpApply(w)
  <2>1. \/ UNCHANGED <<submissions, uncertain>>
        \/ Sends(task[w], 1) /\ UNCHANGED uncertain
        \/ Sends(task[w], 1) /\ uncertain' = uncertain \cup {task[w]}
    BY <1>4 DEF HttpApply
  <2>2. pc[w] \in Undecided \ Sending /\ UNCHANGED <<status, mistaken, expired>>
    BY <1>4 DEF HttpApply, Undecided, Sending, rows
  <2> QED
    BY <1>q, <2>1, <2>2, SendPromise
<1>5. CASE Submit(w)
  <2>1. \/ \E n \in {1, 2} : /\ Sends(task[w], n) /\ UNCHANGED mistaken
                             /\ \/ n = 1 /\ uncertain' = uncertain
                                \/ uncertain' = uncertain \cup {task[w]}
        \/ mistaken' = mistaken \cup {task[w]} /\ UNCHANGED <<submissions, uncertain>>
    BY <1>5 DEF Submit
  <2>2. pc[w] \in Undecided \ Sending /\ UNCHANGED <<status, expired>>
    BY <1>5 DEF Submit, Undecided, Sending, rows
  <2> QED
    BY <2>1, <2>2, SendPromise, MistakePromise
<1>6. CASE MarkApplied(w)
  BY <1>6, RecordPromise
<1>7. CASE EnterHold(w)
  BY <1>7, WritePromise DEF EnterHold, Undecided, Sending, Status, history
<1>8. CASE HandleFailure(w)
  <2>1. \E s \in Status \ {"APPLIED"} : SetStatus(task[w], s)
    BY <1>8 DEF HandleFailure, Status
  <2> QED
    BY <1>8, <2>1, WritePromise DEF HandleFailure, Undecided, Sending, history
<1> QED
  BY <1>1, <1>2, <1>3, <1>4, <1>5, <1>6, <1>7, <1>8 DEF Step

LEMMA StepPromise == IInv /\ IInv' /\ [Next]_vars => Promised
<1> SUFFICES ASSUME IInv, IInv', [Next]_vars PROVE Promised
  OBVIOUS
<1>0. TypeOK' /\ doubt' \in SUBSET App
  BY DEF IInv, TypeOK, doubt
<1>1. CASE \E w \in Worker : Step(w)
  BY <1>0, <1>1, WorkerPromise
<1>2. CASE \/ \E p \in Process : Crash(p)
           \/ \E a \in App : OrphanAges(a) \/ LockExpires(a) \/ RetryComesDue(a)
  <2>1. UNCHANGED <<status, submissions, mistaken>> /\ doubt \subseteq doubt'
    BY <1>2 DEF Crash, OrphanAges, LockExpires, RetryComesDue, LockAges, DeferralEnds,
                rows, agent, history, doubt
  <2> QED
    BY <1>0, <2>1, QuietPromise DEF Promised
<1>3. CASE UNCHANGED vars
  BY <1>3 DEF vars, rows, history, Promised, abstract, stage, doubt
<1> QED
  BY <1>1, <1>2, <1>3 DEF Next

LEMMA InitPromise == Init => S!Init
BY DEF Init, RowsInit, AgentInit, S!Init, StageOf

\* For any number of workers, processes, applications and faults, what the users see of
\* the worker service (agent.py, run_once) is a behaviour of Submission.
THEOREM KeepsPromisesHolds == Spec => KeepsPromises
<1>1. IInv /\ IInv' /\ [Next]_vars => [S!Next]_(S!vars)
  BY StepPromise DEF Promised, abstract, stage, doubt, S!vars
<1> QED
  BY <1>1, InitPromise, Invariance, PTL DEF Spec, KeepsPromises, S!Spec
===============================================================================
