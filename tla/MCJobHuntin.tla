------------------------------ MODULE MCJobHuntin ------------------------------
(* Small instances of JobHuntin: two workers, two requests in flight, and two  *)
(* row ids for one job (a second one is needed once an undo deleted the first) *)
(* or one id for each of two jobs.                                             *)
EXTENDS JobHuntin, TLC

CONSTANTS a1, a2, j1, j2, w1, w2, p1, ta, salary, captcha, c1, c2

MCApp == {a1, a2}
OneApp == {a1}
MCRank == (a1 :> 1) @@ (a2 :> 2)
OneRank == (a1 :> 1)
OneJob == {j1}
SameJob == [a \in App |-> j1]
MCField == {salary, captcha}
MCTenant == {ta}
MCTenantOf == [a \in App |-> ta]
MCWorker == {w1, w2}
MCProcess == {p1}
MCHome == [w \in MCWorker |-> p1]
MCClient == {c1, c2}
Labels == {"STARTED_PROCESSING", "REQUIRES_INPUT_RAISED", "SUBMITTED", "FAILED",
           "RETRY_SCHEDULED", "USER_ANSWERED"}
None == {}
Swipes == {"accept", "reject", "undo"}
Holding == {"accept", "answer", "resume", "snooze"}
Withdrawing == {"accept", "withdraw", "patch", "stage"}
Everything == Swipes \cup Holding \cup Withdrawing
Symmetry == Permutations(MCWorker) \cup Permutations(MCClient)
===============================================================================
