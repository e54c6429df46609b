------------------------------ MODULE MCFormAgent ------------------------------
(* Small instances of FormAgent: two applications of one tenant, a CAPTCHA and *)
(* one other question, and two or three workers in one or two processes.       *)
EXTENDS FormAgentRefinement, TLC

CONSTANTS a1, a2, w1, w2, w3, p1, p2, ta, salary, captcha

MCApp == {a1, a2}
MCField == {salary, captcha}
MCRank == (a1 :> 1) @@ (a2 :> 2)
MCTenant == {ta}
MCTenantOf == [a \in MCApp |-> ta]

\* Two workers of one process; two of one and one of another.
TwoWorkers == {w1, w2}
ThreeWorkers == {w1, w2, w3}
OneProcess == {p1}
TwoProcesses == {p1, p2}
Together == (w1 :> p1) @@ (w2 :> p1)
Apart == (w1 :> p1) @@ (w2 :> p1) @@ (w3 :> p2)
WorkerSymmetry == Permutations({w1, w2})

\* The labels the code emits.
CodeLabels == {"STARTED_PROCESSING", "REQUIRES_INPUT_RAISED", "SUBMITTED", "FAILED",
               "RETRY_SCHEDULED", "USER_ANSWERED"}

None == {}
OnlyA1 == {a1}
===============================================================================
