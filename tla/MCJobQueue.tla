------------------------------- MODULE MCJobQueue -------------------------------
(* A small instance of JobQueue: three jobs, two of which share a deduplication  *)
(* key, so that one of the two is enqueued; one of these has no handler.         *)
EXTENDS JobQueueRefinement, TLC

CONSTANTS j1, j2, j3, k1, p1, p2

ThreeJobs == {j1, j2, j3}
MCKey == {k1}
MCKeyOf == [j \in Job |-> IF j = j1 THEN NoKey ELSE k1]
MCRank == [j \in Job |-> CASE j = j1 -> 1 [] j = j2 -> 2 [] OTHER -> 3]
Third == {j3}
TwoProcesses == {p1, p2}
===============================================================================
