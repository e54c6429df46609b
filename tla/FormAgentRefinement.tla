-------------------------- MODULE FormAgentRefinement --------------------------
(***************************************************************************)
(* FormAgent implements Submission: the rows, workers, locks and trackers  *)
(* show an application's user no more than the abstract stages.            *)
(***************************************************************************)
EXTENDS FormAgent

\* The status as the user sees it: queued and processing are both still open.
StageOf(s) ==
  IF s = "REQUIRES_INPUT" THEN "waiting"
  ELSE IF s = "APPLIED" THEN "applied"
  ELSE IF s \in {"FAILED", "REJECTED"} THEN "failed" ELSE "open"

S == INSTANCE Submission WITH
       stage <- [a \in App |-> StageOf(status[a])],
       sent <- submissions,
       mistaken <- mistaken,
       doubt <- uncertain \cup expired

\* run_once with its claims, releases, holds, retries and crashes keeps the promises of
\* Submission: a row that is APPLIED, waits for its user or was given up is not touched
\* again, no form leaves a second time, and none leaves after a click that passed for it,
\* unless a submission is in doubt.
KeepsPromises == S!Spec
===============================================================================
