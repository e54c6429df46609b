------------------------------- MODULE Submission -------------------------------
(***************************************************************************)
(* What the worker service promises about an application, whatever its     *)
(* workers, locks, retries and crashes do.  The form leaves for the        *)
(* employer at most once; and an application that is on record, waits for  *)
(* its user or was given up stays so.  The row may be wrong in one way: a  *)
(* click that sent nothing passes for the submission, and from then on the *)
(* application is treated like one that was sent.  The other escape is     *)
(* doubt, which is entered by name and never left: for an application in   *)
(* doubt all that remains is that the row does not claim a submission that *)
(* was neither made nor believed.                                          *)
(***************************************************************************)
EXTENDS Integers

CONSTANT App

VARIABLES
  stage,    \* what the row tells the user
  sent,     \* submissions that left for the employer, up to two
  mistaken, \* applications a click of which was taken for a submission
  doubt     \* applications one of whose submissions nobody can vouch for

vars == <<stage, sent, mistaken, doubt>>

Stage == {"open", "waiting", "applied", "failed"}

Init ==
  /\ stage = [a \in App |-> "open"]
  /\ sent = [a \in App |-> 0]
  /\ mistaken = {}
  /\ doubt = {}

Certain(a) == stage[a] = "open" /\ a \notin doubt

\* Nothing has left for the employer, and nothing passes for it.
Untouched(a) == sent[a] = 0 /\ a \notin mistaken

\* The form leaves for the employer, for the first time.
Send(a) ==
  /\ Certain(a) /\ Untouched(a)
  /\ sent' = [sent EXCEPT ![a] = 1]
  /\ UNCHANGED <<stage, mistaken, doubt>>

\* A click that sends nothing passes for it.
Mistake(a) ==
  /\ Certain(a) /\ Untouched(a)
  /\ mistaken' = mistaken \cup {a}
  /\ UNCHANGED <<stage, sent, doubt>>

\* It is put on record.
Record(a) ==
  /\ Certain(a) /\ ~ Untouched(a)
  /\ stage' = [stage EXCEPT ![a] = "applied"]
  /\ UNCHANGED <<sent, mistaken, doubt>>

\* Nothing was sent: the user is asked, or the application is given up.
SetAside(a) ==
  /\ Certain(a) /\ Untouched(a)
  /\ \E s \in {"waiting", "failed"} : stage' = [stage EXCEPT ![a] = s]
  /\ UNCHANGED <<sent, mistaken, doubt>>

\* Track of some applications is lost.
Doubt ==
  /\ \E S \in SUBSET App : doubt' = doubt \cup S
  /\ UNCHANGED <<stage, sent, mistaken>>

\* An application in doubt may be worked on as if it had never been touched.
ActInDoubt(a) ==
  /\ doubt' = doubt \cup {a}
  /\ \E n \in sent[a]..2 : sent' = [sent EXCEPT ![a] = n]
  /\ mistaken' \in {mistaken, mistaken \cup {a}}
  /\ \E s \in Stage :
       /\ s = "applied" => stage[a] = "applied" \/ ~ Untouched(a)
       /\ stage' = [stage EXCEPT ![a] = s]

Next ==
  \/ Doubt
  \/ \E a \in App : Send(a) \/ Mistake(a) \/ Record(a) \/ SetAside(a) \/ ActInDoubt(a)

Spec == Init /\ [][Next]_vars
===============================================================================
