------------------------------- MODULE MCBilling -------------------------------
(* A small instance of Billing: two subscriptions of different plans, two webhook *)
(* requests at a time, one user who swipes (Reject makes the rows of the others), *)
(* limits of one, two and three rows.                                             *)
EXTENDS Billing, TLC

CONSTANTS s1, s2, h1, h2, c1

MCSub == {s1, s2}
MCPlanOf == (s1 :> "PRO") @@ (s2 :> "TEAM")
MCLimit == ("FREE" :> 1) @@ ("TEAM" :> 2) @@ ("PRO" :> 3)
MCHandler == {h1, h2}
MCClient == {c1}
===============================================================================
