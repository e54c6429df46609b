------------------------------ MODULE MCAgentLoop ------------------------------
(* A small instance of AgentLoop: two agents and two rows.                     *)
EXTENDS AgentLoop

CONSTANTS r1, r2, g1, g2

MCRow == {r1, r2}
TwoAgents == {g1, g2}
===============================================================================
