----------------------------- MODULE MCCircuitBreaker -----------------------------
(* A small instance of CircuitBreaker: more callers than failures open it.     *)
EXTENDS CircuitBreaker

CONSTANTS c1, c2, c3

MCCaller == {c1, c2, c3}
===============================================================================
