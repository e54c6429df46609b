--------------------------- MODULE CircuitBreakerProofs ---------------------------
(***************************************************************************)
(* For any number of callers and any thresholds, the counters of the       *)
(* breaker agree with its state.                                           *)
(***************************************************************************)
EXTENDS CircuitBreaker, TLAPS

\* The two together are inductive: a success in half-open reaches the threshold only if
\* one less was counted, and an open circuit has failures enough to be reopened.
Inv == TypeOK /\ CountsMatchState

\* The breaker starts closed with nothing counted.
LEMMA InitInv == Init => Inv
  BY CircuitBreakerAssumption DEF Init, Inv, TypeOK, CountsMatchState

\* No step of a caller, and no time that passes, breaks the agreement.
LEMMA NextInv == Inv /\ [Next]_vars => Inv'
<1> SUFFICES ASSUME Inv, [Next]_vars PROVE Inv'
    OBVIOUS
<1> USE CircuitBreakerAssumption DEF Inv, TypeOK, CountsMatchState
<1>1. ASSUME NEW c \in Caller, Send(c) PROVE Inv'
  BY <1>1 DEF Send
<1>2. ASSUME NEW c \in Caller, Answer(c) PROVE Inv'
  BY <1>2 DEF Answer, Budgeted
<1>3. ASSUME NEW c \in Caller, CountSuccess(c) PROVE Inv'
  <2>1. CASE state = "half_open" /\ success_count + 1 >= SuccessThreshold
    BY <1>3, <2>1 DEF CountSuccess
  <2>2. CASE state = "half_open" /\ ~ (success_count + 1 >= SuccessThreshold)
    BY <1>3, <2>2 DEF CountSuccess
  <2>3. CASE state /= "half_open"
    BY <1>3, <2>3 DEF CountSuccess
  <2>4. QED
    BY <2>1, <2>2, <2>3
<1>4. ASSUME NEW c \in Caller, CountFailure(c) PROVE Inv'
  <2>1. /\ failure_count' = failure_count + 1
        /\ failure_count' \in Nat
        /\ timeout' = "running"
        /\ call' \in [Caller -> {"idle", "sent", "ok", "failed"}]
        /\ UNCHANGED failures
    BY <1>4 DEF CountFailure
  <2>2. CASE state = "half_open"
    <3>1. state' = "open" /\ success_count' = 0
      BY <1>4, <2>2 DEF CountFailure
    <3>2. QED
      BY <2>1, <2>2, <3>1
  <2>3. CASE state = "open"
    <3>1. UNCHANGED <<state, success_count>>
      BY <1>4, <2>3 DEF CountFailure
    <3>2. QED
      BY <2>1, <2>3, <3>1
  <2>4. CASE state = "closed" /\ failure_count' >= FailureThreshold
    <3>1. state' = "open" /\ UNCHANGED success_count
      BY <1>4, <2>1, <2>4 DEF CountFailure
    <3>2. QED
      BY <2>1, <2>4, <3>1
  <2>5. CASE state = "closed" /\ failure_count' < FailureThreshold
    <3>1. UNCHANGED <<state, success_count>>
      BY <1>4, <2>1, <2>5 DEF CountFailure
    <3>2. QED
      BY <2>1, <2>5, <3>1
  <2>6. QED
    BY <2>1, <2>2, <2>3, <2>4, <2>5
<1>5. ASSUME NEW c \in Caller, Cancel(c) PROVE Inv'
  BY <1>5 DEF Cancel, Budgeted
<1>6. ASSUME TimeoutPasses PROVE Inv'
  BY <1>6 DEF TimeoutPasses
<1>7. CASE UNCHANGED vars
  BY <1>7 DEF vars
<1>8. QED
  BY <1>1, <1>2, <1>3, <1>4, <1>5, <1>6, <1>7 DEF Next, Step

\* The invariant holds in every behaviour.
LEMMA InvHolds == Spec => []Inv
  BY InitInv, NextInv, PTL DEF Spec

\* Every variable of the breaker always has its type.
THEOREM TypeCorrect == Spec => []TypeOK
<1>1. Inv => TypeOK
  BY DEF Inv
<1>2. QED
  BY InvHolds, <1>1, PTL

\* The circuit is closed exactly while fewer than failure_threshold failures are counted,
\* and half open only while fewer than success_threshold successes are, however the
\* results of concurrent calls arrive.
THEOREM CountsMatchStateHolds == Spec => []CountsMatchState
<1>1. Inv => CountsMatchState
  BY DEF Inv
<1>2. QED
  BY InvHolds, <1>1, PTL
===============================================================================
