------------------------------ MODULE CircuitBreaker ------------------------------
(***************************************************************************)
(* CircuitBreaker of shared/circuit_breaker.py with the coroutines that    *)
(* call an external service through it.  call() takes the lock to look at  *)
(* the state, lets it go for the call itself, and takes it again to count  *)
(* the result: by then other calls may have opened the circuit, tried it   *)
(* or closed it.  A rejected call changes nothing and is left out.         *)
(***************************************************************************)
EXTENDS Integers, FiniteSets

CONSTANTS
  Caller,            \* coroutines that use the service, one call at a time each
  FailureThreshold,  \* failure_threshold
  SuccessThreshold,  \* success_threshold
  MaxFailures        \* bound: calls that fail or are cancelled

ASSUME CircuitBreakerAssumption ==
  /\ FailureThreshold \in Nat \ {0}
  /\ SuccessThreshold \in Nat \ {0}
  /\ MaxFailures \in Nat

VARIABLES
  state,
  failure_count,
  success_count,
  timeout,           \* timeout_seconds since last_failure_time: unset, running, elapsed
  call,              \* where the call of a caller is
  failures           \* history: how much of MaxFailures is used

vars == <<state, failure_count, success_count, timeout, call, failures>>

Init ==
  /\ state = "closed"
  /\ failure_count = 0
  /\ success_count = 0
  /\ timeout = "unset"
  /\ call = [c \in Caller |-> "idle"]
  /\ failures = 0

-------------------------------------------------------------------------------
\* Mutant of Send: every call in half-open starts the count of successes anew.
SendAnew(c) ==
  /\ call[c] = "idle"
  /\ call' = [call EXCEPT ![c] = "sent"]
  /\ \/ state = "closed" /\ UNCHANGED <<state, success_count>>
     \/ /\ state = "half_open" \/ (state = "open" /\ timeout = "elapsed")
        /\ state' = "half_open"
        /\ success_count' = 0
  /\ UNCHANGED <<failure_count, timeout, failures>>

\* The first half of call(): an open circuit lets a call through once the timeout has
\* passed, and is half open from then on; a half-open one lets every call through.
Send(c) ==
  /\ call[c] = "idle"
  /\ call' = [call EXCEPT ![c] = "sent"]
  /\ \/ state \in {"closed", "half_open"} /\ UNCHANGED <<state, success_count>>
     \/ /\ state = "open" /\ timeout = "elapsed"
        /\ state' = "half_open"
        /\ success_count' = 0
  /\ UNCHANGED <<failure_count, timeout, failures>>

Budgeted == failures < MaxFailures /\ failures' = failures + 1

\* The service answers, or the call raises.
Answer(c) ==
  /\ call[c] = "sent"
  /\ \/ call' = [call EXCEPT ![c] = "ok"] /\ UNCHANGED failures
     \/ call' = [call EXCEPT ![c] = "failed"] /\ Budgeted
  /\ UNCHANGED <<state, failure_count, success_count, timeout>>

\* The caller's task is cancelled during the call or on its way to the lock:
\* CancelledError is not an Exception, so nothing is counted.
Cancel(c) ==
  /\ call[c] /= "idle"
  /\ Budgeted
  /\ call' = [call EXCEPT ![c] = "idle"]
  /\ UNCHANGED <<state, failure_count, success_count, timeout>>

\* Mutant of CountSuccess: the failures that opened the circuit stay counted when it closes.
CountSuccessKeepingFailures(c) ==
  /\ call[c] = "ok"
  /\ call' = [call EXCEPT ![c] = "idle"]
  /\ success_count' = IF state = "half_open" THEN success_count + 1 ELSE success_count
  /\ state' = IF state = "half_open" /\ success_count' >= SuccessThreshold
              THEN "closed" ELSE state
  /\ failure_count' = IF state = "closed" THEN 0 ELSE failure_count
  /\ UNCHANGED <<timeout, failures>>

\* Mutant of CountSuccess: a success takes one failure off the count, down to no floor.
CountSuccessDecaying(c) ==
  /\ call[c] = "ok"
  /\ call' = [call EXCEPT ![c] = "idle"]
  /\ success_count' = IF state = "half_open" THEN success_count + 1 ELSE success_count
  /\ state' = IF state = "half_open" /\ success_count' >= SuccessThreshold
              THEN "closed" ELSE state
  /\ failure_count' = IF state = "closed" THEN failure_count - 1
                      ELSE IF state' = "closed" THEN 0 ELSE failure_count
  /\ UNCHANGED <<timeout, failures>>

\* The second half of call() after a success, whatever the state was when it began.
CountSuccess(c) ==
  /\ call[c] = "ok"
  /\ call' = [call EXCEPT ![c] = "idle"]
  /\ success_count' = IF state = "half_open" THEN success_count + 1 ELSE success_count
  /\ state' = IF state = "half_open" /\ success_count' >= SuccessThreshold
              THEN "closed" ELSE state
  /\ failure_count' = IF state' = "closed" THEN 0 ELSE failure_count
  /\ UNCHANGED <<timeout, failures>>

\* Its second half after an exception; one that comes when the circuit is open already
\* still counts, and starts the timeout anew.
CountFailure(c) ==
  /\ call[c] = "failed"
  /\ call' = [call EXCEPT ![c] = "idle"]
  /\ failure_count' = failure_count + 1
  /\ timeout' = "running"
  /\ \/ /\ state = "half_open"
        /\ state' = "open"
        /\ success_count' = 0
     \/ /\ state = "closed" /\ failure_count' >= FailureThreshold
        /\ state' = "open"
        /\ UNCHANGED success_count
     \/ /\ state = "open" \/ (state = "closed" /\ failure_count' < FailureThreshold)
        /\ UNCHANGED <<state, success_count>>
  /\ UNCHANGED failures

\* time.time() runs past last_failure_time by timeout_seconds.
TimeoutPasses ==
  /\ timeout = "running"
  /\ timeout' = "elapsed"
  /\ UNCHANGED <<state, failure_count, success_count, call, failures>>

Step(c) == Send(c) \/ Answer(c) \/ CountSuccess(c) \/ CountFailure(c)

Next == TimeoutPasses \/ \E c \in Caller : Step(c) \/ Cancel(c)

Spec == Init /\ [][Next]_vars

\* Callers keep calling, calls end (the clients have timeouts), the asyncio lock is fair,
\* and time passes.
FairSpec == Spec /\ WF_vars(TimeoutPasses) /\ \A c \in Caller : WF_vars(Step(c))

-------------------------------------------------------------------------------
\* Every variable has its type.
TypeOK ==
  /\ state \in {"closed", "open", "half_open"}
  /\ failure_count \in Nat
  /\ success_count \in 0..SuccessThreshold
  /\ timeout \in {"unset", "running", "elapsed"}
  /\ call \in [Caller -> {"idle", "sent", "ok", "failed"}]
  /\ failures \in 0..MaxFailures

\* However late and in whatever order results arrive, the counters agree with the state:
\* the circuit is closed exactly while fewer than failure_threshold failures are counted,
\* and half open only while fewer than success_threshold successes are.
CountsMatchState ==
  /\ state = "closed" <=> failure_count < FailureThreshold
  /\ state = "half_open" => success_count < SuccessThreshold

\* Once the service has stopped failing, the circuit closes and stays closed: no late
\* failure and no number of calls in half-open keeps it open for good.
Recovers == <>[](state = "closed")
===============================================================================
