---------------------------- MODULE AgentLoopProofs ----------------------------
(***************************************************************************)
(* Proofs about AgentLoop for every set of agents and rows, every limit of *)
(* calls and every number of faults.                                       *)
(***************************************************************************)
EXTENDS AgentLoop, TLAPS

\* An agent has a row while it processes one, and only then.
HandsFull == \A a \in Agent : pc[a] = "processing" <=> taken[a] # NoRow

IInv == TypeOK /\ HandsFull /\ OneHand

-------------------------------------------------------------------------------
LEMMA InitIInv == Init => IInv
BY AgentLoopAssumption DEF Init, IInv, TypeOK, HandsFull, OneHand

LEMMA TypeStep == TypeOK /\ [Next]_vars => TypeOK'
<1> SUFFICES ASSUME TypeOK, [Next]_vars PROVE TypeOK'
  OBVIOUS
<1> USE AgentLoopAssumption DEF TypeOK, Goes, Budgeted
<1>1. ASSUME NEW r \in Row, Swipe(r) \/ Ripen(r) \/ LockAges(r) PROVE TypeOK'
  BY <1>1 DEF Swipe, Ripen, LockAges
<1>2. ASSUME NEW a \in Agent, Admit(a) \/ Refuse(a) \/ CallAges(a) PROVE TypeOK'
  BY <1>2 DEF Admit, Refuse, CallAges
<1>3. ASSUME NEW a \in Agent, Take(a) \/ FindNone(a) \/ Processed(a) PROVE TypeOK'
  BY <1>3 DEF Take, FindNone, Processed, Claimable
<1>4. ASSUME NEW a \in Agent, Wait(a) \/ Wake(a) \/ TimeOut(a) PROVE TypeOK'
  BY <1>4 DEF Wait, Wake, TimeOut
<1>5. ASSUME NEW a \in Agent, Deliver(a) \/ Listen(a) PROVE TypeOK'
  BY <1>5 DEF Deliver, Listen
<1>6. ASSUME NEW a \in Agent, LoseConnection(a) PROVE TypeOK'
  BY <1>6 DEF LoseConnection
<1>7. ASSUME NEW a \in Agent, Die(a) PROVE TypeOK'
  <2>1. row' \in [Row -> {"new", "claimable", "taken", "resting", "done"}]
    BY <1>7 DEF Die
  <2> QED
    BY <1>7, <2>1 DEF Die
<1>8. ASSUME NEW a \in Agent, Restart(a) PROVE TypeOK'
  BY <1>8 DEF Restart
<1>9. CASE UNCHANGED vars
  BY <1>9 DEF vars
<1> QED
  BY <1>1, <1>2, <1>3, <1>4, <1>5, <1>6, <1>7, <1>8, <1>9 DEF Next, Step

LEMMA HandsFullStep == IInv /\ [Next]_vars => HandsFull'
<1> SUFFICES ASSUME IInv, [Next]_vars PROVE HandsFull'
  OBVIOUS
<1> USE AgentLoopAssumption DEF IInv, TypeOK, HandsFull, Goes
<1>1. ASSUME NEW a \in Agent, Take(a) PROVE HandsFull'
  BY <1>1 DEF Take, Claimable
<1>2. ASSUME NEW a \in Agent, Processed(a) \/ Die(a) PROVE HandsFull'
  BY <1>2 DEF Processed, Die
<1>3. ASSUME NEW a \in Agent,
             Admit(a) \/ Refuse(a) \/ FindNone(a) \/ Wait(a) \/ Wake(a) \/ TimeOut(a) \/ Restart(a)
      PROVE  HandsFull'
  BY <1>3 DEF Admit, Refuse, FindNone, Wait, Wake, TimeOut, Restart
<1>4. CASE \/ \E r \in Row : Swipe(r) \/ Ripen(r) \/ LockAges(r)
           \/ \E a \in Agent : CallAges(a) \/ Deliver(a) \/ Listen(a) \/ LoseConnection(a)
           \/ UNCHANGED vars
  BY <1>4 DEF Swipe, Ripen, LockAges, CallAges, Deliver, Listen, LoseConnection, vars
<1> QED
  BY <1>1, <1>2, <1>3, <1>4 DEF Next, Step

\* An agent lets go of its row: it writes the row, or dies and leaves it to whoever else
\* has it.
LEMMA OneHandLetsGo ==
  ASSUME IInv, NEW a \in Agent,
         row' \in [Row -> {"new", "claimable", "taken", "resting", "done"}],
         \A r \in Row \ {taken[a]} : row'[r] = row[r],
         row'[taken[a]] = "taken" =>
           row[taken[a]] = "taken" /\ \E b \in Agent \ {a} : taken[b] = taken[a],
         taken' = [taken EXCEPT ![a] = NoRow],
         expired' = expired
  PROVE  OneHand'
<1> USE AgentLoopAssumption DEF IInv, TypeOK, OneHand
<1>1. taken'[a] = NoRow /\ \A b \in Agent \ {a} : taken'[b] = taken[b]
  OBVIOUS
<1>2. \A b \in Agent : taken'[b] \notin expired \cup {NoRow} =>
                         b # a /\ taken[b] # taken[a] /\ row'[taken[b]] = "taken"
  BY <1>1
<1>3. ASSUME NEW r \in Row, row'[r] = "taken" PROVE \E b \in Agent : taken'[b] = r
  <2>1. CASE r = taken[a]
    BY <1>1, <1>3, <2>1
  <2>2. CASE r # taken[a]
    <3>1. row[r] = "taken"
      BY <1>3, <2>2
    <3> QED
      BY <1>1, <2>2, <3>1
  <2> QED
    BY <2>1, <2>2
<1>4. \A b, c \in Agent : taken'[b] = taken'[c] /\ taken'[b] \notin expired' \cup {NoRow} => b = c
  BY <1>1
<1>5. \A b \in Agent : taken'[b] \notin expired' \cup {NoRow} => row'[taken'[b]] = "taken"
  BY <1>1, <1>2
<1> QED
  BY <1>3, <1>4, <1>5

LEMMA OneHandStep == IInv /\ [Next]_vars => OneHand'
<1> SUFFICES ASSUME IInv, [Next]_vars PROVE OneHand'
  OBVIOUS
<1> USE AgentLoopAssumption DEF IInv, TypeOK
<1>1. ASSUME NEW r \in Row, Swipe(r) \/ Ripen(r) PROVE OneHand'
  BY <1>1 DEF Swipe, Ripen, OneHand
<1>2. ASSUME NEW r \in Row, LockAges(r) PROVE OneHand'
  <2>1. /\ row[r] = "taken" /\ row' = [row EXCEPT ![r] = "claimable"]
        /\ taken' = taken /\ expired' = expired \cup {r}
    BY <1>2 DEF LockAges
  <2>2. \A s \in Row : row'[s] = "taken" => row[s] = "taken"
    BY <2>1
  <2>3. \A s \in Row \ {r} : row'[s] = row[s]
    BY <2>1
  <2> QED
    BY <2>1, <2>2, <2>3 DEF OneHand
<1>3. ASSUME NEW a \in Agent, Take(a) PROVE OneHand'
  <2>1. PICK r \in Row : /\ row[r] = "claimable" /\ row' = [row EXCEPT ![r] = "taken"]
                         /\ taken' = [taken EXCEPT ![a] = r] /\ expired' = expired
    BY <1>3 DEF Take, Claimable
  <2>2. taken[a] = NoRow
    BY <1>3 DEF Take, HandsFull
  <2>3. \A b \in Agent : taken[b] = r => r \in expired
    BY <2>1 DEF OneHand
  <2>4. taken'[a] = r /\ \A b \in Agent \ {a} : taken'[b] = taken[b]
    BY <2>1
  <2>5. row'[r] = "taken" /\ \A s \in Row \ {r} : row'[s] = row[s]
    BY <2>1
  <2> QED
    BY <2>1, <2>2, <2>3, <2>4, <2>5 DEF OneHand
<1>4. ASSUME NEW a \in Agent, Processed(a) PROVE OneHand'
  <2>1. taken[a] \in Row
    BY <1>4 DEF Processed, HandsFull
  <2>2. PICK s \in {"done", "resting"} : row' = [row EXCEPT ![taken[a]] = s]
    BY <1>4 DEF Processed
  <2>3. row'[taken[a]] = s /\ \A r \in Row \ {taken[a]} : row'[r] = row[r]
    BY <2>1, <2>2
  <2>4. row' \in [Row -> {"new", "claimable", "taken", "resting", "done"}]
    BY <2>2
  <2>5. taken' = [taken EXCEPT ![a] = NoRow] /\ expired' = expired
    BY <1>4 DEF Processed
  <2> QED
    BY <2>3, <2>4, <2>5, OneHandLetsGo
<1>5. ASSUME NEW a \in Agent, Die(a) PROVE OneHand'
  <2>1. \A r \in Row : row'[r] = IF OnlyHand(a, r) /\ row[r] = "taken" THEN "resting" ELSE row[r]
    BY <1>5 DEF Die
  <2>2. row' \in [Row -> {"new", "claimable", "taken", "resting", "done"}]
    BY <1>5 DEF Die
  <2>3. taken' = [taken EXCEPT ![a] = NoRow] /\ expired' = expired
    BY <1>5 DEF Die
  <2>4. CASE taken[a] \in Row
    BY <2>1, <2>2, <2>3, <2>4, OneHandLetsGo DEF OnlyHand
  <2>5. CASE taken[a] = NoRow
    <3>1. taken' = taken
      BY <2>3, <2>5
    <3>2. \A r \in Row : row'[r] = row[r]
      BY <2>1, <2>5 DEF OnlyHand
    <3> QED
      BY <2>3, <3>1, <3>2 DEF OneHand
  <2> QED
    BY <2>4, <2>5
<1>6. ASSUME NEW a \in Agent,
             Admit(a) \/ Refuse(a) \/ FindNone(a) \/ Wait(a) \/ Wake(a) \/ TimeOut(a) \/ Restart(a)
      PROVE  OneHand'
  <2>1. UNCHANGED <<row, taken, expired>>
    BY <1>6 DEF Admit, Refuse, FindNone, Wait, Wake, TimeOut, Restart
  <2> QED
    BY <2>1 DEF OneHand
<1>7. CASE \/ \E a \in Agent : CallAges(a) \/ Deliver(a) \/ Listen(a) \/ LoseConnection(a)
           \/ UNCHANGED vars
  <2>1. UNCHANGED <<row, taken, expired>>
    BY <1>7 DEF CallAges, Deliver, Listen, LoseConnection, vars
  <2> QED
    BY <2>1 DEF OneHand
<1> QED
  BY <1>1, <1>2, <1>3, <1>4, <1>5, <1>6, <1>7 DEF Next, Step

LEMMA Invariance == Spec => []IInv
<1>1. IInv /\ [Next]_vars => IInv'
  BY TypeStep, HandsFullStep, OneHandStep DEF IInv
<1> QED
  BY <1>1, InitIInv, PTL DEF Spec

\* The variables of the loop keep their types: no agent is admitted to more calls than
\* the minute has, and what it is done with is a row.
THEOREM TypeCorrect == Spec => []TypeOK
<1>1. IInv => TypeOK
  BY DEF IInv
<1> QED
  BY <1>1, Invariance, PTL

\* Whatever processes die, connections are lost and locks age: two agents have one row only
\* after its lock aged under its holder, and a row that is taken is in somebody's hands, the
\* premise of EveryRowIsProcessed.
THEOREM OneHandHolds == Spec => []OneHand
<1>1. IInv => OneHand
  BY DEF IInv
<1> QED
  BY <1>1, Invariance, PTL
===============================================================================
