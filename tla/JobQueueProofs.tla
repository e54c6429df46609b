----------------------------- MODULE JobQueueProofs -----------------------------
(***************************************************************************)
(* Proofs about JobQueue for every number of jobs, processes, attempts and *)
(* faults and every size of a batch.                                       *)
(***************************************************************************)
EXTENDS JobQueueRefinement, FiniteSetTheorems, TLAPS

\* The processes that have yet to start job j.
Pending(j) == {p \in Process : \E e \in batch[p] : e.job = j}

\* A process has one current job at most, which is off its batch; between two jobs it has
\* only its batch, and when it is down not even that.
Orderly ==
  \A p \in Process : /\ \A e, f \in current[p] : e = f
                     /\ batch[p] \cap current[p] = {}
                     /\ pc[p] \notin {"running", "succeeded"} => current[p] = {}
                     /\ pc[p] \in {"down", "starting"} => batch[p] = {}

\* A process has a job in hand once.
Once == \A p \in Process : \A e, f \in InHand(p) : e.job = f.job => e = f

\* A start is paid for by the claim it goes back to.
Paid == \A j \in Job : runs[j] + Cardinality(Pending(j)) <= attempts[j]

\* Who has a job in hand, and did not overrun its lease, has the row.
Leased ==
  \A p \in Process, j \in Job \ overrun :
    Holds(p, j) => /\ status[j] \in {"running", "lost"}
                   /\ status[j] = "running" => lease[j] = "held"

IInv == TypeOK /\ Orderly /\ Once /\ Paid /\ Leased /\ ExclusiveUnlessOverrun

-------------------------------------------------------------------------------
LEMMA InitIInv == Init => IInv
<1> SUFFICES ASSUME Init PROVE IInv
  OBVIOUS
<1> USE JobQueueAssumption DEF Init, InHand, Holds
<1>1. TypeOK
  BY DEF TypeOK, Status
<1>2. Paid
  <2> SUFFICES ASSUME NEW j \in Job PROVE runs[j] + Cardinality(Pending(j)) <= attempts[j]
    BY DEF Paid
  <2>1. Pending(j) = {}
    BY DEF Pending
  <2>2. Cardinality(Pending(j)) = 0
    BY <2>1, FS_EmptySet
  <2> QED
    BY <2>2
<1>3. Orderly /\ Once /\ Leased /\ ExclusiveUnlessOverrun
  BY DEF Orderly, Once, Leased, ExclusiveUnlessOverrun
<1> QED
  BY <1>1, <1>2, <1>3 DEF IInv

\* Every step keeps the types.
LEMMA TypeStep == TypeOK /\ [Next]_vars => TypeOK'
<1> SUFFICES ASSUME TypeOK, [Next]_vars PROVE TypeOK'
  OBVIOUS
<1> USE JobQueueAssumption
    DEF TypeOK, Status, Final, Goes, rows, procs, history, Budgeted, CutOff, Leaves, GoesOn,
        Ends
<1>1. ASSUME NEW j \in Job, NEW s \in BOOLEAN, Enqueue(j, s) PROVE TypeOK'
  BY <1>1 DEF Enqueue
<1>2. ASSUME NEW p \in Process, DropTypes(p) PROVE TypeOK'
  BY <1>2 DEF DropTypes
<1>3. ASSUME NEW p \in Process, CreateTables(p) PROVE TypeOK'
  BY <1>3 DEF CreateTables
<1>4. ASSUME NEW p \in Process, Claim(p) PROVE TypeOK'
  <2>1. \A j \in Chosen : j \in Job /\ attempts[j] \in Nat /\ attempts[j] + 1 \in 0..MaxAttempts
    BY DEF Chosen, Claimable
  <2>2. {[job |-> j, attempt |-> attempts[j] + 1] : j \in Chosen} \in SUBSET Entry
    BY <2>1 DEF Entry
  <2>3. batch' \in [Process -> SUBSET Entry]
    BY <1>4, <2>2 DEF Claim
  <2>4. attempts' \in [Job -> 0..MaxAttempts]
    BY <1>4, <2>1 DEF Claim
  <2> QED
    BY <1>4, <2>3, <2>4 DEF Claim
<1>5. ASSUME NEW p \in Process, StartHandler(p) PROVE TypeOK'
  BY <1>5 DEF StartHandler, Entry
<1>6. ASSUME NEW p \in Process, NoHandler(p) PROVE TypeOK'
  BY <1>6 DEF NoHandler, Entry
<1>7. ASSUME NEW p \in Process, Succeeds(p) PROVE TypeOK'
  BY <1>7 DEF Succeeds, Entry
<1>8. ASSUME NEW p \in Process, Complete(p) PROVE TypeOK'
  BY <1>8 DEF Complete, Entry
<1>9. ASSUME NEW p \in Process, Fails(p) PROVE TypeOK'
  BY <1>9 DEF Fails, Entry
<1>10. ASSUME NEW p \in Process, CompleteRaises(p) \/ Stop(p) PROVE TypeOK'
  <2>1. cut' \subseteq Job
    BY <1>10 DEF CompleteRaises, Stop, Entry
  <2> QED
    BY <1>10, <2>1 DEF CompleteRaises, Stop
<1>overruled. ASSUME NEW p \in Process, CompleteOverruled(p) PROVE TypeOK'
  <2>1. cut' \subseteq Job
    BY <1>overruled DEF CompleteOverruled, Entry
  <2> QED
    BY <1>overruled, <2>1 DEF CompleteOverruled, Entry
<1>11. ASSUME NEW j \in Job, LeaseExpires(j) \/ ComesDue(j) PROVE TypeOK'
  BY <1>11 DEF LeaseExpires, ComesDue
<1>12. CASE UNCHANGED vars
  BY <1>12 DEF vars
<1> QED
  BY <1>1, <1>2, <1>3, <1>4, <1>5, <1>6, <1>7, <1>8, <1>9, <1>10, <1>overruled, <1>11, <1>12
  DEF Next, Step

\* The processes that have yet to start a job are finitely many.
LEMMA PendingFinite ==
  ASSUME NEW j \in Job
  PROVE  IsFiniteSet(Pending(j)) /\ Cardinality(Pending(j)) \in Nat
BY JobQueueAssumption, FS_Subset, FS_CardinalityType DEF Pending

\* Shrinking batches and growing attempts keep every start paid for.
LEMMA PaidWhenFewer ==
  ASSUME TypeOK, Paid, TypeOK',
         \A p \in Process : batch'[p] \subseteq batch[p],
         UNCHANGED <<runs, attempts>>
  PROVE  Paid'
<1> SUFFICES ASSUME NEW j \in Job
             PROVE  runs[j] + Cardinality(Pending(j)') <= attempts[j]
  BY DEF Paid
<1>1. Pending(j)' \subseteq Pending(j)
  BY DEF Pending
<1>2. /\ Cardinality(Pending(j)') <= Cardinality(Pending(j))
      /\ Cardinality(Pending(j)') \in Nat /\ Cardinality(Pending(j)) \in Nat
  BY <1>1, PendingFinite, FS_Subset, FS_CardinalityType
<1> QED
  BY <1>2 DEF Paid, TypeOK

\* A claim pays for one more start of each job that it takes.
LEMMA PaidClaim ==
  ASSUME IInv, TypeOK', NEW p \in Process, Claim(p)
  PROVE  Paid'
<1> SUFFICES ASSUME NEW j \in Job
             PROVE  runs[j] + Cardinality(Pending(j)') <= attempts'[j]
  BY DEF Claim, Paid, history
<1> USE DEF IInv, TypeOK
<1>0. /\ IsFiniteSet(Pending(j)) /\ Cardinality(Pending(j)) \in Nat
      /\ runs[j] + Cardinality(Pending(j)) <= attempts[j]
      /\ runs[j] \in Nat /\ attempts[j] \in Nat
  BY PendingFinite DEF Paid
<1>a. \A q \in Process : q # p => batch'[q] = batch[q]
  BY DEF Claim
<1>b. batch[p] = {} /\ batch'[p] = {[job |-> k, attempt |-> attempts[k] + 1] : k \in Chosen}
  BY DEF Claim
<1>1. CASE j \in Chosen
  <2>1. Pending(j)' \subseteq Pending(j) \cup {p}
    BY <1>a DEF Pending
  <2>2. p \notin Pending(j)
    BY <1>b DEF Pending
  <2>3. /\ Cardinality(Pending(j) \cup {p}) = Cardinality(Pending(j)) + 1
        /\ IsFiniteSet(Pending(j) \cup {p})
    BY <1>0, <2>2, FS_AddElement
  <2>4. Cardinality(Pending(j)') <= Cardinality(Pending(j)) + 1 /\ Cardinality(Pending(j)') \in Nat
    BY <1>0, <2>1, <2>3, FS_Subset, FS_CardinalityType
  <2>5. attempts'[j] = attempts[j] + 1
    BY <1>1 DEF Claim
  <2> QED
    BY <1>0, <2>4, <2>5
<1>2. CASE j \notin Chosen
  <2>1. Pending(j)' = Pending(j)
    <3>1. p \notin Pending(j) /\ p \notin Pending(j)'
      BY <1>b, <1>2 DEF Pending
    <3> QED
      BY <1>a, <3>1 DEF Pending
  <2>2. attempts'[j] = attempts[j]
    BY <1>2 DEF Claim
  <2> QED
    BY <1>0, <2>1, <2>2
<1> QED
  BY <1>1, <1>2

\* A start takes the process off those that have yet to make it.
LEMMA PaidStart ==
  ASSUME IInv, TypeOK', NEW p \in Process, StartHandler(p)
  PROVE  Paid'
<1> USE DEF IInv, TypeOK
<1>1. PICK e \in batch[p] : /\ batch' = [batch EXCEPT ![p] = @ \ {e}]
                            /\ runs' = [runs EXCEPT ![e.job] = @ + 1]
  BY DEF StartHandler
<1>2. e.job \in Job
  BY <1>1 DEF Entry
<1> SUFFICES ASSUME NEW j \in Job
             PROVE  runs'[j] + Cardinality(Pending(j)') <= attempts[j]
  BY DEF StartHandler, Paid, rows
<1>0. /\ IsFiniteSet(Pending(j)) /\ Cardinality(Pending(j)) \in Nat
      /\ runs[j] + Cardinality(Pending(j)) <= attempts[j]
      /\ runs[j] \in Nat /\ attempts[j] \in Nat
  BY PendingFinite DEF Paid
<1>3. \A q \in Process : q # p => batch'[q] = batch[q]
  BY <1>1
<1>4. CASE j = e.job
  <2>1. p \in Pending(j)
    BY <1>4, <1>1 DEF Pending
  <2>2. Pending(j)' \subseteq Pending(j) \ {p}
    <3>1. p \notin Pending(j)'
      BY <1>1, <1>4 DEF Pending, Once, InHand
    <3> QED
      BY <1>3, <3>1 DEF Pending
  <2>3. /\ Cardinality(Pending(j) \ {p}) = Cardinality(Pending(j)) - 1
        /\ IsFiniteSet(Pending(j) \ {p})
    BY <1>0, <2>1, FS_RemoveElement
  <2>4. Cardinality(Pending(j)') <= Cardinality(Pending(j)) - 1 /\ Cardinality(Pending(j)') \in Nat
    BY <2>2, <2>3, FS_Subset, FS_CardinalityType
  <2>5. runs'[j] = runs[j] + 1
    BY <1>1, <1>2, <1>4
  <2> QED
    BY <1>0, <2>4, <2>5
<1>5. CASE j # e.job
  <2>1. Pending(j)' \subseteq Pending(j)
    BY <1>1, <1>3 DEF Pending
  <2>2. Cardinality(Pending(j)') <= Cardinality(Pending(j)) /\ Cardinality(Pending(j)') \in Nat
    BY <1>0, <2>1, FS_Subset, FS_CardinalityType
  <2>3. runs'[j] = runs[j]
    BY <1>1, <1>2, <1>5
  <2> QED
    BY <1>0, <2>2, <2>3
<1> QED
  BY <1>4, <1>5

\* Every step keeps starts paid for.
LEMMA PaidStep == IInv /\ TypeOK' /\ [Next]_vars => Paid'
<1> SUFFICES ASSUME IInv, TypeOK', [Next]_vars PROVE Paid'
  OBVIOUS
<1> USE DEF IInv
<1>1. ASSUME NEW p \in Process, Claim(p) PROVE Paid'
  BY <1>1, PaidClaim
<1>2. ASSUME NEW p \in Process, StartHandler(p) PROVE Paid'
  BY <1>2, PaidStart
<1>3. ASSUME \A p \in Process : batch'[p] \subseteq batch[p], UNCHANGED <<runs, attempts>>
      PROVE  Paid'
  BY <1>3, PaidWhenFewer
<1>4. ASSUME NEW j \in Job, NEW s \in BOOLEAN, Enqueue(j, s) PROVE Paid'
  BY <1>4, <1>3 DEF Enqueue, procs, history
<1>5. ASSUME NEW p \in Process,
             DropTypes(p) \/ CreateTables(p) \/ NoHandler(p) \/ Succeeds(p) \/ Complete(p)
               \/ Fails(p) \/ CompleteRaises(p) \/ CompleteOverruled(p) \/ Stop(p)
      PROVE  Paid'
  <2>1. UNCHANGED <<runs, attempts>>
    BY <1>5 DEF DropTypes, CreateTables, NoHandler, Succeeds, Complete, Fails,
                CompleteRaises, CompleteOverruled, Stop, Ends, rows, history
  <2>2. \A q \in Process : batch'[q] \subseteq batch[q]
    BY <1>5 DEF TypeOK, DropTypes, CreateTables, NoHandler, Succeeds, Complete, Fails,
                CompleteRaises, CompleteOverruled, Stop, Leaves, GoesOn
  <2> QED
    BY <2>1, <2>2, <1>3
<1>6. ASSUME NEW j \in Job, LeaseExpires(j) \/ ComesDue(j) PROVE Paid'
  BY <1>6, <1>3 DEF LeaseExpires, ComesDue, procs, history
<1>7. CASE UNCHANGED vars
  BY <1>7, <1>3 DEF vars, rows, procs, history
<1> QED
  BY <1>1, <1>2, <1>4, <1>5, <1>6, <1>7 DEF Next, Step

-------------------------------------------------------------------------------
\* Who has what, and whose the row is: the part of IInv about processes.
Owned == Orderly /\ Once /\ Leased /\ ExclusiveUnlessOverrun

\* A step in which processes take nothing new and rows of jobs in hand stay theirs.
LEMMA OwnedWhenFewer ==
  ASSUME IInv, TypeOK', Orderly',
         \A p \in Process : InHand(p)' \subseteq InHand(p),
         overrun \subseteq overrun',
         \A p \in Process, j \in Job \ overrun' :
           Holds(p, j)' => /\ status'[j] \in {status[j], "lost"}
                           /\ lease'[j] = lease[j]
  PROVE  Owned'
<1> USE DEF IInv
<1>0. \A p \in Process, j \in Job : Holds(p, j)' => Holds(p, j)
  BY DEF Holds
<1>1. Once'
  BY DEF Once
<1>2. Leased'
  BY <1>0 DEF Leased
<1>3. ExclusiveUnlessOverrun'
  BY <1>0 DEF ExclusiveUnlessOverrun
<1> QED
  BY <1>1, <1>2, <1>3 DEF Owned

\* A claim takes only jobs that no process owns.
LEMMA OwnedClaim ==
  ASSUME IInv, TypeOK', NEW p \in Process, Claim(p)
  PROVE  Owned'
<1> USE DEF IInv, TypeOK
<1>1. /\ pc[p] = "polling" /\ batch[p] = {} /\ current[p] = {}
      /\ batch' = [batch EXCEPT ![p] = {[job |-> j, attempt |-> attempts[j] + 1] : j \in Chosen}]
      /\ UNCHANGED <<pc, current, overrun>>
  BY DEF Claim, Orderly, history
<1>2. \A j \in Chosen : j \in Job /\ Claimable(j)
  BY DEF Chosen
<1>3. \A q \in Process, j \in Job \ overrun : Holds(q, j) => j \notin Chosen
  BY <1>2 DEF Leased, Claimable
<1>4. InHand(p)' = {[job |-> j, attempt |-> attempts[j] + 1] : j \in Chosen}
  BY <1>1 DEF InHand
<1>5. \A q \in Process : q # p => InHand(q)' = InHand(q)
  BY <1>1 DEF InHand
<1>6. Orderly'
  BY <1>1 DEF Orderly
<1>7. Once'
  <2>1. \A e \in InHand(p)' : e = [job |-> e.job, attempt |-> attempts[e.job] + 1]
    BY <1>4
  <2>2. \A e, f \in InHand(p)' : e.job = f.job => e = f
    BY <2>1
  <2>3. ASSUME NEW q \in Process, q # p
        PROVE  \A e, f \in InHand(q)' : e.job = f.job => e = f
    BY <1>5, <2>3 DEF Once
  <2> QED
    BY <2>2, <2>3 DEF Once
<1>8. ASSUME NEW j \in Job PROVE Holds(p, j)' <=> j \in Chosen
  <2>1. ASSUME j \in Chosen PROVE Holds(p, j)'
    <3>1. [job |-> j, attempt |-> attempts[j] + 1] \in InHand(p)'
      BY <1>4, <2>1
    <3>2. [job |-> j, attempt |-> attempts[j] + 1].job = j
      OBVIOUS
    <3> QED
      BY <3>1, <3>2 DEF Holds
  <2>2. ASSUME Holds(p, j)' PROVE j \in Chosen
    <3>1. PICK e \in InHand(p)' : e.job = j
      BY <2>2 DEF Holds
    <3>2. PICK k \in Chosen : e = [job |-> k, attempt |-> attempts[k] + 1]
      BY <1>4
    <3> QED
      BY <3>1, <3>2
  <2> QED
    BY <2>1, <2>2
<1>9. \A q \in Process, j \in Job : q # p => (Holds(q, j)' <=> Holds(q, j))
  BY <1>5 DEF Holds
<1>10. Leased'
  <2>1. \A j \in Job : IF j \in Chosen
                        THEN status'[j] = "running" /\ lease'[j] = "held"
                        ELSE status'[j] = status[j] /\ lease'[j] = lease[j]
    BY DEF Claim
  <2> QED
    BY <1>1, <1>8, <1>9, <2>1 DEF Leased
<1>11. ExclusiveUnlessOverrun'
  BY <1>1, <1>3, <1>8, <1>9 DEF ExclusiveUnlessOverrun
<1> QED
  BY <1>6, <1>7, <1>10, <1>11 DEF Owned

\* A process that writes a verdict has the job no more, and nobody else had it.
LEMMA OwnedVerdict ==
  ASSUME IInv, TypeOK', Orderly', NEW p \in Process, NEW e \in InHand(p), NEW s,
         Ends(e.job, s), InHand(p)' = InHand(p) \ {e},
         \A q \in Process : q # p => InHand(q)' = InHand(q),
         UNCHANGED overrun
  PROVE  Owned'
<1> USE DEF IInv
<1>1. e.job \in Job
  BY DEF InHand, TypeOK, Entry
<1>2. ~ Holds(p, e.job)'
  BY DEF Once, Holds
<1>3. \A q \in Process, j \in Job \ overrun : Holds(q, j)' => j # e.job
  BY <1>1, <1>2 DEF ExclusiveUnlessOverrun, Holds
<1>4. \A j \in Job : j # e.job => status'[j] = status[j] /\ lease'[j] = lease[j]
  BY DEF Ends, TypeOK
<1>5. \A q \in Process : InHand(q)' \subseteq InHand(q)
  OBVIOUS
<1> QED
  BY <1>3, <1>4, <1>5, OwnedWhenFewer

\* Every step keeps ownership.
LEMMA OwnedStep == IInv /\ TypeOK' /\ [Next]_vars => Owned'
<1> SUFFICES ASSUME IInv, TypeOK', [Next]_vars PROVE Owned'
  OBVIOUS
<1> USE DEF IInv
<1>1. ASSUME NEW p \in Process, Claim(p) PROVE Owned'
  BY <1>1, OwnedClaim
<1>2. ASSUME NEW j \in Job, NEW s \in BOOLEAN, Enqueue(j, s) PROVE Owned'
  <2>1. Orderly' /\ \A p \in Process : InHand(p)' = InHand(p)
    BY <1>2 DEF Enqueue, procs, Orderly, InHand
  <2>2. \A p \in Process, k \in Job \ overrun : Holds(p, k)' => k # j
    BY <1>2 DEF Enqueue, procs, Leased, Holds, InHand
  <2>3. \A k \in Job : k # j => status'[k] = status[k]
    BY <1>2 DEF Enqueue, TypeOK
  <2> QED
    BY <1>2, <2>1, <2>2, <2>3, OwnedWhenFewer DEF Enqueue, history
<1>3. ASSUME NEW p \in Process, DropTypes(p) PROVE Owned'
  <2>1. Orderly' /\ \A q \in Process : InHand(q)' = InHand(q)
    BY <1>3 DEF DropTypes, Goes, Orderly, InHand, TypeOK
  <2>2. \A q \in Process, j \in Job \ overrun : Holds(q, j)' => status[j] # "none"
    BY <2>1 DEF Leased, Holds
  <2> QED
    BY <1>3, <2>1, <2>2, OwnedWhenFewer DEF DropTypes, history
<1>4. ASSUME NEW p \in Process, CreateTables(p) PROVE Owned'
  <2>1. Orderly' /\ \A q \in Process : InHand(q)' = InHand(q)
    BY <1>4 DEF CreateTables, Goes, Orderly, InHand, TypeOK
  <2> QED
    BY <1>4, <2>1, OwnedWhenFewer DEF CreateTables, rows, history
<1>5. ASSUME NEW p \in Process, StartHandler(p) PROVE Owned'
  <2>1. PICK e \in batch[p] : /\ batch' = [batch EXCEPT ![p] = @ \ {e}]
                              /\ current' = [current EXCEPT ![p] = {e}]
    BY <1>5 DEF StartHandler
  <2>2. Orderly'
    BY <1>5, <2>1 DEF StartHandler, Goes, Orderly, TypeOK
  <2>3. \A q \in Process : InHand(q)' \subseteq InHand(q)
    BY <2>1 DEF InHand, TypeOK
  <2> QED
    BY <1>5, <2>2, <2>3, OwnedWhenFewer DEF StartHandler, rows
<1>6. ASSUME NEW p \in Process, NoHandler(p) PROVE Owned'
  <2>1. CASE table = "ready"
    <3>1. PICK e \in batch[p] : /\ Ends(e.job, "failed")
                                /\ batch' = [batch EXCEPT ![p] = @ \ {e}]
      BY <1>6, <2>1 DEF NoHandler
    <3>2. UNCHANGED <<pc, current, overrun>> /\ current[p] = {}
      BY <1>6, <2>1 DEF NoHandler, Orderly, history
    <3>3. Orderly'
      BY <3>1, <3>2 DEF Orderly, TypeOK
    <3>4. /\ e \in InHand(p) /\ InHand(p)' = InHand(p) \ {e}
          /\ \A q \in Process : q # p => InHand(q)' = InHand(q)
      BY <3>1, <3>2 DEF InHand, TypeOK
    <3> QED
      BY <3>1, <3>2, <3>3, <3>4, OwnedVerdict
  <2>2. CASE table # "ready"
    <3>1. Orderly' /\ \A q \in Process : InHand(q)' \subseteq InHand(q)
      BY <1>6, <2>2 DEF NoHandler, Leaves, Goes, Orderly, InHand, TypeOK
    <3> QED
      BY <1>6, <2>2, <3>1, OwnedWhenFewer DEF NoHandler, rows, history
  <2> QED
    BY <2>1, <2>2
<1>7. ASSUME NEW p \in Process, Succeeds(p) PROVE Owned'
  <2>1. Orderly' /\ \A q \in Process : InHand(q)' = InHand(q)
    BY <1>7 DEF Succeeds, Goes, Orderly, InHand, TypeOK
  <2> QED
    BY <1>7, <2>1, OwnedWhenFewer DEF Succeeds, rows
<1>8. ASSUME NEW p \in Process, NEW e \in current[p], NEW s, Ends(e.job, s), GoesOn(p),
             UNCHANGED overrun
      PROVE  Owned'
  <2>1. Orderly'
    BY <1>8 DEF GoesOn, Goes, Orderly, TypeOK
  <2>2. /\ e \in InHand(p) /\ InHand(p)' = InHand(p) \ {e}
        /\ \A q \in Process : q # p => InHand(q)' = InHand(q)
    BY <1>8 DEF GoesOn, InHand, Orderly, TypeOK
  <2> QED
    BY <1>8, <2>1, <2>2, OwnedVerdict
<1>9. ASSUME NEW p \in Process, Complete(p) PROVE Owned'
  BY <1>9, <1>8 DEF Complete, history
<1>10. ASSUME NEW p \in Process, NEW s \in {"polling", "down"}, Leaves(p, s),
              overrun' = overrun, UNCHANGED rows
       PROVE  Owned'
  <2>1. Orderly' /\ \A q \in Process : InHand(q)' \subseteq InHand(q)
    BY <1>10 DEF Leaves, Goes, Orderly, InHand, TypeOK
  <2> QED
    BY <1>10, <2>1, OwnedWhenFewer DEF rows
<1>11. ASSUME NEW p \in Process, Fails(p) PROVE Owned'
  <2>1. PICK e \in current[p] : \/ Leaves(p, "polling") /\ UNCHANGED rows
                                \/ Ends(e.job, "failed") /\ GoesOn(p)
    BY <1>11 DEF Fails
  <2> QED
    BY <1>11, <2>1, <1>8, <1>10 DEF Fails, history
<1>12. ASSUME NEW p \in Process, CompleteRaises(p) PROVE Owned'
  BY <1>12, <1>10 DEF CompleteRaises
<1>overruled. ASSUME NEW p \in Process, CompleteOverruled(p) PROVE Owned'
  BY <1>overruled, <1>8 DEF CompleteOverruled
<1>13. ASSUME NEW p \in Process, Stop(p) PROVE Owned'
  BY <1>13, <1>10 DEF Stop
<1>14. ASSUME NEW j \in Job, LeaseExpires(j) PROVE Owned'
  <2>1. Orderly' /\ \A p \in Process : InHand(p)' = InHand(p)
    BY <1>14 DEF LeaseExpires, procs, Orderly, InHand
  <2>2. overrun \subseteq overrun' /\ \A p \in Process, k \in Job \ overrun' : Holds(p, k)' => k # j
    BY <1>14, <2>1 DEF LeaseExpires, Holds
  <2>3. status' = status /\ \A k \in Job : k # j => lease'[k] = lease[k]
    BY <1>14 DEF LeaseExpires, TypeOK
  <2> QED
    BY <2>1, <2>2, <2>3, OwnedWhenFewer
<1>15. ASSUME NEW j \in Job, ComesDue(j) PROVE Owned'
  <2>1. Orderly' /\ \A p \in Process : InHand(p)' = InHand(p)
    BY <1>15 DEF ComesDue, procs, Orderly, InHand
  <2> QED
    BY <1>15, <2>1, OwnedWhenFewer DEF ComesDue, history
<1>16. CASE UNCHANGED vars
  <2>1. Orderly' /\ \A p \in Process : InHand(p)' = InHand(p)
    BY <1>16 DEF vars, procs, Orderly, InHand
  <2> QED
    BY <1>16, <2>1, OwnedWhenFewer DEF vars, rows, history
<1> QED
  BY <1>1, <1>2, <1>3, <1>4, <1>5, <1>6, <1>7, <1>9, <1>11, <1>12, <1>overruled, <1>13, <1>14, <1>15,
     <1>16
  DEF Next, Step

LEMMA Invariance == Spec => []IInv
<1>1. IInv /\ [Next]_vars => IInv'
  BY TypeStep, PaidStep, OwnedStep DEF IInv, Owned
<1> QED
  BY <1>1, InitIInv, PTL DEF Spec

-------------------------------------------------------------------------------
\* Every variable keeps its type; in particular no job is claimed more than MaxAttempts
\* times.
THEOREM TypeCorrect == Spec => []TypeOK
<1>1. IInv => TypeOK
  BY DEF IInv
<1> QED
  BY <1>1, Invariance, PTL

\* For any number of processes, any batch size and whatever stops, raises or overruns its
\* lease: process_jobs starts a job's handler at most max_attempts times.
THEOREM RunsBoundedHolds == Spec => []RunsBounded
<1>1. IInv => RunsBounded
  <2> SUFFICES ASSUME IInv, NEW j \in Job PROVE runs[j] <= MaxAttempts
    BY DEF RunsBounded
  <2> QED
    BY PendingFinite, JobQueueAssumption DEF IInv, Paid, TypeOK
<1> QED
  BY <1>1, Invariance, PTL

\* Two processes get one job only when a lease ends under its holder.
THEOREM ExclusiveHolds == Spec => []ExclusiveUnlessOverrun
<1>1. IInv => ExclusiveUnlessOverrun
  BY DEF IInv
<1> QED
  BY <1>1, Invariance, PTL

-------------------------------------------------------------------------------
\* A verdict is written by the process that has the job, and the row of such a job is
\* not final yet; claims and leases pass final rows by.
THEOREM VerdictStaysHolds == Spec => VerdictStays
<1> DEFINE Stays == \A j \in Job \ overrun' :
                      status[j] \in Final => status'[j] \in {status[j], "lost"}
<1>1. ASSUME IInv, [Next]_vars PROVE Stays
  <2> USE <1>1 DEF IInv, TypeOK, Final
  <2> SUFFICES ASSUME NEW j \in Job \ overrun', status[j] \in Final
               PROVE  status'[j] \in {status[j], "lost"}
    OBVIOUS
  <2>1. ASSUME NEW p \in Process, NEW e \in InHand(p), NEW s, Ends(e.job, s), UNCHANGED overrun
        PROVE  status'[j] = status[j]
    <3>1. Holds(p, e.job) /\ e.job \in Job BY DEF Holds, InHand, Entry
    <3>2. e.job # j BY <2>1, <3>1 DEF Leased
    <3> QED BY <2>1, <3>2 DEF Ends
  <2>2. ASSUME NEW k \in Job, NEW s \in BOOLEAN, Enqueue(k, s) PROVE status'[j] = status[j]
    BY <2>2 DEF Enqueue
  <2>3. ASSUME NEW p \in Process, DropTypes(p) PROVE status'[j] = "lost"
    BY <2>3 DEF DropTypes
  <2>4. ASSUME NEW p \in Process, Claim(p) PROVE status'[j] = status[j]
    BY <2>4 DEF Claim, Chosen, Claimable
  <2>5. ASSUME NEW p \in Process, NoHandler(p) PROVE status'[j] = status[j]
    <3>1. PICK e \in batch[p] : Ends(e.job, "failed") \/ UNCHANGED rows
      BY <2>5 DEF NoHandler
    <3> QED BY <2>1, <2>5, <3>1 DEF NoHandler, InHand, rows, history
  <2>6. ASSUME NEW p \in Process, Complete(p) \/ Fails(p) PROVE status'[j] = status[j]
    <3>1. PICK e \in current[p] : Ends(e.job, "completed") \/ Ends(e.job, "failed") \/ UNCHANGED rows
      BY <2>6 DEF Complete, Fails
    <3> QED BY <2>1, <2>6, <3>1 DEF Complete, Fails, InHand, rows, history
  <2>overruled. ASSUME NEW p \in Process, CompleteOverruled(p) PROVE status'[j] = status[j]
    <3>1. PICK e \in current[p] : Ends(e.job, "failed")
      BY <2>overruled DEF CompleteOverruled
    <3> QED BY <2>1, <2>overruled, <3>1 DEF CompleteOverruled, InHand
  <2>7. ASSUME NEW p \in Process, \/ CreateTables(p) \/ StartHandler(p) \/ Succeeds(p)
                                  \/ CompleteRaises(p) \/ Stop(p)
        PROVE  status'[j] = status[j]
    BY <2>7 DEF CreateTables, StartHandler, Succeeds, CompleteRaises, Stop, rows
  <2>8. ASSUME NEW k \in Job, LeaseExpires(k) \/ ComesDue(k) PROVE status'[j] = status[j]
    BY <2>8 DEF LeaseExpires, ComesDue
  <2>9. CASE UNCHANGED vars BY <2>9 DEF vars, rows
  <2> QED BY <2>2, <2>3, <2>4, <2>5, <2>6, <2>overruled, <2>7, <2>8, <2>9 DEF Next, Step
<1>2. ASSUME IInv, [Next]_vars PROVE [Stays]_vars
  BY <1>1, <1>2
<1> QED BY <1>2, Invariance, PTL DEF Spec, VerdictStays

-------------------------------------------------------------------------------
\* The process that has seen job j succeed and is about to record it.
Recording(p, j) == pc[p] = "succeeded" /\ \E e \in current[p] : e.job = j

\* A job succeeded at most once, and then it is being recorded, or nobody has it in hand
\* and nobody can claim it.
Won ==
  \A j \in Job \ (cut \cup overrun) :
    /\ wins[j] <= 1
    /\ wins[j] = 1 => \/ /\ status[j] \in {"completed", "lost"}
                         /\ \A p \in Process : ~ Holds(p, j)
                      \/ \E p \in Process : Recording(p, j)

\* A step that starts nothing and records nothing, and cuts off who was recording.
LEMMA WonWhenFewer ==
  ASSUME IInv, Won, UNCHANGED wins, cut \subseteq cut', overrun \subseteq overrun',
         \A p \in Process, j \in Job \ (cut' \cup overrun') :
           /\ Holds(p, j)' => Holds(p, j) \/ status[j] \notin {"completed", "lost"}
           /\ Recording(p, j) => Recording(p, j)',
         \A j \in Job \ overrun' : status[j] \in {"completed", "lost"} =>
           status'[j] \in {"completed", "lost"} \/ \E p \in Process : Holds(p, j)
  PROVE  Won'
BY DEF Won

LEMMA WonStep == IInv /\ Won /\ [Next]_vars => Won'
<1> SUFFICES ASSUME IInv, Won, [Next]_vars PROVE Won'
  OBVIOUS
<1> USE DEF IInv, TypeOK
<1>1. ASSUME NEW p \in Process, Succeeds(p) PROVE Won'
  <2>1. PICK e \in current[p] : wins' = [wins EXCEPT ![e.job] = @ + 1]
    BY <1>1 DEF Succeeds
  <2>2. /\ pc[p] = "running" /\ pc' = [pc EXCEPT ![p] = "succeeded"]
        /\ UNCHANGED <<status, current, batch, cut, overrun>>
    BY <1>1 DEF Succeeds, Goes, rows
  <2>3. e.job \in Job /\ Holds(p, e.job) BY DEF Holds, InHand, Entry
  <2>4. \A q \in Process, j \in Job : /\ Holds(q, j)' <=> Holds(q, j)
                                      /\ Recording(q, j) => Recording(q, j)'
    BY <2>2 DEF Holds, InHand, Recording
  <2>5. ASSUME NEW j \in Job \ (cut \cup overrun), j = e.job
        PROVE  wins'[j] = 1 /\ Recording(p, j)'
    <3>1. \A q \in Process : ~ Recording(q, j)
      BY <2>2, <2>3, <2>5 DEF Recording, Holds, InHand, ExclusiveUnlessOverrun
    <3>2. wins[j] = 0 BY <2>3, <2>5, <3>1 DEF Won
    <3> QED BY <2>1, <2>2, <2>5, <3>2 DEF Recording
  <2>6. ASSUME NEW j \in Job \ (cut \cup overrun), j # e.job
        PROVE  wins'[j] = wins[j] /\ status'[j] = status[j]
    BY <2>1, <2>2, <2>6
  <2> QED BY <2>2, <2>4, <2>5, <2>6 DEF Won
<1>2. ASSUME NEW p \in Process, Complete(p) PROVE Won'
  <2>1. PICK e \in current[p] : Ends(e.job, "completed")
    BY <1>2 DEF Complete
  <2>2. /\ pc[p] = "succeeded" /\ pc' = [pc EXCEPT ![p] = "polling"]
        /\ current' = [current EXCEPT ![p] = {}]
        /\ UNCHANGED <<batch, wins, cut, overrun>>
    BY <1>2 DEF Complete, GoesOn, Goes, history
  <2>3. e.job \in Job /\ Holds(p, e.job) BY DEF Holds, InHand, Entry
  <2>4. \A q \in Process, j \in Job : Holds(q, j)' => Holds(q, j)
    BY <2>2 DEF Holds, InHand
  <2>5. \A q \in Process : q # p => current'[q] = current[q] /\ pc'[q] = pc[q]
    BY <2>2
  <2>6. \A f \in current[p] : f = e BY DEF Orderly
  <2>7. status' = [status EXCEPT ![e.job] = "completed"] BY <2>1 DEF Ends
  <2>8. ASSUME NEW j \in Job \ (cut \cup overrun), j = e.job
        PROVE  status'[j] = "completed" /\ \A q \in Process : ~ Holds(q, j)'
    <3>1. \A q \in Process : q # p => ~ Holds(q, j)'
      BY <2>3, <2>4, <2>8 DEF ExclusiveUnlessOverrun
    <3>2. \A f \in batch[p] : f.job # j
      BY <2>8 DEF Once, Orderly, InHand
    <3>3. ~ Holds(p, j)' BY <2>2, <3>2 DEF Holds, InHand
    <3> QED BY <2>7, <2>8, <3>1, <3>3
  <2>9. ASSUME NEW j \in Job \ (cut \cup overrun), j # e.job
        PROVE  status'[j] = status[j] /\ \A q \in Process : Recording(q, j) => Recording(q, j)'
    BY <2>5, <2>6, <2>7, <2>9 DEF Recording
  <2> QED BY <2>2, <2>4, <2>8, <2>9 DEF Won
<1>3. ASSUME NEW p \in Process, Claim(p) PROVE Won'
  <2>1. /\ UNCHANGED <<wins, cut, overrun, pc, current>>
        /\ batch' = [batch EXCEPT ![p] = {[job |-> j, attempt |-> attempts[j] + 1] : j \in Chosen}]
    BY <1>3 DEF Claim, history
  <2>2. \A j \in Chosen : status[j] \notin {"completed", "lost"}
    BY DEF Chosen, Claimable
  <2>3. \A q \in Process, j \in Job : Holds(q, j)' => Holds(q, j) \/ j \in Chosen
    <3>1. \A q \in Process : q # p => batch'[q] = batch[q] BY <2>1
    <3>2. \A f \in batch'[p] : f.job \in Chosen BY <2>1
    <3> QED BY <2>1, <3>1, <3>2 DEF Holds, InHand
  <2>4. \A j \in Job \ Chosen : status'[j] = status[j] BY <1>3 DEF Claim
  <2> QED BY <2>1, <2>2, <2>3, <2>4, WonWhenFewer DEF Recording
<1>4. ASSUME NEW p \in Process, StartHandler(p) PROVE Won'
  <2>1. PICK e \in batch[p] : /\ batch' = [batch EXCEPT ![p] = @ \ {e}]
                              /\ current' = [current EXCEPT ![p] = {e}]
    BY <1>4 DEF StartHandler
  <2>2. /\ pc[p] = "polling" /\ pc' = [pc EXCEPT ![p] = "running"]
        /\ UNCHANGED <<status, wins, cut, overrun>>
    BY <1>4 DEF StartHandler, Goes, rows
  <2>3. \A q \in Process, j \in Job : Holds(q, j)' => Holds(q, j)
    BY <2>1 DEF Holds, InHand
  <2>4. \A q \in Process, j \in Job : Recording(q, j) => Recording(q, j)'
    BY <2>1, <2>2 DEF Recording
  <2> QED BY <2>2, <2>3, <2>4, WonWhenFewer
<1>5. ASSUME NEW p \in Process, NoHandler(p) PROVE Won'
  <2>1. PICK e \in batch[p] : \/ /\ Ends(e.job, "failed") /\ UNCHANGED <<pc, current>>
                                 /\ batch' = [batch EXCEPT ![p] = @ \ {e}]
                              \/ UNCHANGED rows /\ Leaves(p, "polling")
    BY <1>5 DEF NoHandler
  <2>2. UNCHANGED <<wins, cut, overrun>> /\ pc[p] = "polling"
    BY <1>5 DEF NoHandler, history
  <2>3. \A q \in Process, j \in Job : /\ Holds(q, j)' => Holds(q, j)
                                      /\ Recording(q, j) => Recording(q, j)'
    BY <2>1, <2>2 DEF Holds, InHand, Recording, Leaves, Goes
  <2>4. e.job \in Job /\ Holds(p, e.job) BY DEF Holds, InHand, Entry
  <2>5. \A j \in Job : status'[j] = status[j] \/ j = e.job
    BY <2>1, <2>4 DEF Ends, rows
  <2> QED BY <2>2, <2>3, <2>4, <2>5, WonWhenFewer
<1>6. ASSUME NEW p \in Process, Fails(p) PROVE Won'
  <2>1. PICK e \in current[p] : \/ Ends(e.job, "failed") /\ GoesOn(p)
                                \/ UNCHANGED rows /\ Leaves(p, "polling")
    BY <1>6 DEF Fails
  <2>2. UNCHANGED <<wins, cut, overrun>> /\ pc[p] = "running"
    BY <1>6 DEF Fails, history
  <2>3. \A q \in Process, j \in Job : /\ Holds(q, j)' => Holds(q, j)
                                      /\ Recording(q, j) => Recording(q, j)'
    BY <2>1, <2>2 DEF Holds, InHand, Recording, Leaves, GoesOn, Goes
  <2>4. e.job \in Job /\ Holds(p, e.job) BY DEF Holds, InHand, Entry
  <2>5. \A j \in Job : status'[j] = status[j] \/ j = e.job
    BY <2>1, <2>4 DEF Ends, rows
  <2> QED BY <2>2, <2>3, <2>4, <2>5, WonWhenFewer
<1>7. ASSUME NEW p \in Process, CompleteRaises(p) \/ Stop(p) PROVE Won'
  <2>1. /\ UNCHANGED <<wins, overrun, status>> /\ CutOff(p)
        /\ Leaves(p, "polling") \/ Leaves(p, "down")
    BY <1>7 DEF CompleteRaises, Stop, rows
  <2>2. \A q \in Process, j \in Job : Holds(q, j)' => Holds(q, j)
    BY <2>1 DEF Holds, InHand, Leaves
  <2>3. \A j \in Job : Recording(p, j) => j \in cut'
    BY <2>1 DEF Recording, CutOff
  <2>4. \A q \in Process, j \in Job : q # p /\ Recording(q, j) => Recording(q, j)'
    BY <2>1 DEF Recording, Leaves, Goes
  <2>5. cut \subseteq cut' BY <2>1 DEF CutOff
  <2> QED BY <2>1, <2>2, <2>3, <2>4, <2>5, WonWhenFewer
<1>overruled. ASSUME NEW p \in Process, CompleteOverruled(p) PROVE Won'
  <2>1. PICK e \in current[p] : Ends(e.job, "failed") /\ GoesOn(p)
    BY <1>overruled DEF CompleteOverruled
  <2>2. UNCHANGED <<wins, overrun>> /\ CutOff(p) /\ pc[p] = "succeeded"
    BY <1>overruled DEF CompleteOverruled
  <2>3. \A q \in Process, j \in Job : Holds(q, j)' => Holds(q, j)
    BY <2>1 DEF Holds, InHand, GoesOn
  <2>4. \A j \in Job : Recording(p, j) => j \in cut'
    BY <2>2 DEF Recording, CutOff
  <2>5. \A q \in Process, j \in Job : q # p /\ Recording(q, j) => Recording(q, j)'
    BY <2>1 DEF Recording, GoesOn, Goes
  <2>6. cut \subseteq cut' BY <2>2 DEF CutOff
  <2>7. e.job \in Job /\ Holds(p, e.job) BY DEF Holds, InHand, Entry
  <2>8. \A j \in Job : status'[j] = status[j] \/ j = e.job
    BY <2>1, <2>7 DEF Ends
  <2> QED BY <2>2, <2>3, <2>4, <2>5, <2>6, <2>7, <2>8, WonWhenFewer
<1>8. ASSUME NEW p \in Process, DropTypes(p) \/ CreateTables(p) PROVE Won'
  <2>1. /\ UNCHANGED <<wins, cut, overrun, batch, current>>
        /\ \A j \in Job : status'[j] \in {status[j], "lost"}
    BY <1>8 DEF DropTypes, CreateTables, rows, history
  <2>2. \A q \in Process, j \in Job : /\ Holds(q, j)' => Holds(q, j)
                                      /\ Recording(q, j) => Recording(q, j)'
    BY <1>8, <2>1 DEF Holds, InHand, Recording, DropTypes, CreateTables, Goes
  <2> QED BY <2>1, <2>2, WonWhenFewer
<1>9. ASSUME NEW j \in Job, \/ \E s \in BOOLEAN : Enqueue(j, s)
                            \/ LeaseExpires(j) \/ ComesDue(j)
      PROVE  Won'
  <2>1. UNCHANGED <<wins, cut, pc, batch, current>> /\ overrun \subseteq overrun'
    BY <1>9 DEF Enqueue, LeaseExpires, ComesDue, procs, history
  <2>2. \A k \in Job : status[k] \in {"completed", "lost"} => status'[k] = status[k]
    BY <1>9 DEF Enqueue, LeaseExpires, ComesDue
  <2> QED BY <2>1, <2>2, WonWhenFewer DEF Holds, InHand, Recording
<1>10. CASE UNCHANGED vars
  BY <1>10 DEF vars, rows, procs, history, Won, Holds, InHand, Recording
<1> QED
  BY <1>1, <1>2, <1>3, <1>4, <1>5, <1>6, <1>7, <1>overruled, <1>8, <1>9, <1>10 DEF Next, Step

\* What succeeded is not done a second time and not marked failed, for any number of
\* processes and however handlers fail, unless its success was not recorded or its lease
\* ended under its holder.
THEOREM SucceedsOnceHolds == Spec => []SucceedsOnce
<1>1. Init => Won
  BY DEF Init, Won
<1>2. IInv /\ Won => SucceedsOnce
  BY DEF Won, SucceedsOnce, Recording, Holds, InHand
<1> QED
  BY <1>1, <1>2, WonStep, Invariance, PTL DEF Spec

-------------------------------------------------------------------------------
\* A job that was claimed, started or lost track of has a row; one without a handler is
\* never started; and the table that is whole has all its columns.
Rooted ==
  /\ \A j \in Job : \/ j \in overrun \cup cut
                    \/ \E p \in Process : Holds(p, j)
                    \/ runs[j] # 0
                    => status[j] # "none"
  /\ \A j \in Unhandled : runs[j] = 0
  /\ table = "absent" => \A j \in Job : status[j] = "none"
  /\ table = "ready" => \A j \in Job : status[j] # "lost"

\* A step in which nothing is taken in hand, started or lost without a row.
LEMMA RootedWhenFewer ==
  ASSUME TypeOK, Rooted, UNCHANGED <<runs, table>>,
         \A p \in Process : InHand(p)' \subseteq InHand(p),
         \A j \in overrun' \cup cut' : j \in overrun \cup cut \/ \E p \in Process : Holds(p, j),
         \A j \in Job : status[j] # "none" => status'[j] # "none",
         \A j \in Job : table = "absent" => status'[j] = status[j],
         \A j \in Job : status'[j] = "lost" => status[j] = "lost"
  PROVE  Rooted'
<1>1. \A p \in Process, j \in Job : Holds(p, j)' => Holds(p, j)
  BY DEF Holds
<1> QED
  BY <1>1 DEF Rooted

LEMMA RootedStep == IInv /\ Rooted /\ [Next]_vars => Rooted'
<1> SUFFICES ASSUME IInv, Rooted, [Next]_vars PROVE Rooted'
  OBVIOUS
<1> USE DEF IInv, TypeOK
<1>1. ASSUME NEW j \in Job, NEW s \in BOOLEAN, Enqueue(j, s) PROVE Rooted'
  <2>1. \A k \in Job : status'[k] = status[k] \/ (k = j /\ status'[k] \in {"pending", "queued"})
    BY <1>1 DEF Enqueue
  <2>2. /\ table = "ready" /\ UNCHANGED <<table, runs, overrun, cut, batch, current>>
    BY <1>1 DEF Enqueue, procs, history
  <2>3. \A p \in Process, k \in Job : Holds(p, k)' <=> Holds(p, k)
    BY <2>2 DEF Holds, InHand
  <2> QED
    BY <2>1, <2>2, <2>3 DEF Rooted
<1>2. ASSUME NEW p \in Process, DropTypes(p) PROVE Rooted'
  <2>1. /\ UNCHANGED <<runs, overrun, cut, batch, current>>
        /\ table' = IF table = "absent" THEN "absent" ELSE "broken"
        /\ \A k \in Job : status'[k] = IF status[k] = "none" THEN "none" ELSE "lost"
    BY <1>2 DEF DropTypes, history
  <2>2. \A q \in Process, k \in Job : Holds(q, k)' <=> Holds(q, k)
    BY <2>1 DEF Holds, InHand
  <2> QED
    BY <2>1, <2>2 DEF Rooted
<1>3. ASSUME NEW p \in Process, CreateTables(p) PROVE Rooted'
  <2>1. /\ UNCHANGED <<runs, overrun, cut, batch, current, status>>
        /\ table' = table \/ (table # "broken" /\ table' = "ready")
    BY <1>3 DEF CreateTables, rows, history
  <2>2. \A q \in Process, k \in Job : Holds(q, k)' <=> Holds(q, k)
    BY <2>1 DEF Holds, InHand
  <2> QED
    BY <2>1, <2>2 DEF Rooted
<1>4. ASSUME NEW p \in Process, Claim(p) PROVE Rooted'
  <2>1. /\ UNCHANGED <<table, runs, overrun, cut, current>> /\ table = "ready"
        /\ batch' = [batch EXCEPT ![p] = {[job |-> j, attempt |-> attempts[j] + 1] : j \in Chosen}]
    BY <1>4 DEF Claim, history
  <2>2. \A k \in Job : status'[k] = IF k \in Chosen THEN "running" ELSE status[k]
    BY <1>4 DEF Claim
  <2>3. \A q \in Process, k \in Job : Holds(q, k)' => Holds(q, k) \/ k \in Chosen
    <3>1. \A q \in Process : q # p => batch'[q] = batch[q] BY <2>1
    <3>2. \A f \in batch'[p] : f.job \in Chosen BY <2>1
    <3> QED BY <2>1, <3>1, <3>2 DEF Holds, InHand
  <2> QED
    BY <2>1, <2>2, <2>3 DEF Rooted
<1>5. ASSUME NEW p \in Process, StartHandler(p) PROVE Rooted'
  <2>1. PICK e \in batch[p] : /\ e.job \notin Unhandled
                              /\ batch' = [batch EXCEPT ![p] = @ \ {e}]
                              /\ current' = [current EXCEPT ![p] = {e}]
                              /\ runs' = [runs EXCEPT ![e.job] = @ + 1]
    BY <1>5 DEF StartHandler
  <2>2. UNCHANGED <<table, status, overrun, cut>>
    BY <1>5 DEF StartHandler, rows
  <2>3. \A q \in Process, k \in Job : Holds(q, k)' => Holds(q, k)
    BY <2>1 DEF Holds, InHand
  <2>4. e.job \in Job /\ Holds(p, e.job)
    BY DEF Holds, InHand, Entry
  <2>5. \A k \in Job : k # e.job => runs'[k] = runs[k]
    BY <2>1
  <2> QED
    BY <2>1, <2>2, <2>3, <2>4, <2>5, JobQueueAssumption DEF Rooted
<1>6. ASSUME NEW p \in Process, NEW e \in InHand(p), NEW s \in Final, Ends(e.job, s),
             InHand(p)' \subseteq InHand(p),
             \A q \in Process : q # p => InHand(q)' = InHand(q),
             table = "ready", UNCHANGED <<runs, table, overrun, cut>>
      PROVE  Rooted'
  <2>1. \A k \in Job : status'[k] = status[k] \/ status'[k] \in Final
    BY <1>6 DEF Ends
  <2> QED
    BY <1>6, <2>1, RootedWhenFewer DEF Final
<1>7. ASSUME NEW p \in Process, NEW s, Leaves(p, s), UNCHANGED <<runs, table, overrun, status>>,
             cut' = cut \/ CutOff(p)
      PROVE  Rooted'
  <2>1. \A q \in Process : InHand(q)' \subseteq InHand(q)
    BY <1>7 DEF Leaves, InHand
  <2>2. \A j \in cut' : j \in cut \/ Holds(p, j)
    BY <1>7 DEF CutOff, Holds, InHand
  <2> QED
    BY <1>7, <2>1, <2>2, RootedWhenFewer
<1>8. ASSUME NEW p \in Process, NoHandler(p) PROVE Rooted'
  <2>1. PICK e \in batch[p] :
          \/ /\ table = "ready" /\ Ends(e.job, "failed")
             /\ batch' = [batch EXCEPT ![p] = @ \ {e}] /\ UNCHANGED <<pc, current>>
          \/ UNCHANGED rows /\ Leaves(p, "polling")
    BY <1>8 DEF NoHandler
  <2>2. UNCHANGED <<runs, table, overrun, cut>>
    BY <1>8 DEF NoHandler, history
  <2>3. CASE /\ table = "ready" /\ Ends(e.job, "failed")
             /\ batch' = [batch EXCEPT ![p] = @ \ {e}] /\ UNCHANGED <<pc, current>>
    <3>1. /\ e \in InHand(p) /\ InHand(p)' \subseteq InHand(p)
          /\ \A q \in Process : q # p => InHand(q)' = InHand(q)
      BY <2>3 DEF InHand
    <3> QED
      BY <1>6, <2>2, <2>3, <3>1 DEF Final
  <2>4. CASE UNCHANGED rows /\ Leaves(p, "polling")
    BY <1>7, <2>2, <2>4 DEF rows
  <2> QED
    BY <2>1, <2>3, <2>4
<1>9. ASSUME NEW p \in Process, Succeeds(p) PROVE Rooted'
  <2>1. UNCHANGED <<runs, table, overrun, cut, status, batch, current>>
    BY <1>9 DEF Succeeds, rows
  <2> QED
    BY <2>1, RootedWhenFewer DEF InHand
<1>10. ASSUME NEW p \in Process, Complete(p) \/ Fails(p) PROVE Rooted'
  <2>1. PICK e \in current[p] :
          \/ /\ table = "ready" /\ GoesOn(p)
             /\ Ends(e.job, "completed") \/ Ends(e.job, "failed")
          \/ UNCHANGED rows /\ Leaves(p, "polling")
    BY <1>10 DEF Complete, Fails
  <2>2. UNCHANGED <<runs, table, overrun, cut>>
    BY <1>10 DEF Complete, Fails, history
  <2>3. CASE table = "ready" /\ GoesOn(p) /\ (Ends(e.job, "completed") \/ Ends(e.job, "failed"))
    <3>1. /\ e \in InHand(p) /\ InHand(p)' \subseteq InHand(p)
          /\ \A q \in Process : q # p => InHand(q)' = InHand(q)
      BY <2>3 DEF InHand, GoesOn
    <3> QED
      BY <1>6, <2>2, <2>3, <3>1 DEF Final
  <2>4. CASE UNCHANGED rows /\ Leaves(p, "polling")
    BY <1>7, <2>2, <2>4 DEF rows
  <2> QED
    BY <2>1, <2>3, <2>4
<1>11. ASSUME NEW p \in Process, CompleteRaises(p) \/ Stop(p) PROVE Rooted'
  BY <1>7, <1>11 DEF CompleteRaises, Stop, rows
<1>overruled. ASSUME NEW p \in Process, CompleteOverruled(p) PROVE Rooted'
  <2>1. PICK e \in current[p] : table = "ready" /\ GoesOn(p) /\ Ends(e.job, "failed")
    BY <1>overruled DEF CompleteOverruled
  <2>2. UNCHANGED <<runs, table, overrun>> /\ CutOff(p)
    BY <1>overruled DEF CompleteOverruled
  <2>3. \A q \in Process : InHand(q)' \subseteq InHand(q)
    BY <2>1 DEF GoesOn, InHand
  <2>4. \A j \in cut' : j \in cut \/ Holds(p, j)
    BY <2>2 DEF CutOff, Holds, InHand
  <2>5. \A k \in Job : status'[k] = status[k] \/ status'[k] = "failed"
    BY <2>1 DEF Ends
  <2> QED
    BY <2>1, <2>2, <2>3, <2>4, <2>5, RootedWhenFewer
<1>12. ASSUME NEW j \in Job, LeaseExpires(j) PROVE Rooted'
  <2>1. /\ UNCHANGED <<runs, table, cut, status, batch, current>>
        /\ \A k \in overrun' : k \in overrun \/ \E p \in Process : Holds(p, k)
    BY <1>12 DEF LeaseExpires, procs
  <2> QED
    BY <2>1, RootedWhenFewer DEF InHand
<1>13. CASE (\E j \in Job : ComesDue(j)) \/ UNCHANGED vars
  <2>1. UNCHANGED <<runs, table, overrun, cut, status, batch, current>>
    BY <1>13 DEF ComesDue, vars, rows, procs, history
  <2> QED
    BY <2>1, RootedWhenFewer DEF InHand
<1> QED
  BY <1>1, <1>2, <1>3, <1>4, <1>5, <1>8, <1>9, <1>10, <1>11, <1>overruled, <1>12, <1>13
  DEF Next, Step
-------------------------------------------------------------------------------
life == [j \in Job |-> LifeOf(j)]

\* What a step shows: a step of BackgroundJobs, or none.
Kept == J!Next \/ UNCHANGED <<life, runs>>

\* A step of process p is about job j: it changes nothing another job's life depends on.
About(p, j) ==
  /\ \A q \in Process \ {p} : pc'[q] = pc[q] /\ current'[q] = current[q]
  /\ \A e \in current[p] \cup current'[p] : e.job = j
  /\ \A k \in Job \ {j} : /\ status'[k] = status[k]
                          /\ k \in overrun' \cup cut' <=> k \in overrun \cup cut

\* Where neither rows, nor what is lost, nor who runs what changes, no life changes.
LEMMA SameLife ==
  ASSUME NEW k \in Job, status'[k] = status[k],
         k \in overrun' \cup cut' <=> k \in overrun \cup cut,
         At("running", k)' <=> At("running", k),
         At("succeeded", k)' <=> At("succeeded", k)
  PROVE  LifeOf(k)' = LifeOf(k)
BY DEF LifeOf, Lost

LEMMA OneLife ==
  ASSUME NEW p \in Process, NEW j \in Job, About(p, j)
  PROVE  life' = [life EXCEPT ![j] = LifeOf(j)']
<1>1. ASSUME NEW k \in Job \ {j} PROVE LifeOf(k)' = LifeOf(k)
  <2>1. ASSUME NEW s PROVE At(s, k)' <=> At(s, k)
    BY DEF About, At
  <2> QED
    BY <2>1, SameLife DEF About
<1> QED
  BY <1>1 DEF life

\* A job that a process has in hand, and that is not lost track of, is running in no
\* other process, and its life is told by where this process is with it.
LEMMA OwnHand ==
  ASSUME IInv, NEW p \in Process, NEW e \in InHand(p), ~ Lost(e.job)
  PROVE  /\ status[e.job] = "running"
         /\ \A q \in Process \ {p} : \A f \in current[q] : f.job # e.job
         /\ e \in batch[p] => LifeOf(e.job) = "open"
         /\ e \in current[p] => pc[p] \in {"running", "succeeded"} /\ LifeOf(e.job) = pc[p]
<1> USE DEF IInv, TypeOK
<1>1. e.job \in Job /\ Holds(p, e.job) /\ e.job \notin overrun
  BY DEF InHand, Entry, Holds, Lost
<1>2. status[e.job] = "running"
  BY <1>1 DEF Leased, Lost
<1>3. \A q \in Process \ {p} : \A f \in current[q] : f.job # e.job
  BY <1>1 DEF ExclusiveUnlessOverrun, Holds, InHand
<1>4. \A f \in current[p] : f.job = e.job => f = e
  BY DEF Once, InHand
<1>5. ASSUME NEW s PROVE At(s, e.job) <=> pc[p] = s /\ e \in current[p]
  BY <1>3, <1>4 DEF At
<1>6. e \in batch[p] => LifeOf(e.job) = "open"
  BY <1>1, <1>2, <1>5 DEF LifeOf, Final, Orderly
<1>7. e \in current[p] => pc[p] \in {"running", "succeeded"}
  BY DEF Orderly
<1>8. e \in current[p] => LifeOf(e.job) = pc[p]
  BY <1>1, <1>2, <1>5, <1>7 DEF LifeOf, Final
<1> QED
  BY <1>2, <1>3, <1>6, <1>7, <1>8

\* The steps that make no new run, told by one job's life before and after.
LEMMA OneMove ==
  ASSUME NEW j \in Job, UNCHANGED runs, life' = [life EXCEPT ![j] = LifeOf(j)'],
         \/ LifeOf(j)' = LifeOf(j)
         \/ LifeOf(j) = "running" /\ LifeOf(j)' \in {"open", "succeeded", "failed"}
         \/ LifeOf(j) = "succeeded" /\ LifeOf(j)' = "completed"
         \/ LifeOf(j) = "open" /\ runs[j] = 0 /\ LifeOf(j)' = "failed"
         \/ LifeOf(j) # "none" /\ LifeOf(j)' = "unknown"
  PROVE  Kept
<1>0. life[j] = LifeOf(j) /\ life = [k \in Job |-> life[k]]
  BY DEF life
<1>1. CASE LifeOf(j)' = LifeOf(j)
  BY <1>0, <1>1 DEF Kept
<1>2. CASE LifeOf(j) = "running" /\ LifeOf(j)' \in {"open", "succeeded", "failed"}
  <2>1. J!Break(j) \/ J!Succeed(j) \/ J!GiveUp(j)
    BY <1>0, <1>2 DEF J!Break, J!Succeed, J!GiveUp, J!Becomes, life
  <2> QED
    BY <2>1 DEF J!Next, Kept
<1>3. CASE LifeOf(j) = "succeeded" /\ LifeOf(j)' = "completed"
  <2>1. J!Record(j)
    BY <1>0, <1>3 DEF J!Record, J!Becomes, life
  <2> QED
    BY <2>1 DEF J!Next, Kept
<1>4. CASE LifeOf(j) = "open" /\ runs[j] = 0 /\ LifeOf(j)' = "failed"
  <2>1. J!GiveUp(j)
    BY <1>0, <1>4 DEF J!GiveUp, J!Becomes, life
  <2> QED
    BY <2>1 DEF J!Next, Kept
<1>5. CASE LifeOf(j) # "none" /\ LifeOf(j)' = "unknown"
  <2>1. {j} \in SUBSET {k \in Job : life[k] # "none"}
    BY <1>0, <1>5
  <2>2. life' = [k \in Job |-> IF k \in {j} THEN "unknown" ELSE life[k]]
    BY <1>0, <1>5
  <2>3. J!Lose
    BY <2>1, <2>2 DEF J!Lose, life
  <2> QED
    BY <2>3 DEF J!Next, Kept
<1> QED
  BY <1>1, <1>2, <1>3, <1>4, <1>5

\* A step that changes no life and makes no run is none.
LEMMA NoMove ==
  ASSUME UNCHANGED runs, \A k \in Job : LifeOf(k)' = LifeOf(k)
  PROVE  Kept
BY DEF Kept, life

\* A process that leaves its batch breaks the run off; if it had succeeded, track is lost.
LEMMA LeavesKept ==
  ASSUME IInv, Rooted, NEW p \in Process, NEW s \in {"polling", "down"}, Leaves(p, s),
         UNCHANGED <<status, runs, overrun>>,
         CutOff(p) \/ (UNCHANGED cut /\ pc[p] # "succeeded")
  PROVE  Kept
<1> USE DEF IInv, TypeOK
<1>1. /\ \A q \in Process \ {p} : pc'[q] = pc[q] /\ current'[q] = current[q]
      /\ pc'[p] = s /\ current'[p] = {}
  BY DEF Leaves, Goes
<1>2. cut' = cut \cup {e.job : e \in {x \in current[p] : pc[p] = "succeeded"}}
  BY DEF CutOff
<1>3. CASE current[p] = {}
  <2>1. cut' = cut
    BY <1>2, <1>3
  <2>2. ASSUME NEW k \in Job, NEW t PROVE At(t, k)' <=> At(t, k)
    BY <1>1, <1>3 DEF At
  <2>3. \A k \in Job : LifeOf(k)' = LifeOf(k)
    BY <2>1, <2>2, SameLife
  <2> QED
    BY <2>3, NoMove
<1>4. ASSUME NEW e \in current[p] PROVE Kept
  <2> DEFINE j == e.job
  <2>1. /\ e \in InHand(p) /\ j \in Job /\ \A f \in current[p] : f = e
        /\ pc[p] \in {"running", "succeeded"}
    BY DEF InHand, Entry, Orderly
  <2>2. cut' = IF pc[p] = "succeeded" THEN cut \cup {j} ELSE cut
    BY <1>2, <2>1
  <2>3. About(p, j)
    BY <1>1, <2>1, <2>2 DEF About
  <2>4. life' = [life EXCEPT ![j] = LifeOf(j)']
    BY <2>1, <2>3, OneLife
  <2>5. status[j] # "none"
    BY <2>1 DEF Rooted, Holds
  <2>6. CASE Lost(j)
    <3>1. LifeOf(j) = "unknown" /\ LifeOf(j)' = "unknown"
      BY <2>2, <2>5, <2>6 DEF LifeOf, Lost
    <3> QED
      BY <2>1, <2>4, <3>1, OneMove
  <2>7. CASE ~ Lost(j)
    <3>1. /\ status[j] = "running" /\ LifeOf(j) = pc[p]
          /\ \A q \in Process \ {p} : \A f \in current[q] : f.job # j
      BY <2>1, <2>7, OwnHand
    <3>2. ASSUME NEW t PROVE ~ At(t, j)'
      BY <1>1, <3>1 DEF At
    <3>3. CASE pc[p] = "running"
      <4>1. LifeOf(j)' = "open"
        BY <2>2, <2>7, <3>1, <3>2, <3>3 DEF LifeOf, Lost, Final
      <4> QED
        BY <2>1, <2>4, <3>1, <3>3, <4>1, OneMove
    <3>4. CASE pc[p] = "succeeded"
      <4>1. LifeOf(j)' = "unknown"
        BY <2>2, <3>1, <3>4 DEF LifeOf, Lost
      <4> QED
        BY <2>1, <2>4, <3>1, <3>4, <4>1, OneMove
    <3> QED
      BY <2>1, <3>3, <3>4
  <2> QED
    BY <2>6, <2>7
<1> QED
  BY <1>3, <1>4

\* A verdict of its holder: on the run it makes, or on a job that has no handler.
LEMMA VerdictKept ==
  ASSUME IInv, Rooted, NEW p \in Process, NEW e \in InHand(p), NEW s \in Final,
         Ends(e.job, s), table = "ready", UNCHANGED <<runs, overrun, cut>>,
         About(p, e.job),
         \/ e \in current[p] /\ pc[p] = "running" /\ s = "failed"
         \/ e \in current[p] /\ pc[p] = "succeeded" /\ s = "completed"
         \/ e \in batch[p] /\ e.job \in Unhandled /\ s = "failed"
  PROVE  Kept
<1> USE DEF IInv, TypeOK
<1> DEFINE j == e.job
<1>1. j \in Job /\ Holds(p, j)
  BY DEF InHand, Entry, Holds
<1>2. life' = [life EXCEPT ![j] = LifeOf(j)']
  BY <1>1, OneLife
<1>3. status'[j] = s /\ status[j] \notin {"none", "lost"}
  BY <1>1 DEF Ends, Rooted
<1>4. CASE Lost(j)
  <2>1. LifeOf(j) = "unknown" /\ LifeOf(j)' = "unknown"
    BY <1>3, <1>4 DEF LifeOf, Lost, Final
  <2> QED
    BY <1>1, <1>2, <2>1, OneMove
<1>5. CASE ~ Lost(j)
  <2>1. LifeOf(j)' = s
    BY <1>3, <1>5 DEF LifeOf, Lost, Final
  <2>2. CASE e \in current[p]
    <3>1. LifeOf(j) = pc[p]
      BY <1>5, <2>2, OwnHand
    <3>2. CASE pc[p] = "running" /\ s = "failed"
      BY <1>1, <1>2, <2>1, <3>1, <3>2, OneMove
    <3>3. CASE pc[p] = "succeeded" /\ s = "completed"
      BY <1>1, <1>2, <2>1, <3>1, <3>3, OneMove
    <3> QED
      BY <2>2, <3>2, <3>3 DEF Orderly
  <2>3. CASE e \in batch[p] /\ j \in Unhandled /\ s = "failed"
    <3>1. LifeOf(j) = "open" /\ runs[j] = 0
      BY <1>5, <2>3, OwnHand DEF Rooted
    <3> QED
      BY <1>1, <1>2, <2>1, <2>3, <3>1, OneMove
  <2> QED
    BY <2>2, <2>3
<1> QED
  BY <1>4, <1>5

\* The success of the last attempt is on record as a failure: track of the job is lost.
LEMMA OverruledKept ==
  ASSUME IInv, Rooted, NEW p \in Process, CompleteOverruled(p)
  PROVE  Kept
<1> USE DEF IInv, TypeOK
<1>1. PICK e \in current[p] : Ends(e.job, "failed") /\ GoesOn(p)
  BY DEF CompleteOverruled
<1> DEFINE j == e.job
<1>2. /\ j \in Job /\ Holds(p, j) /\ \A f \in current[p] : f = e
      /\ pc[p] = "succeeded" /\ UNCHANGED <<runs, overrun>>
  BY DEF InHand, Entry, Holds, Orderly, CompleteOverruled
<1>3. cut' = cut \cup {j}
  BY <1>1, <1>2 DEF CompleteOverruled, CutOff
<1>4. About(p, j)
  BY <1>1, <1>2, <1>3 DEF About, GoesOn, Goes, Ends
<1>5. life' = [life EXCEPT ![j] = LifeOf(j)']
  BY <1>2, <1>4, OneLife
<1>6. status[j] # "none" /\ status'[j] = "failed"
  BY <1>1, <1>2 DEF Rooted, Ends
<1>7. LifeOf(j) # "none"
  BY <1>6 DEF LifeOf, Final
<1>8. LifeOf(j)' = "unknown"
  BY <1>3, <1>6 DEF LifeOf, Lost
<1> QED
  BY <1>2, <1>5, <1>7, <1>8, OneMove

\* A handler is started: a run of an open job, or of one that is lost track of.
LEMMA StartKept ==
  ASSUME IInv, IInv', Rooted, NEW p \in Process, StartHandler(p)
  PROVE  Kept
<1> USE DEF IInv, TypeOK
<1>1. PICK e \in batch[p] : /\ current' = [current EXCEPT ![p] = {e}]
                            /\ runs' = [runs EXCEPT ![e.job] = @ + 1]
  BY DEF StartHandler
<1> DEFINE j == e.job
<1>2. /\ e \in InHand(p) /\ j \in Job /\ Holds(p, j)
      /\ pc[p] = "polling" /\ pc' = [pc EXCEPT ![p] = "running"] /\ current[p] = {}
      /\ UNCHANGED <<status, overrun, cut>>
  BY DEF InHand, Entry, Holds, StartHandler, Goes, Orderly, rows
<1>3. About(p, j)
  BY <1>1, <1>2 DEF About
<1>4. life' = [life EXCEPT ![j] = LifeOf(j)']
  BY <1>2, <1>3, OneLife
<1>5. runs[j] < MaxAttempts
  <2>1. runs'[j] = runs[j] + 1 /\ runs[j] \in Nat /\ attempts'[j] \in 0..MaxAttempts
    BY <1>1, <1>2
  <2>2. Cardinality(Pending(j))' \in Nat
    BY <1>2, FS_Subset, FS_CardinalityType, JobQueueAssumption DEF Pending
  <2>3. runs'[j] + Cardinality(Pending(j))' <= attempts'[j]
    BY <1>2 DEF Paid
  <2> QED
    BY <2>1, <2>2, <2>3, JobQueueAssumption
<1>6. J!Start(j)
  <2>1. CASE Lost(j)
    <3>1. LifeOf(j) = "unknown" /\ LifeOf(j)' = "unknown"
      BY <1>2, <2>1 DEF LifeOf, Lost, Rooted
    <3>2. life[j] = "unknown" /\ life' = life
      BY <1>2, <1>4, <3>1 DEF life
    <3> QED
      BY <1>1, <1>5, <3>2 DEF J!Start, life
  <2>2. CASE ~ Lost(j)
    <3>1. status[j] = "running" /\ LifeOf(j) = "open"
          /\ \A q \in Process \ {p} : \A f \in current[q] : f.job # j
      BY <1>2, <2>2, OwnHand
    <3>2. At("running", j)' /\ ~ At("succeeded", j)'
      <4>1. pc'[p] = "running" /\ current'[p] = {e}
        BY <1>1, <1>2
      <4>2. \A q \in Process \ {p} : current'[q] = current[q]
        BY <1>1
      <4> QED
        BY <3>1, <4>1, <4>2 DEF At
    <3>3. LifeOf(j)' = "running"
      BY <1>2, <2>2, <3>1, <3>2 DEF LifeOf, Lost, Final
    <3>4. life[j] = "open" /\ J!Becomes(j, "running")
      BY <1>2, <1>4, <3>1, <3>3 DEF life, J!Becomes
    <3> QED
      BY <1>1, <1>5, <3>4 DEF J!Start, life
  <2> QED
    BY <2>1, <2>2
<1> QED
  BY <1>2, <1>6 DEF Kept, J!Next

LEMMA EnqueueKept ==
  ASSUME IInv, Rooted, NEW j \in Job, NEW s \in BOOLEAN, Enqueue(j, s)
  PROVE  Kept
<1> USE DEF IInv, TypeOK
<1>1. /\ status[j] = "none" /\ UNCHANGED <<overrun, cut, pc, current, runs>>
      /\ status' = [status EXCEPT ![j] = IF s THEN "pending" ELSE "queued"]
      /\ \A k \in Job : status[k] # "none" => KeyOf[k] # KeyOf[j] \/ KeyOf[j] = NoKey
  BY DEF Enqueue, procs, history
<1>2. \A k \in Job : LifeOf(k) # "none" => status[k] # "none"
  BY DEF LifeOf
<1>3. ASSUME NEW k \in Job \ {j} PROVE LifeOf(k)' = LifeOf(k)
  <2>1. ASSUME NEW t PROVE At(t, k)' <=> At(t, k)
    BY <1>1 DEF At
  <2> QED
    BY <1>1, <2>1, SameLife
<1>4. LifeOf(j) = "none"
  BY <1>1 DEF LifeOf
<1>5. LifeOf(j)' = "open"
  <2>1. j \notin overrun \cup cut /\ \A p \in Process : ~ Holds(p, j)
    BY <1>1 DEF Rooted
  <2>2. ASSUME NEW t PROVE ~ At(t, j)'
    BY <1>1, <2>1 DEF At, Holds, InHand
  <2> QED
    BY <1>1, <2>1, <2>2 DEF LifeOf, Lost, Final
<1>6. J!Becomes(j, "open")
  BY <1>3, <1>5 DEF J!Becomes, life
<1>7. J!Accept(j)
  BY <1>1, <1>2, <1>4, <1>6 DEF J!Accept
<1> QED
  BY <1>7 DEF Kept, J!Next

\* With the columns of its row, track of every job is lost.
LEMMA DropTypesKept ==
  ASSUME IInv, Rooted, NEW p \in Process, DropTypes(p)
  PROVE  Kept
<1> USE DEF IInv, TypeOK
<1>1. /\ \A k \in Job : status'[k] = IF status[k] = "none" THEN "none" ELSE "lost"
      /\ UNCHANGED runs
  BY DEF DropTypes, history
<1>2. \A k \in Job : /\ LifeOf(k) = "none" <=> status[k] = "none"
                     /\ LifeOf(k)' = IF status[k] = "none" THEN "none" ELSE "unknown"
  BY <1>1 DEF LifeOf, Lost, Final
<1> DEFINE L == {k \in Job : life[k] # "none"}
<1>3. life' = [k \in Job |-> IF k \in L THEN "unknown" ELSE life[k]]
  BY <1>2 DEF life
<1>4. L \in SUBSET {k \in Job : life[k] # "none"}
  OBVIOUS
<1>5. J!Lose
  BY <1>1, <1>3, <1>4 DEF J!Lose, life
<1> QED
  BY <1>5 DEF Kept, J!Next

\* A claim marks open jobs as running; that shows only when they are started.
LEMMA ClaimKept ==
  ASSUME IInv, NEW p \in Process, Claim(p)
  PROVE  Kept
<1> USE DEF IInv, TypeOK
<1>1. UNCHANGED <<pc, current, overrun, cut, runs>>
  BY DEF Claim, history
<1>2. \A k \in Job : status'[k] = IF k \in Chosen THEN "running" ELSE status[k]
  BY DEF Claim
<1>3. ASSUME NEW k \in Job, NEW t PROVE At(t, k)' <=> At(t, k)
  BY <1>1 DEF At
<1>4. ASSUME NEW k \in Chosen PROVE LifeOf(k)' = LifeOf(k)
  <2>1. k \in Job /\ status[k] \in {"pending", "queued", "running"} /\ status'[k] = "running"
    BY <1>2 DEF Chosen, Claimable
  <2> QED
    BY <1>1, <1>3, <2>1 DEF LifeOf, Lost, Final
<1>5. ASSUME NEW k \in Job \ Chosen PROVE LifeOf(k)' = LifeOf(k)
  BY <1>1, <1>2, <1>3, <1>5, SameLife
<1> QED
  BY <1>1, <1>4, <1>5, NoMove

\* Every step is one that BackgroundJobs allows.
LEMMA KeptStep == IInv /\ IInv' /\ Rooted /\ [Next]_vars => Kept
<1> SUFFICES ASSUME IInv, IInv', Rooted, [Next]_vars PROVE Kept
  OBVIOUS
<1> USE DEF IInv, TypeOK
<1>1. ASSUME NEW j \in Job, NEW s \in BOOLEAN, Enqueue(j, s) PROVE Kept
  BY <1>1, EnqueueKept
<1>2. ASSUME NEW p \in Process, DropTypes(p) PROVE Kept
  BY <1>2, DropTypesKept
<1>3. ASSUME NEW p \in Process, CreateTables(p) PROVE Kept
  <2>1. /\ UNCHANGED <<status, overrun, cut, runs, current>>
        /\ pc[p] = "starting" /\ current[p] = {}
        /\ \A q \in Process \ {p} : pc'[q] = pc[q]
    BY <1>3 DEF CreateTables, Goes, rows, history, Orderly
  <2>2. ASSUME NEW k \in Job, NEW t PROVE At(t, k)' <=> At(t, k)
    BY <2>1 DEF At
  <2> QED
    BY <2>1, <2>2, SameLife, NoMove
<1>4. ASSUME NEW p \in Process, Claim(p) PROVE Kept
  BY <1>4, ClaimKept
<1>5. ASSUME NEW p \in Process, StartHandler(p) PROVE Kept
  BY <1>5, StartKept
<1>6. ASSUME NEW p \in Process, NoHandler(p) PROVE Kept
  <2>1. PICK e \in batch[p] :
          /\ e.job \in Unhandled
          /\ \/ /\ table = "ready" /\ Ends(e.job, "failed") /\ UNCHANGED <<pc, current>>
             \/ Leaves(p, "polling") /\ UNCHANGED rows
    BY <1>6 DEF NoHandler
  <2>2. pc[p] = "polling" /\ current[p] = {} /\ UNCHANGED <<runs, overrun, cut>>
    BY <1>6 DEF NoHandler, history, Orderly
  <2>3. CASE table = "ready" /\ Ends(e.job, "failed") /\ UNCHANGED <<pc, current>>
    <3>1. About(p, e.job)
      BY <2>2, <2>3 DEF About, Ends
    <3> QED
      BY <2>1, <2>2, <2>3, <3>1, VerdictKept DEF InHand, Final
  <2>4. CASE Leaves(p, "polling") /\ UNCHANGED rows
    BY <2>2, <2>4, LeavesKept DEF rows
  <2> QED
    BY <2>1, <2>3, <2>4
<1>7. ASSUME NEW p \in Process, Succeeds(p) PROVE Kept
  <2>1. PICK e \in current[p] : TRUE
    BY <1>7 DEF Succeeds
  <2> DEFINE j == e.job
  <2>2. /\ e \in InHand(p) /\ j \in Job /\ \A f \in current[p] : f = e
        /\ UNCHANGED <<status, overrun, cut, runs, current>>
        /\ pc[p] = "running" /\ pc' = [pc EXCEPT ![p] = "succeeded"]
    BY <1>7 DEF Succeeds, Goes, InHand, Entry, Orderly, rows
  <2>3. About(p, j)
    BY <2>2 DEF About
  <2>4. life' = [life EXCEPT ![j] = LifeOf(j)']
    BY <2>2, <2>3, OneLife
  <2>5. CASE Lost(j)
    <3>1. LifeOf(j)' = LifeOf(j)
      BY <2>2, <2>5 DEF LifeOf, Lost
    <3> QED
      BY <2>2, <2>4, <3>1, OneMove
  <2>6. CASE ~ Lost(j)
    <3>1. status[j] = "running" /\ LifeOf(j) = "running"
      BY <2>1, <2>2, <2>6, OwnHand
    <3>2. At("succeeded", j)'
      BY <2>1, <2>2 DEF At
    <3>3. LifeOf(j)' = "succeeded"
      BY <2>2, <2>6, <3>1, <3>2 DEF LifeOf, Lost, Final
    <3> QED
      BY <2>2, <2>4, <3>1, <3>3, OneMove
  <2> QED
    BY <2>5, <2>6
<1>8. ASSUME NEW p \in Process, Complete(p) \/ Fails(p) PROVE Kept
  <2>1. PICK e \in current[p] :
          \/ /\ table = "ready" /\ GoesOn(p)
             /\ \/ pc[p] = "succeeded" /\ Ends(e.job, "completed")
                \/ pc[p] = "running" /\ Ends(e.job, "failed")
          \/ pc[p] = "running" /\ Leaves(p, "polling") /\ UNCHANGED rows
    BY <1>8 DEF Complete, Fails
  <2>2. UNCHANGED <<runs, overrun, cut>> /\ e \in InHand(p)
    BY <1>8 DEF Complete, Fails, history, InHand
  <2>3. CASE /\ table = "ready" /\ GoesOn(p)
             /\ \/ pc[p] = "succeeded" /\ Ends(e.job, "completed")
                \/ pc[p] = "running" /\ Ends(e.job, "failed")
    <3>1. About(p, e.job)
      BY <2>2, <2>3 DEF About, GoesOn, Goes, Ends, Orderly
    <3> QED
      BY <2>1, <2>2, <2>3, <3>1, VerdictKept DEF Final
  <2>4. CASE pc[p] = "running" /\ Leaves(p, "polling") /\ UNCHANGED rows
    BY <2>2, <2>4, LeavesKept DEF rows
  <2> QED
    BY <2>1, <2>3, <2>4
<1>9. ASSUME NEW p \in Process, CompleteRaises(p) \/ Stop(p) PROVE Kept
  BY <1>9, LeavesKept DEF CompleteRaises, Stop, rows
<1>overruled. ASSUME NEW p \in Process, CompleteOverruled(p) PROVE Kept
  BY <1>overruled, OverruledKept
<1>10. ASSUME NEW j \in Job, LeaseExpires(j) PROVE Kept
  <2>1. /\ UNCHANGED <<runs, cut, status, pc, current>> /\ status[j] = "running"
        /\ overrun' = overrun \/ overrun' = overrun \cup {j}
    BY <1>10 DEF LeaseExpires, procs
  <2>2. ASSUME NEW k \in Job, NEW t PROVE At(t, k)' <=> At(t, k)
    BY <2>1 DEF At
  <2>3. CASE Lost(j) \/ overrun' = overrun
    <3>1. \A k \in Job : Lost(k)' <=> Lost(k)
      BY <2>1, <2>3 DEF Lost
    <3>2. \A k \in Job : LifeOf(k)' = LifeOf(k)
      BY <2>1, <2>2, <3>1 DEF LifeOf
    <3> QED
      BY <2>1, <3>2, NoMove
  <2>4. CASE ~ Lost(j) /\ overrun' = overrun \cup {j}
    <3>1. \A k \in Job \ {j} : LifeOf(k)' = LifeOf(k)
      BY <2>1, <2>2, <2>4, SameLife
    <3>2. life' = [life EXCEPT ![j] = LifeOf(j)']
      BY <3>1 DEF life
    <3>3. LifeOf(j) # "none" /\ LifeOf(j)' = "unknown"
      BY <2>1, <2>4 DEF LifeOf, Lost
    <3> QED
      BY <2>1, <3>2, <3>3, OneMove
  <2> QED
    BY <2>1, <2>3, <2>4
<1>11. CASE (\E j \in Job : ComesDue(j)) \/ UNCHANGED vars
  <2>1. UNCHANGED <<runs, overrun, cut, status, pc, current>>
    BY <1>11 DEF ComesDue, vars, rows, procs, history
  <2>2. ASSUME NEW k \in Job, NEW t PROVE At(t, k)' <=> At(t, k)
    BY <2>1 DEF At
  <2> QED
    BY <2>1, <2>2, SameLife, NoMove
<1> QED
  BY <1>1, <1>2, <1>3, <1>4, <1>5, <1>6, <1>7, <1>8, <1>9, <1>overruled, <1>10, <1>11
  DEF Next, Step

\* Claims, leases, batches, crashes and dropped tables included, the queue keeps what
\* BackgroundJobs promises about every job, for any number of jobs and processes: one
\* run at a time and MaxAttempts in all, no second run of a success, final verdicts,
\* except for the jobs it lost track of.
THEOREM QueuePromisesHolds == Spec => QueuePromises
<1>1. Init => Rooted
  BY JobQueueAssumption DEF Init, Rooted, Holds, InHand
<1>2. Init => J!Init
  BY DEF Init, J!Init, LifeOf
<1>3. IInv /\ IInv' /\ Rooted /\ [Next]_vars => [J!Next]_J!vars
  BY KeptStep DEF Kept, J!vars, life
<1> QED
  BY <1>1, <1>2, <1>3, RootedStep, Invariance, PTL DEF Spec, QueuePromises, J!Spec
===============================================================================
