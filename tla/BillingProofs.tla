------------------------------ MODULE BillingProofs ------------------------------
(***************************************************************************)
(* Theorems about Billing, for any number of subscriptions, requests,      *)
(* events and rows.                                                        *)
(***************************************************************************)
EXTENDS Billing, TLAPS

LEMMA TypeInit == Init => TypeOK
<1> SUFFICES ASSUME Init PROVE TypeOK
  OBVIOUS
<1>1. sent \in Seq(Event) /\ Len(sent) = 0 BY DEF Init
<1>2. plan \in Plan /\ billing \in [status : SubStatus, sub : Sub \cup {NoSub}]
  BY DEF Init, Plan, SubStatus
<1>3. swipe \in [Client -> [at : {"idle", "begun", "allowed"}, limit : Nat]]
  BY DEF Init, NoSwipe
<1>4. subscription \in [Sub -> SubStatus] BY DEF Init, SubStatus
<1>5. applied \in [1..MaxEvents -> 0..2] BY DEF Init
<1>6. faults \in 0..MaxFaults /\ Len(sent) <= MaxEvents BY <1>1, BillingAssumption DEF Init
<1>7. unacked \subseteq Sent /\ processed \subseteq Sent /\ overran \subseteq Client
  BY DEF Init
<1>8. handling \in [Handler -> {0} \cup Sent] BY DEF Init
<1>9. rows \in Nat BY DEF Init
<1>10. reordered \in BOOLEAN /\ overlapped \in BOOLEAN /\ lapsed \in BOOLEAN BY DEF Init
<1> QED BY <1>1, <1>2, <1>3, <1>4, <1>5, <1>6, <1>7, <1>8, <1>9, <1>10 DEF TypeOK

LEMMA PlanAfterType == ASSUME TypeOK, NEW e \in Event PROVE PlanAfter(e) \in Plan
BY BillingAssumption DEF TypeOK, PlanAfter, Plan, PaidPlan, Event

LEMMA BillingAfterType ==
  ASSUME TypeOK, NEW e \in Event
  PROVE  BillingAfter(e) \in [status : SubStatus, sub : Sub \cup {NoSub}]
<1>1. StatusAfter(e) \in SubStatus
  BY DEF StatusAfter, SubStatus, Event
<1> QED
  BY <1>1 DEF TypeOK, BillingAfter, Event

\* Stripe's steps keep the types: the new event is numbered next.
LEMMA TellsType ==
  ASSUME TypeOK, NEW s \in Sub, NEW status \in SubStatus, NEW type \in EventType,
         Tells(type, s, status), overlapped' \in BOOLEAN, lapsed' \in BOOLEAN
  PROVE  TypeOK'
<1> DEFINE e == [type |-> type, sub |-> s, status |-> status]
<1>1. e \in Event BY DEF Event
<1>2. sent' = Append(sent, e) /\ Len(sent) < MaxEvents /\ sent \in Seq(Event)
  BY DEF Tells, TypeOK
<1>3. sent' \in Seq(Event) /\ Len(sent') = Len(sent) + 1 BY <1>1, <1>2
<1>4. Sent \subseteq Sent' /\ Len(sent) + 1 \in Sent' /\ Len(sent') <= MaxEvents
  BY <1>2, <1>3, BillingAssumption DEF Sent
<1>5. unacked' \subseteq Sent' BY <1>4 DEF Tells, TypeOK
<1>6. subscription' \in [Sub -> SubStatus] BY DEF Tells, TypeOK
<1> QED BY <1>3, <1>4, <1>5, <1>6 DEF Tells, TypeOK, tenant, quota

LEMMA TypeStep == TypeOK /\ [Next]_vars => TypeOK'
<1> SUFFICES ASSUME TypeOK, [Next]_vars PROVE TypeOK'
  OBVIOUS
<1>1. ASSUME NEW s \in Sub, CheckOut(s) PROVE TypeOK'
  <2>1. PICK status \in {"active", "trialing"} : Tells("checkout", s, status)
    BY <1>1 DEF CheckOut
  <2>2. status \in SubStatus /\ "checkout" \in EventType BY DEF SubStatus, EventType
  <2>3. lapsed' \in BOOLEAN BY <1>1 DEF CheckOut, TypeOK
  <2>4. overlapped' \in BOOLEAN BY <1>1, Zenon DEF CheckOut, TypeOK
  <2> QED BY <2>1, <2>2, <2>3, <2>4, TellsType
<1>2. ASSUME NEW s \in Sub, Changes(s) PROVE TypeOK'
  <2>1. PICK r \in Reports : Tells(r.type, s, r.status) /\ lapsed' = (lapsed \/ r.status = "unpaid")
    BY <1>2 DEF Changes
  <2>2. r.status \in SubStatus /\ r.type \in EventType BY DEF Reports, SubStatus, EventType
  <2>3. overlapped' \in BOOLEAN BY <1>2 DEF Changes, TypeOK
  <2>4. lapsed' \in BOOLEAN BY <2>1, Zenon DEF TypeOK
  <2> QED BY <2>1, <2>2, <2>3, <2>4, TellsType
<1>3. ASSUME NEW h \in Handler, Deliver(h) PROVE TypeOK'
  <2>1. PICK i \in unacked : \/ unacked' = unacked \ {i} /\ UNCHANGED handling
                             \/ handling' = [handling EXCEPT ![h] = i] /\ UNCHANGED unacked
    BY <1>3 DEF Deliver
  <2>2. i \in Sent BY DEF TypeOK
  <2>3. unacked' \subseteq Sent /\ handling' \in [Handler -> {0} \cup Sent]
    BY <2>1, <2>2 DEF TypeOK
  <2>4. UNCHANGED <<subscription, sent, overlapped, lapsed, plan, billing, processed, applied,
                    reordered, faults, rows, swipe, overran>>
    BY <1>3 DEF Deliver, quota
  <2> QED BY <2>3, <2>4 DEF TypeOK, Sent
<1>4. ASSUME NEW h \in Handler, Commit(h) PROVE TypeOK'
  <2> DEFINE i == handling[h]
             e == sent[i]
  <2>1. i \in Sent BY <1>4 DEF Commit, TypeOK
  <2>2. i \in 1..MaxEvents /\ e \in Event BY <2>1, BillingAssumption DEF TypeOK, Sent
  <2>3. plan' \in Plan /\ billing' \in [status : SubStatus, sub : Sub \cup {NoSub}]
    BY <1>4, <2>2, PlanAfterType, BillingAfterType DEF Commit
  <2>4. applied' \in [1..MaxEvents -> 0..2] BY <1>4, <2>2 DEF Commit, TypeOK
  <2>5. processed' \subseteq Sent /\ unacked' \subseteq Sent BY <1>4, <2>1 DEF Commit, TypeOK
  <2>6. overran' \subseteq Client BY <1>4 DEF Commit, Forgets, TypeOK
  <2>7. faults' \in 0..MaxFaults BY <1>4, BillingAssumption DEF Commit, Budgeted, TypeOK
  <2>8. reordered' \in BOOLEAN BY <1>4, Zenon DEF Commit, TypeOK
  <2>9. handling' \in [Handler -> {0} \cup Sent] BY <1>4 DEF Commit, TypeOK
  <2> QED BY <1>4, <2>3, <2>4, <2>5, <2>6, <2>7, <2>8, <2>9 DEF Commit, TypeOK, Sent
<1>5. ASSUME NEW h \in Handler, RollBack(h) PROVE TypeOK'
  BY <1>5, BillingAssumption DEF RollBack, Budgeted, TypeOK, Sent, stripe, quota
<1>6. ASSUME NEW c \in Client, BeginSwipe(c) PROVE TypeOK'
  <2>1. Limit[plan] \in Nat BY BillingAssumption DEF TypeOK
  <2> QED BY <1>6, <2>1 DEF BeginSwipe, TypeOK, Sent, stripe, tenant
<1>7. ASSUME NEW c \in Client, CheckQuota(c) PROVE TypeOK'
  BY <1>7 DEF CheckQuota, TypeOK, Sent, stripe, tenant, NoSwipe
<1>8. ASSUME NEW c \in Client, InsertRow(c) PROVE TypeOK'
  BY <1>8 DEF InsertRow, TypeOK, Sent, stripe, tenant, NoSwipe
<1>9. CASE Reject BY <1>9 DEF Reject, TypeOK, Sent, stripe, tenant
<1>10. CASE UndoRow BY <1>10 DEF UndoRow, TypeOK, Sent, stripe, tenant
<1>11. CASE UNCHANGED vars BY <1>11 DEF vars, TypeOK, Sent, stripe, tenant, quota
<1> QED BY <1>1, <1>2, <1>3, <1>4, <1>5, <1>6, <1>7, <1>8, <1>9, <1>10, <1>11 DEF Next, Webhook

\* Every variable of the tenant's plan, of the webhook and of the quota keeps its type.
THEOREM TypeCorrect == Spec => []TypeOK
BY TypeInit, TypeStep, PTL DEF Spec

-------------------------------------------------------------------------------
\* What makes an event take effect once: an open transaction holds its event alone, and
\* only while the event is not among the processed ones; what took effect is among them.
ClaimedAlone ==
  /\ \A h \in Handler : handling[h] # 0 => handling[h] \notin processed
  /\ \A g, h \in Handler : handling[g] = handling[h] /\ handling[h] # 0 => g = h
  /\ \A i \in 1..MaxEvents :
       /\ applied[i] <= 1
       /\ applied[i] # 0 => i \in processed

LEMMA ClaimedAloneStep == TypeOK /\ ClaimedAlone /\ [Next]_vars => ClaimedAlone'
<1> SUFFICES ASSUME TypeOK, ClaimedAlone, [Next]_vars PROVE ClaimedAlone'
  OBVIOUS
<1>1. ASSUME NEW h \in Handler, Deliver(h) PROVE ClaimedAlone'
  <2>1. PICK i \in unacked : \/ UNCHANGED handling
                             \/ /\ i \notin processed /\ \A g \in Handler : handling[g] # i
                                /\ handling' = [handling EXCEPT ![h] = i]
    BY <1>1 DEF Deliver
  <2>2. UNCHANGED <<processed, applied>> BY <1>1 DEF Deliver
  <2>3. CASE UNCHANGED handling BY <2>2, <2>3 DEF ClaimedAlone
  <2>4. CASE /\ i \notin processed /\ \A g \in Handler : handling[g] # i
             /\ handling' = [handling EXCEPT ![h] = i]
    <3>1. handling' = [g \in Handler |-> IF g = h THEN i ELSE handling[g]]
      BY <2>4 DEF TypeOK
    <3>2. \A g \in Handler : handling'[g] # 0 => handling'[g] \notin processed'
      BY <2>2, <2>4, <3>1 DEF ClaimedAlone
    <3>3. \A f, g \in Handler : handling'[f] = handling'[g] /\ handling'[g] # 0 => f = g
      BY <2>4, <3>1 DEF ClaimedAlone
    <3> QED BY <2>2, <3>2, <3>3 DEF ClaimedAlone
  <2> QED BY <2>1, <2>3, <2>4
<1>2. ASSUME NEW h \in Handler, Commit(h) PROVE ClaimedAlone'
  <2> DEFINE i == handling[h]
  <2>1. i # 0 /\ i \notin processed /\ i \in 1..MaxEvents
    BY <1>2, BillingAssumption DEF Commit, ClaimedAlone, TypeOK, Sent
  <2>2. processed' = processed \cup {i} /\ handling' = [handling EXCEPT ![h] = 0]
    BY <1>2 DEF Commit
  <2>3. applied[i] = 0 BY <2>1 DEF ClaimedAlone
  <2>4. applied' = [applied EXCEPT ![i] = 1] BY <1>2, <2>1, <2>3 DEF Commit, TypeOK
  <2>5. \A g \in Handler : handling'[g] # 0 => handling'[g] \notin processed'
    BY <2>1, <2>2 DEF ClaimedAlone, TypeOK
  <2>6. \A f, g \in Handler : handling'[f] = handling'[g] /\ handling'[g] # 0 => f = g
    BY <2>2 DEF ClaimedAlone, TypeOK
  <2>7. \A j \in 1..MaxEvents : applied'[j] <= 1 /\ (applied'[j] # 0 => j \in processed')
    BY <2>1, <2>2, <2>4 DEF ClaimedAlone, TypeOK
  <2> QED BY <2>5, <2>6, <2>7 DEF ClaimedAlone
<1>3. ASSUME NEW h \in Handler, RollBack(h) PROVE ClaimedAlone'
  BY <1>3 DEF RollBack, ClaimedAlone, TypeOK
<1>4. ASSUME UNCHANGED <<handling, processed, applied>> PROVE ClaimedAlone'
  BY <1>4 DEF ClaimedAlone
<1>5. ASSUME NEW s \in Sub, CheckOut(s) \/ Changes(s) PROVE ClaimedAlone'
  BY <1>4, <1>5 DEF CheckOut, Changes, Tells, tenant
<1>6. ASSUME NEW c \in Client, BeginSwipe(c) \/ CheckQuota(c) \/ InsertRow(c) PROVE ClaimedAlone'
  BY <1>4, <1>6 DEF BeginSwipe, CheckQuota, InsertRow, tenant
<1>7. ASSUME Reject \/ UndoRow \/ UNCHANGED vars PROVE ClaimedAlone'
  BY <1>4, <1>7 DEF Reject, UndoRow, vars, tenant
<1> QED BY <1>1, <1>2, <1>3, <1>5, <1>6, <1>7 DEF Next, Webhook

\* However many requests deliver an event at a time, and whatever rolls back, it takes
\* effect once.
THEOREM AppliedOnceHolds == Spec => []AppliedOnce
<1>1. Init => ClaimedAlone BY DEF Init, ClaimedAlone
<1>2. TypeOK /\ ClaimedAlone => AppliedOnce BY DEF ClaimedAlone, AppliedOnce, TypeOK
<1> QED BY <1>1, <1>2, ClaimedAloneStep, TypeCorrect, PTL DEF Spec

-------------------------------------------------------------------------------
\* A client that went over the limit finds the quota used up from then on, in a swipe that
\* it begins as in one whose quota is still to be checked.
StoppedOnce ==
  \A c \in overran :
    /\ rows >= Limit[plan]
    /\ swipe[c].at # "allowed"
    /\ swipe[c].at = "begun" => swipe[c].limit <= rows

LEMMA StoppedOnceStep == TypeOK /\ StoppedOnce /\ [Next]_vars => StoppedOnce'
<1> SUFFICES ASSUME TypeOK, StoppedOnce, [Next]_vars PROVE StoppedOnce'
  OBVIOUS
<1> USE DEF StoppedOnce
<1>1. ASSUME UNCHANGED <<plan, overran, rows, swipe>> PROVE StoppedOnce'
  BY <1>1
<1>2. ASSUME NEW s \in Sub, CheckOut(s) \/ Changes(s) PROVE StoppedOnce'
  BY <1>1, <1>2 DEF CheckOut, Changes, Tells, tenant, quota
<1>3. ASSUME NEW h \in Handler, Deliver(h) \/ RollBack(h) PROVE StoppedOnce'
  BY <1>1, <1>3 DEF Deliver, RollBack, quota
<1>4. ASSUME NEW h \in Handler, Commit(h) PROVE StoppedOnce'
  BY <1>4 DEF Commit, Forgets
<1>5. ASSUME NEW c \in Client, BeginSwipe(c) PROVE StoppedOnce'
  BY <1>5, BillingAssumption DEF BeginSwipe, TypeOK, tenant
<1>6. ASSUME NEW c \in Client, CheckQuota(c) PROVE StoppedOnce'
  BY <1>6, BillingAssumption DEF CheckQuota, TypeOK, tenant, NoSwipe
<1>7. ASSUME NEW c \in Client, InsertRow(c) PROVE StoppedOnce'
  BY <1>7, BillingAssumption DEF InsertRow, TypeOK, tenant, NoSwipe
<1>8. CASE Reject BY <1>8, BillingAssumption DEF Reject, TypeOK, tenant
<1>9. CASE UndoRow BY <1>9 DEF UndoRow
<1>10. CASE UNCHANGED vars BY <1>1, <1>10 DEF vars, tenant, quota
<1> QED BY <1>2, <1>3, <1>4, <1>5, <1>6, <1>7, <1>8, <1>9, <1>10 DEF Next, Webhook

\* Any number of swipes that race past the quota, or that a downgrade overtakes, go over
\* the limit once per client and no more.
THEOREM OverrunsOnceHolds == Spec => OverrunsOnce
<1>1. Init => StoppedOnce BY DEF Init, StoppedOnce
<1>2. StoppedOnce => (\A c \in overran : swipe[c].at = "allowed" /\ swipe'[c].at = "idle"
                                        => rows < Limit[plan])
  BY DEF StoppedOnce
<1> QED BY <1>1, <1>2, StoppedOnceStep, TypeCorrect, PTL DEF Spec, OverrunsOnce

-------------------------------------------------------------------------------
\* Events that were not taken out of order were taken from the first one on.
TakenInOrder ==
  ~ reordered => \A i, j \in 1..MaxEvents : applied[i] # 0 /\ j < i => applied[j] # 0

LiveStatus == {"trialing", "active", "past_due"}

\* What Stripe says of a subscription is what its last event says, and what the handler of
\* an event writes shows that.
StripeTells ==
  /\ \A i \in Sent : sent[i].status \in Ended => sent[i].type \in {"updated", "deleted"}
  /\ \A i \in Sent : sent[i].status \in LiveStatus \cup {"unpaid", "canceled"}
  /\ \A i \in Sent : Shows(StatusAfter(sent[i]), sent[i].status)
  /\ \A i \in Sent : (\A j \in Sent : j > i => sent[j].sub # sent[i].sub)
                       => subscription[sent[i].sub] = sent[i].status

\* Event i is the last word so far on a subscription that it says is live.
Backs(i) ==
  /\ i \in Sent /\ applied[i] # 0
  /\ sent[i].status \in LiveStatus
  /\ \A j \in Sent : j > i /\ applied[j] # 0 => sent[j].sub # sent[i].sub

\* A paid plan goes back to an event that backs it.
Backed == ~ reordered /\ plan # "FREE" => \E i \in Sent : Backs(i)

\* With one subscription at a time and no debts, an event begins a subscription or follows
\* one of the same subscription while that is live.
OneStory ==
  ~ overlapped /\ ~ lapsed =>
    /\ \A i \in Sent :
         \/ sent[i].type = "checkout" /\ sent[i].status \in {"active", "trialing"}
         \/ /\ i > 1 /\ sent[i - 1].sub = sent[i].sub /\ sent[i - 1].status \in LiveStatus
            /\ \/ /\ sent[i].status \in LiveStatus
                  /\ sent[i].type \in {"payment_succeeded", "payment_failed", "updated"}
               \/ sent[i].status = "canceled" /\ sent[i].type = "deleted"
    /\ \A s \in Sub : subscription[s] \notin {"none", "canceled"} =>
                        sent # <<>> /\ s = sent[Len(sent)].sub

\* The row and the plan say what the last event taken says.
FollowsLast ==
  ~ reordered /\ ~ overlapped /\ ~ lapsed =>
    \A i \in Sent :
      applied[i] # 0 /\ (\A j \in Sent : j > i => applied[j] = 0) =>
        /\ billing = [status |-> StatusAfter(sent[i]), sub |-> sent[i].sub]
        /\ plan = IF sent[i].status \in LiveStatus THEN PlanOf[sent[i].sub] ELSE "FREE"

StripeInv == StripeTells /\ OneStory
TakenInv == TakenInOrder /\ Backed /\ FollowsLast

\* Stripe appends an event; those before it stay what they are.
LEMMA Appended ==
  ASSUME TypeOK, NEW s \in Sub, NEW status \in SubStatus, NEW type \in EventType,
         Tells(type, s, status)
  PROVE  /\ Len(sent') = Len(sent) + 1 /\ Len(sent) \in Nat
         /\ \A i \in Sent : sent'[i] = sent[i] /\ sent[i] \in Event
         /\ sent'[Len(sent) + 1] = [type |-> type, sub |-> s, status |-> status]
         /\ Sent' = Sent \cup {Len(sent) + 1} /\ Len(sent) + 1 \notin Sent
         /\ subscription' = [subscription EXCEPT ![s] = status]
<1> DEFINE e == [type |-> type, sub |-> s, status |-> status]
<1>1. e \in Event /\ sent \in Seq(Event) /\ sent' = Append(sent, e)
  BY DEF Event, Tells, TypeOK
<1> QED
  BY <1>1 DEF Sent, Tells

\* History is not unwritten.
LEMMA Monotone ==
  ASSUME TypeOK, NEW s \in Sub, CheckOut(s) \/ Changes(s)
  PROVE  (overlapped => overlapped') /\ (lapsed => lapsed')
<1>1. CASE CheckOut(s)
  <2>1. overlapped' = (overlapped \/ \E t \in Sub : subscription[t] \notin {"none", "canceled"})
    BY <1>1 DEF CheckOut
  <2>2. overlapped => overlapped'
    BY <2>1, Zenon
  <2>3. lapsed' = lapsed
    BY <1>1 DEF CheckOut
  <2> QED
    BY <2>2, <2>3
<1>2. CASE Changes(s)
  <2>1. overlapped' = overlapped
    BY <1>2 DEF Changes
  <2>2. PICK r \in Reports : lapsed' = (lapsed \/ r.status = "unpaid")
    BY <1>2 DEF Changes
  <2>3. lapsed => lapsed'
    BY <2>2, Zenon
  <2> QED
    BY <2>1, <2>3
<1> QED
  BY <1>1, <1>2

\* What the changes of a subscription look like.
LEMMA StripeStep ==
  ASSUME TypeOK, StripeInv, NEW s \in Sub, CheckOut(s) \/ Changes(s)
  PROVE  StripeInv'
<1>1. PICK type \in EventType, status \in SubStatus :
        /\ Tells(type, s, status)
        /\ status \in LiveStatus \cup {"unpaid", "canceled"}
        /\ Shows(StatusAfter([type |-> type, sub |-> s, status |-> status]), status)
        /\ status \in Ended => type \in {"updated", "deleted"}
        /\ \/ /\ subscription[s] = "none" /\ type = "checkout" /\ status \in {"active", "trialing"}
              /\ overlapped' = (overlapped \/ \E t \in Sub : subscription[t] \notin {"none", "canceled"})
              /\ lapsed' = lapsed
           \/ /\ subscription[s] \notin {"none", "canceled"}
              /\ overlapped' = overlapped
              /\ lapsed' = (lapsed \/ status = "unpaid")
              /\ \/ /\ status \in LiveStatus
                    /\ type \in {"payment_succeeded", "payment_failed", "updated"}
                 \/ status = "canceled" /\ type = "deleted"
                 \/ status = "unpaid"
  <2>1. CASE CheckOut(s)
    BY <2>1 DEF CheckOut, LiveStatus, SubStatus, EventType, Ended, Shows, StatusAfter
  <2>2. CASE Changes(s)
    <3>1. PICK r \in Reports : Tells(r.type, s, r.status) /\ lapsed' = (lapsed \/ r.status = "unpaid")
      BY <2>2 DEF Changes
    <3>2. /\ r.status \in SubStatus /\ r.type \in EventType
          /\ r.status \in LiveStatus \cup {"unpaid", "canceled"}
          /\ Shows(StatusAfter([type |-> r.type, sub |-> s, status |-> r.status]), r.status)
          /\ r.status \in Ended => r.type \in {"updated", "deleted"}
          /\ \/ /\ r.status \in LiveStatus
                /\ r.type \in {"payment_succeeded", "payment_failed", "updated"}
             \/ r.status = "canceled" /\ r.type = "deleted"
             \/ r.status = "unpaid"
      BY DEF Reports, SubStatus, EventType, LiveStatus, Ended, Shows, StatusAfter
    <3> QED
      BY <2>2, <3>1, <3>2 DEF Changes
  <2> QED
    BY <2>1, <2>2
<1> DEFINE n == Len(sent)
<1>2. /\ n \in Nat /\ Len(sent') = n + 1
      /\ \A i \in Sent : sent'[i] = sent[i] /\ sent[i] \in Event /\ i \in 1..n
      /\ sent'[n + 1] = [type |-> type, sub |-> s, status |-> status]
      /\ Sent' = Sent \cup {n + 1} /\ n + 1 \notin Sent
      /\ subscription' = [subscription EXCEPT ![s] = status]
  BY <1>1, Appended DEF Sent
<1>3. StripeTells'
  <2>1. \A i \in Sent' : /\ sent'[i].status \in Ended => sent'[i].type \in {"updated", "deleted"}
                         /\ sent'[i].status \in LiveStatus \cup {"unpaid", "canceled"}
                         /\ Shows(StatusAfter(sent'[i]), sent'[i].status)
    BY <1>1, <1>2 DEF StripeInv, StripeTells
  <2>2. ASSUME NEW i \in Sent', \A j \in Sent' : j > i => sent'[j].sub # sent'[i].sub
        PROVE  subscription'[sent'[i].sub] = sent'[i].status
    <3>1. CASE i = n + 1
      BY <1>2, <3>1 DEF TypeOK
    <3>2. CASE i \in Sent
      <4>1. sent[i].sub # s /\ sent'[i] = sent[i] /\ sent[i].sub \in Sub
        BY <1>2, <2>2, <3>2 DEF Event
      <4>2. \A j \in Sent : j > i => sent[j].sub # sent[i].sub
        BY <1>2, <2>2, <3>2
      <4>3. subscription[sent[i].sub] = sent[i].status
        BY <3>2, <4>2 DEF StripeInv, StripeTells
      <4> QED
        BY <1>2, <4>1, <4>3 DEF TypeOK
    <3> QED
      BY <1>2, <3>1, <3>2
  <2> QED
    BY <2>1, <2>2 DEF StripeTells
<1>4. OneStory'
  <2> SUFFICES ASSUME ~ overlapped', ~ lapsed' PROVE OneStory'
    BY DEF OneStory
  <2>1. ~ overlapped /\ ~ lapsed
    BY Monotone
  <2>2. /\ \A i \in Sent :
             \/ sent[i].type = "checkout" /\ sent[i].status \in {"active", "trialing"}
             \/ /\ i > 1 /\ sent[i - 1].sub = sent[i].sub /\ sent[i - 1].status \in LiveStatus
                /\ \/ /\ sent[i].status \in LiveStatus
                      /\ sent[i].type \in {"payment_succeeded", "payment_failed", "updated"}
                   \/ sent[i].status = "canceled" /\ sent[i].type = "deleted"
        /\ \A t \in Sub : subscription[t] \notin {"none", "canceled"} =>
                            sent # <<>> /\ t = sent[n].sub
    BY <2>1 DEF StripeInv, OneStory
  <2>3. \A i \in Sent : i > 1 => i - 1 \in Sent
    BY <1>2 DEF Sent
  <2>4. ASSUME NEW i \in Sent
        PROVE  \/ sent'[i].type = "checkout" /\ sent'[i].status \in {"active", "trialing"}
               \/ /\ i > 1 /\ sent'[i - 1].sub = sent'[i].sub /\ sent'[i - 1].status \in LiveStatus
                  /\ \/ /\ sent'[i].status \in LiveStatus
                        /\ sent'[i].type \in {"payment_succeeded", "payment_failed", "updated"}
                     \/ sent'[i].status = "canceled" /\ sent'[i].type = "deleted"
    BY <1>2, <2>2, <2>3
  <2>5. CASE /\ subscription[s] = "none" /\ type = "checkout" /\ status \in {"active", "trialing"}
             /\ \A t \in Sub : subscription[t] \in {"none", "canceled"}
    <3>1. \A t \in Sub : subscription'[t] \notin {"none", "canceled"} => t = s
      BY <1>2, <2>5 DEF TypeOK
    <3> QED
      BY <1>2, <2>4, <2>5, <3>1 DEF OneStory
  <2>6. CASE /\ subscription[s] \notin {"none", "canceled"} /\ status # "unpaid"
             /\ \/ /\ status \in LiveStatus
                   /\ type \in {"payment_succeeded", "payment_failed", "updated"}
                \/ status = "canceled" /\ type = "deleted"
    <3>1. sent # <<>> /\ s = sent[n].sub
      BY <2>2, <2>6
    <3>2. n \in Sent /\ n >= 1
      BY <1>2, <3>1 DEF Sent, TypeOK
    <3>3. subscription[s] = sent[n].status
      <4>1. \A j \in Sent : ~ (j > n)
        BY <1>2
      <4> QED
        BY <3>1, <3>2, <4>1 DEF StripeInv, StripeTells
    <3>4. sent[n].status \in LiveStatus
      BY <2>2, <2>6, <3>2, <3>3 DEF LiveStatus
    <3>5. /\ n + 1 > 1 /\ sent'[n + 1 - 1].sub = sent'[n + 1].sub
          /\ sent'[n + 1 - 1].status \in LiveStatus
      BY <1>2, <3>1, <3>2, <3>4
    <3>6. \A t \in Sub : subscription'[t] \notin {"none", "canceled"} => t = s
      BY <1>2, <2>2, <3>1 DEF TypeOK
    <3>7. sent' # <<>> /\ sent'[Len(sent')].sub = s
      BY <1>2
    <3>8. \/ /\ sent'[n + 1].status \in LiveStatus
             /\ sent'[n + 1].type \in {"payment_succeeded", "payment_failed", "updated"}
          \/ sent'[n + 1].status = "canceled" /\ sent'[n + 1].type = "deleted"
      BY <1>2, <2>6
    <3> QED
      BY <1>2, <2>4, <3>5, <3>6, <3>7, <3>8 DEF OneStory
  <2>7. \/ /\ subscription[s] = "none" /\ type = "checkout" /\ status \in {"active", "trialing"}
           /\ overlapped' = (overlapped \/ \E t \in Sub : subscription[t] \notin {"none", "canceled"})
        \/ /\ subscription[s] \notin {"none", "canceled"}
           /\ lapsed' = (lapsed \/ status = "unpaid")
           /\ \/ /\ status \in LiveStatus
                 /\ type \in {"payment_succeeded", "payment_failed", "updated"}
              \/ status = "canceled" /\ type = "deleted"
              \/ status = "unpaid"
    BY <1>1
  <2>8. ASSUME lapsed' = (lapsed \/ status = "unpaid") PROVE status # "unpaid"
    BY <2>8, Zenon
  <2>9. ASSUME overlapped' = (overlapped \/ \E t \in Sub : subscription[t] \notin {"none", "canceled"})
        PROVE  \A t \in Sub : subscription[t] \in {"none", "canceled"}
    BY <2>9, Zenon
  <2> QED
    BY <2>5, <2>6, <2>7, <2>8, <2>9, Zenon
<1> QED
  BY <1>3, <1>4 DEF StripeInv

\* Nothing is taken that was not sent.
LEMMA TakenWasSent ==
  ASSUME TypeOK, ClaimedAlone, NEW i \in 1..MaxEvents, applied[i] # 0
  PROVE  i \in Sent
BY DEF ClaimedAlone, TypeOK

\* A new event changes nothing of what was taken.
LEMMA TakenTells ==
  ASSUME TypeOK, ClaimedAlone, TakenInv, NEW s \in Sub, CheckOut(s) \/ Changes(s)
  PROVE  TakenInv'
<1>1. PICK type \in EventType, status \in SubStatus : Tells(type, s, status)
  <2>1. CASE CheckOut(s)
    BY <2>1 DEF CheckOut, SubStatus, EventType
  <2>2. CASE Changes(s)
    <3>1. PICK r \in Reports : Tells(r.type, s, r.status)
      BY <2>2 DEF Changes
    <3>2. r.status \in SubStatus /\ r.type \in EventType
      BY DEF Reports, SubStatus, EventType
    <3> QED
      BY <3>1, <3>2
  <2> QED
    BY <2>1, <2>2
<1>2. /\ \A i \in Sent : sent'[i] = sent[i]
      /\ Sent' = Sent \cup {Len(sent) + 1} /\ Len(sent) + 1 \notin Sent
      /\ Len(sent) + 1 \in 1..MaxEvents /\ Sent \subseteq 1..MaxEvents
  BY <1>1, Appended, BillingAssumption DEF Tells, TypeOK, Sent
<1>3. UNCHANGED <<applied, plan, billing, reordered>>
  BY <1>1 DEF Tells, tenant
<1>4. (overlapped => overlapped') /\ (lapsed => lapsed')
  BY Monotone
<1>5. applied[Len(sent) + 1] = 0
  BY <1>2, TakenWasSent
<1>6. TakenInOrder'
  BY <1>3 DEF TakenInv, TakenInOrder
<1>7. Backed'
  <2>1. \A i \in Sent : Backs(i) => Backs(i)'
    BY <1>2, <1>3, <1>5 DEF Backs
  <2> QED
    BY <1>2, <1>3, <2>1 DEF TakenInv, Backed
<1>8. FollowsLast'
  <2> SUFFICES ASSUME ~ reordered, ~ overlapped', ~ lapsed', NEW i \in Sent', applied[i] # 0,
                      \A j \in Sent' : j > i => applied[j] = 0
               PROVE  /\ billing = [status |-> StatusAfter(sent'[i]), sub |-> sent'[i].sub]
                      /\ plan = IF sent'[i].status \in LiveStatus THEN PlanOf[sent'[i].sub] ELSE "FREE"
    BY <1>3 DEF FollowsLast
  <2>1. i \in Sent /\ sent'[i] = sent[i] /\ \A j \in Sent : j > i => applied[j] = 0
    BY <1>2, <1>5
  <2> QED
    BY <1>4, <2>1 DEF TakenInv, FollowsLast
<1> QED
  BY <1>6, <1>7, <1>8 DEF TakenInv

\* An event takes effect.
LEMMA TakenCommit ==
  ASSUME TypeOK, ClaimedAlone, StripeInv, TakenInv, NEW h \in Handler, Commit(h)
  PROVE  TakenInv'
<1>0. PICK i \in Sent : i = handling[h]
  BY DEF Commit, TypeOK
<1> DEFINE e == sent[i]
<1>1. /\ i \in Sent /\ i \in 1..MaxEvents /\ Sent \subseteq 1..MaxEvents /\ e \in Event
      /\ applied[i] = 0
  BY <1>0, BillingAssumption DEF Commit, ClaimedAlone, TypeOK, Sent
<1>2. /\ applied' = [applied EXCEPT ![i] = 1]
      /\ reordered' = (reordered \/ \E j \in 1..(i - 1) : applied[j] = 0)
      /\ billing' = BillingAfter(e) /\ plan' = PlanAfter(e)
      /\ UNCHANGED <<sent, overlapped, lapsed>>
  BY <1>0, <1>1 DEF Commit, TypeOK
<1>3. /\ applied'[i] = 1
      /\ \A j \in 1..MaxEvents : j # i => applied'[j] = applied[j]
  BY <1>1, <1>2 DEF TypeOK
<1>4. CASE reordered'
  BY <1>4 DEF TakenInv, TakenInOrder, Backed, FollowsLast
<1>5. CASE ~ reordered'
  <2>1. /\ ~ reordered
        /\ \A j \in 1..MaxEvents : j < i => applied[j] # 0
        /\ \A j \in 1..MaxEvents : j > i => applied[j] = 0
    <3>1. ~ reordered /\ \A j \in 1..(i - 1) : applied[j] # 0
      BY <1>2, <1>5
    <3>2. \A j \in 1..MaxEvents : j < i => j \in 1..(i - 1)
      BY <1>1
    <3> QED
      BY <1>1, <3>1, <3>2 DEF TakenInv, TakenInOrder
  <2>2. TakenInOrder'
    BY <1>1, <1>3, <2>1 DEF TakenInOrder
  <2>3. e.status \in LiveStatus \/ (e.status \in Ended /\ e.type \in {"updated", "deleted"})
    BY <1>1 DEF StripeInv, StripeTells, Ended
  <2>4. Backed'
    <3> SUFFICES ASSUME plan' # "FREE" PROVE \E k \in Sent : Backs(k)'
      BY <1>2 DEF Backed, Sent
    <3>0. \A k \in Sent : Backs(k)' <=>
             /\ applied'[k] # 0 /\ sent[k].status \in LiveStatus
             /\ \A j \in Sent : j > k /\ applied'[j] # 0 => sent[j].sub # sent[k].sub
      BY <1>2 DEF Backs, Sent
    <3>1. CASE e.type = "checkout" \/ (plan' = plan /\ e.status \in LiveStatus /\ \E k \in Sent : Backs(k) /\ sent[k].sub = e.sub)
      <4>1. e.status \in LiveStatus
        BY <2>3, <3>1
      <4>2. Backs(i)'
        BY <1>1, <1>3, <2>1, <3>0, <4>1
      <4> QED
        BY <1>1, <4>2
    <3>2. CASE ~ (e.type = "checkout" \/ (plan' = plan /\ e.status \in LiveStatus /\ \E k \in Sent : Backs(k) /\ sent[k].sub = e.sub))
      <4>1. plan' = plan /\ e.status \in LiveStatus
        BY <1>2, <2>3, <3>2 DEF PlanAfter
      <4>2. PICK k \in Sent : Backs(k)
        BY <2>1, <4>1 DEF TakenInv, Backed
      <4>3. sent[k].sub # e.sub /\ k # i
        BY <3>2, <4>1, <4>2, <1>1 DEF Backs
      <4>4. Backs(k)'
        BY <1>1, <1>3, <3>0, <4>2, <4>3 DEF Backs
      <4> QED
        BY <4>4
    <3> QED
      BY <3>1, <3>2
  <2>5. FollowsLast'
    <3> SUFFICES ASSUME ~ overlapped, ~ lapsed, NEW m \in Sent, applied'[m] # 0,
                        \A j \in Sent : j > m => applied'[j] = 0
                 PROVE  /\ billing' = [status |-> StatusAfter(sent[m]), sub |-> sent[m].sub]
                        /\ plan' = IF sent[m].status \in LiveStatus THEN PlanOf[sent[m].sub] ELSE "FREE"
      BY <1>2 DEF FollowsLast, Sent
    <3>1. m = i
      BY <1>1, <1>3, <2>1 DEF Sent
    <3>2. CASE e.type = "checkout" /\ e.status \in {"active", "trialing"}
      BY <1>2, <3>1, <3>2 DEF BillingAfter, StatusAfter, PlanAfter, LiveStatus
    <3>3. CASE /\ i > 1 /\ sent[i - 1].sub = e.sub /\ sent[i - 1].status \in LiveStatus
               /\ \/ /\ e.status \in LiveStatus
                     /\ e.type \in {"payment_succeeded", "payment_failed", "updated"}
                  \/ e.status = "canceled" /\ e.type = "deleted"
      <4>1. i - 1 \in Sent /\ applied[i - 1] # 0 /\ \A j \in Sent : j > i - 1 => applied[j] = 0
        BY <1>1, <2>1, <3>3 DEF Sent, TypeOK
      <4>2. billing.sub = e.sub /\ plan = PlanOf[e.sub]
        BY <2>1, <3>3, <4>1 DEF TakenInv, FollowsLast
      <4> QED
        BY <1>2, <3>1, <3>3, <4>2 DEF BillingAfter, PlanAfter, LiveStatus, Ended
    <3> QED
      BY <1>1, <3>2, <3>3 DEF StripeInv, OneStory
  <2> QED
    BY <2>2, <2>4, <2>5 DEF TakenInv
<1> QED
  BY <1>4, <1>5

LEMMA PlanInvStep ==
  TypeOK /\ ClaimedAlone /\ StripeInv /\ TakenInv /\ [Next]_vars => StripeInv' /\ TakenInv'
<1> SUFFICES ASSUME TypeOK, ClaimedAlone, StripeInv, TakenInv, [Next]_vars
             PROVE  StripeInv' /\ TakenInv'
  OBVIOUS
<1>0. ASSUME UNCHANGED <<subscription, sent, overlapped, lapsed>> PROVE StripeInv'
  BY <1>0 DEF StripeInv, StripeTells, OneStory, Sent
<1>1. ASSUME UNCHANGED <<subscription, sent, overlapped, lapsed, plan, billing, applied, reordered>>
      PROVE  StripeInv' /\ TakenInv'
  BY <1>0, <1>1 DEF TakenInv, TakenInOrder, Backed, Backs, FollowsLast, Sent
<1>2. ASSUME NEW s \in Sub, CheckOut(s) \/ Changes(s) PROVE StripeInv' /\ TakenInv'
  BY <1>2, StripeStep, TakenTells
<1>3. ASSUME NEW h \in Handler, Commit(h) PROVE StripeInv' /\ TakenInv'
  BY <1>0, <1>3, TakenCommit DEF Commit
<1>4. ASSUME NEW h \in Handler, Deliver(h) \/ RollBack(h) PROVE StripeInv' /\ TakenInv'
  BY <1>1, <1>4 DEF Deliver, RollBack, stripe
<1>5. ASSUME NEW c \in Client, BeginSwipe(c) \/ CheckQuota(c) \/ InsertRow(c)
      PROVE  StripeInv' /\ TakenInv'
  BY <1>1, <1>5 DEF BeginSwipe, CheckQuota, InsertRow, stripe, tenant
<1>6. ASSUME Reject \/ UndoRow \/ UNCHANGED vars PROVE StripeInv' /\ TakenInv'
  BY <1>1, <1>6 DEF Reject, UndoRow, vars, stripe, tenant
<1> QED
  BY <1>2, <1>3, <1>4, <1>5, <1>6 DEF Next, Webhook

LEMMA PlanInvariance == Spec => [](TypeOK /\ ClaimedAlone /\ StripeInv /\ TakenInv)
<1>1. Init => ClaimedAlone
  BY DEF Init, ClaimedAlone
<1>2. Init => StripeInv /\ TakenInv
  BY DEF Init, StripeInv, StripeTells, OneStory, TakenInv, TakenInOrder, Backed, FollowsLast, Sent
<1> QED
  BY <1>1, <1>2, ClaimedAloneStep, PlanInvStep, TypeCorrect, PTL DEF Spec

\* Whatever subscriptions overlap and whatever was unpaid: events taken in order leave a
\* tenant with a paid plan only if a subscription is live that pays for it.
THEOREM PaidPlanIsBackedHolds == Spec => []PaidPlanIsBacked
<1>1. TypeOK /\ ClaimedAlone /\ StripeInv /\ TakenInv => PaidPlanIsBacked
  <2> SUFFICES ASSUME TypeOK, StripeInv, TakenInv, AllApplied, ~ reordered, plan # "FREE"
               PROVE  \E s \in Sub : Live(s)
    BY DEF PaidPlanIsBacked
  <2>1. PICK i \in Sent : Backs(i)
    BY DEF TakenInv, Backed
  <2>2. \A j \in Sent : j > i => sent[j].sub # sent[i].sub
    <3>1. \A j \in Sent : applied[j] # 0
      BY BillingAssumption DEF AllApplied, TypeOK, Sent
    <3> QED
      BY <2>1, <3>1 DEF Backs
  <2>3. subscription[sent[i].sub] = sent[i].status
    BY <2>2 DEF StripeInv, StripeTells
  <2>4. sent[i].sub \in Sub
    <3>1. sent[i] \in Event
      BY <2>1 DEF TypeOK, Sent
    <3> QED
      BY <3>1 DEF Event
  <2> QED
    BY <2>1, <2>3, <2>4 DEF Backs, Live, LiveStatus
<1> QED
  BY <1>1, PlanInvariance, PTL

\* Events taken in order (billing.py, stripe_webhook), of one subscription at a time and
\* without debts, leave the plan at what Stripe's status entitles to and the row at that
\* status, a trial perhaps recorded as active.
THEOREM InStepHolds == Spec => []InStep
<1>1. TypeOK /\ ClaimedAlone /\ StripeInv /\ TakenInv => InStep
  <2> SUFFICES ASSUME TypeOK, StripeInv, TakenInv, AllApplied, sent # <<>>, ~ reordered,
                      ~ overlapped, ~ lapsed
               PROVE  /\ billing.sub \in Sub
                      /\ Shows(billing.status, subscription[billing.sub])
                      /\ plan = IF Live(billing.sub) THEN PlanOf[billing.sub] ELSE "FREE"
    BY DEF InStep
  <2> DEFINE n == Len(sent)
  <2>1. n \in Sent /\ \A j \in Sent : ~ (j > n)
    BY DEF TypeOK, Sent
  <2>2. applied[n] # 0 /\ sent[n] \in Event
    BY <2>1, BillingAssumption DEF AllApplied, TypeOK, Sent
  <2>3. /\ billing = [status |-> StatusAfter(sent[n]), sub |-> sent[n].sub]
        /\ plan = IF sent[n].status \in LiveStatus THEN PlanOf[sent[n].sub] ELSE "FREE"
    BY <2>1, <2>2 DEF TakenInv, FollowsLast
  <2>4. subscription[sent[n].sub] = sent[n].status /\ Shows(StatusAfter(sent[n]), sent[n].status)
    BY <2>1 DEF StripeInv, StripeTells
  <2> QED
    BY <2>2, <2>3, <2>4 DEF Live, LiveStatus, Event
<1> QED
  BY <1>1, PlanInvariance, PTL
===============================================================================
