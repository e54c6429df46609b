--------------------------------- MODULE Billing ---------------------------------
(***************************************************************************)
(* The plan of a tenant: Stripe's webhooks write it (stripe_webhook and    *)
(* its handlers in src/apps/api/billing.py), the quota of every swipe      *)
(* reads it (src/packages/backend/domain/quotas.py, src/apps/api/user.py). *)
(*                                                                         *)
(* Stripe is the environment.  It numbers the changes of the tenant's      *)
(* subscriptions, repeats the event of each until it is acknowledged, and  *)
(* keeps no order.  A delivery is handled in one transaction, whose first  *)
(* statement claims the event's id.                                        *)
(*                                                                         *)
(* The tenant has its billing_customers row from the start, the only case  *)
(* in which its subscriptions can report anything to it.                   *)
(***************************************************************************)
EXTENDS Integers, Sequences, FiniteSets

CONSTANTS
  Sub,            \* subscriptions the tenant may take out at Stripe
  PlanOf,         \* the plan in the metadata of a subscription's checkout
  Limit,          \* max_monthly_applications of a plan
  Handler,        \* webhook requests handled at a time
  Client,         \* swipes handled at a time
  NoSub,
  MaxEvents,      \* bound: events Stripe sends
  MaxFaults,      \* bound: transactions that roll back, answers that are lost
  MaxRows         \* bound: applications rows of the month

PaidPlan == {"PRO", "TEAM"}
Plan == PaidPlan \cup {"FREE"}

ASSUME BillingAssumption ==
  /\ PlanOf \in [Sub -> PaidPlan]
  /\ Limit \in [Plan -> Nat]
  /\ NoSub \notin Sub
  /\ MaxEvents \in Nat
  /\ MaxFaults \in Nat
  /\ MaxRows \in Nat

VARIABLES
  subscription,   \* at Stripe: the status of each subscription
  sent,           \* at Stripe: the events so far, in the order of what they report
  unacked,        \* at Stripe: numbers of the events still to be delivered (again)
  plan,           \* tenants.plan
  billing,        \* the billing_customers row: current_subscription_status and _id
  processed,      \* processed_stripe_events
  handling,       \* the event whose transaction a webhook request has open, or 0
  applied,        \* history: how often an event took effect, up to two
  reordered,      \* history: an event took effect before an earlier one
  overlapped,     \* history: a subscription began while another one was live
  lapsed,         \* history: a subscription was unpaid, and so FREE, but not canceled
  faults,         \* history: how much of MaxFaults is used
  rows,           \* applications rows of the tenant in this month
  swipe,          \* where a swipe is, and the limit of the plan its request began with
  overran         \* history: clients that went over the limit of the plan as it is,
                  \* since it last changed or a row went away

stripe == <<subscription, sent, unacked, overlapped, lapsed>>
tenant == <<plan, billing, processed, handling, applied, reordered>>
quota == <<rows, swipe, overran>>
vars == <<stripe, tenant, faults, quota>>

Ended == {"canceled", "unpaid", "incomplete_expired"}
SubStatus == {"none", "trialing", "active", "past_due", "unpaid", "canceled"}
EventType == {"checkout", "payment_succeeded", "payment_failed", "updated", "deleted"}
Event == [type : EventType, sub : Sub, status : SubStatus]

NoSwipe == [at |-> "idle", limit |-> 0]

Init ==
  /\ subscription = [s \in Sub |-> "none"]
  /\ sent = <<>>
  /\ unacked = {}
  /\ plan = "FREE"
  /\ billing = [status |-> "none", sub |-> NoSub]
  /\ processed = {}
  /\ handling = [h \in Handler |-> 0]
  /\ applied = [i \in 1..MaxEvents |-> 0]
  /\ reordered = FALSE /\ overlapped = FALSE /\ lapsed = FALSE
  /\ faults = 0
  /\ rows = 0
  /\ swipe = [c \in Client |-> NoSwipe]
  /\ overran = {}

-------------------------------------------------------------------------------
\* Stripe.
Live(s) == subscription[s] \in {"trialing", "active", "past_due"}

\* The ways in which Stripe tells of a subscription that is now in a given status.
Reports ==
  [status : {"trialing", "active"}, type : {"payment_succeeded", "updated"}]
  \cup [status : {"past_due"}, type : {"payment_failed", "updated"}]
  \cup [status : {"unpaid"}, type : {"updated"}]
  \cup [status : {"canceled"}, type : {"deleted"}]

Tells(type, s, status) ==
  /\ Len(sent) < MaxEvents
  /\ subscription' = [subscription EXCEPT ![s] = status]
  /\ sent' = Append(sent, [type |-> type, sub |-> s, status |-> status])
  /\ unacked' = unacked \cup {Len(sent) + 1}
  /\ UNCHANGED <<tenant, faults, quota>>

\* A checkout comes to its end; nothing in create_checkout or team_checkout asks
\* whether the tenant has a subscription already.  The former starts a trial where
\* stripe_free_trial_days is set, the latter (for TEAM) never does.
CheckOut(s) ==
  /\ subscription[s] = "none"
  /\ \E status \in {"active", "trialing"} :
       /\ status = "trialing" => PlanOf[s] = "PRO"
       /\ Tells("checkout", s, status)
  /\ overlapped' = (overlapped \/ \E t \in Sub : subscription[t] \notin {"none", "canceled"})
  /\ UNCHANGED lapsed

\* A payment succeeds, fails, or fails for the last time; the subscription is canceled.
\* A trial begins with an invoice over nothing and may be reported as one; it ends like a
\* period that was paid.
Changes(s) ==
  /\ subscription[s] \notin {"none", "canceled"}
  /\ \E r \in Reports :
       /\ r.status = "trialing" => subscription[s] = "trialing"
       /\ r.status = "past_due" => subscription[s] \in {"trialing", "active"}
       /\ r.status = "unpaid" => subscription[s] = "past_due"
       /\ Tells(r.type, s, r.status)
       /\ lapsed' = (lapsed \/ r.status = "unpaid")
  /\ UNCHANGED overlapped

-------------------------------------------------------------------------------
\* The webhook.
Budgeted == faults < MaxFaults /\ faults' = faults + 1

\* Mutant of Deliver: the id is looked up, not claimed.
DeliverUnclaimed(h) ==
  /\ handling[h] = 0
  /\ \E i \in unacked :
       \/ /\ i \in processed
          /\ unacked' = unacked \ {i}
          /\ UNCHANGED handling
       \/ /\ i \notin processed
          /\ handling' = [handling EXCEPT ![h] = i]
          /\ UNCHANGED unacked
  /\ UNCHANGED <<subscription, sent, overlapped, lapsed, plan, billing, processed, applied,
                 reordered, faults, quota>>

\* A delivery begins with INSERT ... ON CONFLICT DO NOTHING: known already, it is
\* acknowledged; claimed by an open transaction, it waits for that one's outcome.
Deliver(h) ==
  /\ handling[h] = 0
  /\ \E i \in unacked :
       \/ /\ i \in processed
          /\ unacked' = unacked \ {i}
          /\ UNCHANGED handling
       \/ /\ i \notin processed /\ \A g \in Handler : handling[g] # i
          /\ handling' = [handling EXCEPT ![h] = i]
          /\ UNCHANGED unacked
  /\ UNCHANGED <<subscription, sent, overlapped, lapsed, plan, billing, processed, applied,
                 reordered, faults, quota>>

\* Mutant of PlanAfter: only a cancellation takes the plan away.
PlanAfterCancelOnly(e) ==
  IF e.type = "checkout" THEN PlanOf[e.sub] ELSE IF e.type = "deleted" THEN "FREE" ELSE plan

\* Mutant of PlanAfter: a payment that failed takes the plan away at once.
PlanAfterNoGrace(e) ==
  IF e.type = "checkout" THEN PlanOf[e.sub]
  ELSE IF e.type \in {"deleted", "payment_failed"} \/ e.status \in Ended THEN "FREE" ELSE plan

\* handle_checkout_completed sets the plan of the metadata; handle_subscription_cancelled
\* and, for a status that ends it, handle_subscription_updated set FREE - for whichever
\* subscription of the customer the event is about.
PlanAfter(e) ==
  IF e.type = "checkout" THEN PlanOf[e.sub]
  ELSE IF e.type = "deleted" \/ (e.type = "updated" /\ e.status \in Ended) THEN "FREE" ELSE plan

\* The status a handler writes: Stripe's own only where the event is about the subscription.
StatusAfter(e) ==
  IF e.type = "updated" THEN e.status
  ELSE IF e.type = "payment_failed" THEN "past_due"
  ELSE IF e.type = "deleted" THEN "canceled" ELSE "active"

\* update_subscription_state: COALESCE keeps the id where the handler passes none.
BillingAfter(e) ==
  [status |-> StatusAfter(e),
   sub |-> IF e.type \in {"payment_failed", "deleted"} THEN billing.sub ELSE e.sub]

\* Everyone starts anew with the plan as it now is.
Forgets(p) == overran' = IF p = plan THEN overran ELSE {}

\* The handler of the event runs and the transaction commits.  (Handlers of two events
\* queue at the lock of the billing_customers row.)  The answer may not reach Stripe.
Commit(h) ==
  LET i == handling[h]  e == sent[i] IN
  /\ i # 0
  /\ processed' = processed \cup {i}
  /\ billing' = BillingAfter(e)
  /\ plan' = PlanAfter(e)
  /\ Forgets(PlanAfter(e))
  /\ handling' = [handling EXCEPT ![h] = 0]
  /\ applied' = [applied EXCEPT ![i] = IF @ = 2 THEN 2 ELSE @ + 1]
  /\ reordered' = (reordered \/ \E j \in 1..(i - 1) : applied[j] = 0)
  /\ \/ unacked' = unacked \ {i} /\ UNCHANGED faults
     \/ UNCHANGED unacked /\ Budgeted
  /\ UNCHANGED <<subscription, sent, overlapped, lapsed, rows, swipe>>

\* Mutant of RollBack: the id stays claimed when the handler fails.
RollBackClaimed(h) ==
  /\ handling[h] # 0
  /\ Budgeted
  /\ processed' = processed \cup {handling[h]}
  /\ handling' = [handling EXCEPT ![h] = 0]
  /\ UNCHANGED <<stripe, plan, billing, applied, reordered, quota>>

\* A statement fails, or the process dies: nothing of the transaction remains, and the
\* answer, if any, is not a 200.
RollBack(h) ==
  /\ handling[h] # 0
  /\ Budgeted
  /\ handling' = [handling EXCEPT ![h] = 0]
  /\ UNCHANGED <<stripe, plan, billing, processed, applied, reordered, quota>>

-------------------------------------------------------------------------------
\* The swipe.

\* Mutant of BeginSwipe: the plan is that of the subscription on record.
BeginSwipeAsSubscribed(c) ==
  /\ swipe[c].at = "idle"
  /\ swipe' = [swipe EXCEPT ![c] =
                 [at |-> "begun", limit |-> IF billing.sub = NoSub THEN Limit[plan]
                                            ELSE Limit[PlanOf[billing.sub]]]]
  /\ UNCHANGED <<stripe, tenant, faults, rows, overran>>

\* resolve_tenant_context reads the plan, before the transaction of the swipe begins.
BeginSwipe(c) ==
  /\ swipe[c].at = "idle"
  /\ swipe' = [swipe EXCEPT ![c] = [at |-> "begun", limit |-> Limit[plan]]]
  /\ UNCHANGED <<stripe, tenant, faults, rows, overran>>

\* check_can_create_application counts what is committed.
CheckQuota(c) ==
  /\ swipe[c].at = "begun"
  /\ swipe' = [swipe EXCEPT ![c] = IF rows < swipe[c].limit
                                   THEN [NoSwipe EXCEPT !.at = "allowed"] ELSE NoSwipe]
  /\ UNCHANGED <<stripe, tenant, faults, rows, overran>>

\* The row is inserted; it may be one more than the plan, as it now is, allows.
InsertRow(c) ==
  /\ swipe[c].at = "allowed" /\ rows < MaxRows
  /\ rows' = rows + 1
  /\ swipe' = [swipe EXCEPT ![c] = NoSwipe]
  /\ overran' = IF rows < Limit[plan] THEN overran ELSE overran \cup {c}
  /\ UNCHANGED <<stripe, tenant, faults>>

\* A rejected job has a row too, for which no quota is checked.
Reject ==
  /\ rows < MaxRows
  /\ rows' = rows + 1
  /\ UNCHANGED <<stripe, tenant, faults, swipe, overran>>

\* Mutant of UndoRow: the row need not be found.
UndoRowUnseen ==
  /\ rows' = rows - 1
  /\ overran' = {}
  /\ UNCHANGED <<stripe, tenant, faults, swipe>>

\* undo_application deletes a row.
UndoRow ==
  /\ rows > 0
  /\ rows' = rows - 1
  /\ overran' = {}
  /\ UNCHANGED <<stripe, tenant, faults, swipe>>

-------------------------------------------------------------------------------
Webhook(h) == Deliver(h) \/ Commit(h)

Next ==
  \/ \E s \in Sub : CheckOut(s) \/ Changes(s)
  \/ \E h \in Handler : Webhook(h) \/ RollBack(h)
  \/ \E c \in Client : BeginSwipe(c) \/ CheckQuota(c) \/ InsertRow(c)
  \/ Reject \/ UndoRow

Spec == Init /\ [][Next]_vars

\* Stripe repeats what is not acknowledged, and a request that is handled comes to its end.
FairSpec == Spec /\ \A h \in Handler : WF_vars(Webhook(h))

-------------------------------------------------------------------------------
Sent == 1..Len(sent)

\* Every variable has its type.
TypeOK ==
  /\ subscription \in [Sub -> SubStatus]
  /\ sent \in Seq(Event) /\ Len(sent) <= MaxEvents
  /\ unacked \subseteq Sent /\ processed \subseteq Sent
  /\ plan \in Plan
  /\ billing \in [status : SubStatus, sub : Sub \cup {NoSub}]
  /\ handling \in [Handler -> {0} \cup Sent]
  /\ applied \in [1..MaxEvents -> 0..2]
  /\ reordered \in BOOLEAN /\ overlapped \in BOOLEAN /\ lapsed \in BOOLEAN
  /\ faults \in 0..MaxFaults
  /\ rows \in Nat
  /\ swipe \in [Client -> [at : {"idle", "begun", "allowed"}, limit : Nat]]
  /\ overran \subseteq Client

\* billing.py: "in same transaction; idempotent".  However often Stripe repeats an event,
\* at the same time or after a lost answer or a rollback, it takes effect once.
AppliedOnce == \A i \in DOMAIN applied : applied[i] <= 1

\* No event is lost: one that was sent takes effect in the end.
NothingLost == \A i \in 1..MaxEvents : (Len(sent) >= i) ~> (applied[i] >= 1)

AllApplied == \A i \in Sent : applied[i] >= 1

\* Events taken in order, a tenant is not left with a paid plan behind which no subscription
\* stands, on trial or billed, however many it had and however they overlapped.
PaidPlanIsBacked ==
  AllApplied /\ ~ reordered => (plan = "FREE" \/ \E s \in Sub : Live(s))

\* A checkout and the invoices of a trial are recorded as active.
Shows(shown, status) == shown = status \/ (shown = "active" /\ status = "trialing")

\* Events taken in order, of one subscription at a time none of which was ever unpaid: the
\* plan is what Stripe's status entitles to, and the row says that status, but that it may
\* say active of a trial.  (A second subscription, or a debt paid late, can leave the plan
\* at FREE.)
InStep ==
  AllApplied /\ sent # <<>> /\ ~ reordered /\ ~ overlapped /\ ~ lapsed =>
    /\ billing.sub \in Sub
    /\ Shows(billing.status, subscription[billing.sub])
    /\ plan = IF Live(billing.sub) THEN PlanOf[billing.sub] ELSE "FREE"

\* Swipes that race past the quota, or that began before a downgrade, go over the limit
\* of the plan at most once per client: no client does so twice while the plan stays.
OverrunsOnce == [][\A c \in overran : swipe[c].at = "allowed" /\ swipe'[c].at = "idle"
                                        => rows < Limit[plan]]_vars
===============================================================================
