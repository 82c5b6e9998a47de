-------------------------------- MODULE Billing --------------------------------
(***************************************************************************)
(* One organisation's subscriptions: checkouts create them at Stripe, a    *)
(* second one while the first lives included, and webhook events,          *)
(* delivered at least once and in any order, reconcile the org row with    *)
(* them.  A handler loads the row, and writes back the whole settings      *)
(* document it loaded: two handlers at once lose an update.                *)
(***************************************************************************)
EXTENDS Naturals, Sequences, FiniteSets

CONSTANTS Handlers,        \* requests that are served at the same time
          Paid,            \* the plans that can be bought
          Ring,            \* event ids remembered (50 in the code)
          MaxEvents,       \* bound: events Stripe creates
          DeliveryBudget,  \* bound: deliveries, repeats included
          MaxCustomers     \* bound: customers created

ASSUME BillingAssumption ==
  Ring \in Nat \ {0} /\ MaxEvents \in Nat /\ DeliveryBudget \in Nat /\ MaxCustomers \in Nat

VARIABLES stripe,      \* external: the live subscriptions
          events,      \* external: events in the order Stripe created them
          customers,   \* external: customers created so far
          org,         \* the row: plan and settings["billing"]
          hand,        \* requests in progress
          deliveries,
          applied,     \* history: how often each event was applied
          evicted,     \* history: events whose id fell out of the ring
          raced,       \* history: a settings document was overwritten unseen
          ordered      \* history: so far every event was applied in order

billingVars == <<stripe, events, customers, org, hand, deliveries, applied, evicted,
                 raced, ordered>>

NoCustomer == 0
Customers == 0..MaxCustomers
Ids == 1..MaxEvents
Billing == [status : {"none", "active", "past_due", "canceled"},
            cust : Customers, seen : Seq(Ids)]
Free == [handler |-> "free"]

(* A subscription is called by the number of the event that announced it.  *)
Subscriptions == [sub : Ids, plan : Paid, cust : Customers]

BillingTypeOK ==
  /\ stripe \subseteq Subscriptions
  /\ Len(events) <= MaxEvents
  /\ customers \in Customers
  /\ org.plan \in Paid \cup {"free"}
  /\ org.billing \in Billing /\ Len(org.billing.seen) <= Ring
  /\ deliveries \in 0..DeliveryBudget

BillingInit ==
  /\ stripe = {}
  /\ events = <<>>
  /\ customers = 0
  /\ org = [plan |-> "free",
            billing |-> [status |-> "none", cust |-> NoCustomer, seen |-> <<>>]]
  /\ hand = [h \in Handlers |-> Free]
  /\ deliveries = 0
  /\ applied = [i \in Ids |-> 0]
  /\ evicted = {}
  /\ raced = FALSE
  /\ ordered = TRUE

-----------------------------------------------------------------------------
(* Stripe: what create_checkout and create_portal set in motion.           *)

(* An event names the org in its metadata, except those about an invoice,  *)
(* which name the customer only.  It names its subscription too, which     *)
(* apply_webhook_event stores and never compares.                          *)
Emit(type, plan, meta, s) ==
  /\ Len(events) < MaxEvents
  /\ events' = Append(events, [type |-> type, plan |-> plan, meta |-> meta,
                               cust |-> s.cust, sub |-> s.sub])

(* A checkout is paid: nothing in create_checkout asks whether the org has *)
(* a subscription already, and the console offers it the other plans.      *)
Pay(plan, cust) ==
  LET s == [sub |-> Len(events) + 1, plan |-> plan, cust |-> cust]
  IN  /\ cust \in 1..customers
      /\ Emit("completed", plan, TRUE, s)
      /\ stripe' = stripe \cup {s}

Renew(s) == Emit("updated", s.plan, TRUE, s) /\ UNCHANGED stripe

PaymentFails(s) == Emit("payment_failed", "free", FALSE, s) /\ UNCHANGED stripe

Cancel(s) == Emit("deleted", "free", TRUE, s) /\ stripe' = stripe \ {s}

(* An event apply_webhook_event has no branch for.                         *)
OtherEvent(s) == Emit("other", "free", TRUE, s) /\ UNCHANGED stripe

-----------------------------------------------------------------------------
(* create_checkout: _ensure_customer reuses the stored customer, or makes  *)
(* one at Stripe and commits it.                                           *)
CheckoutLoad(h) ==
  /\ hand[h] = Free
  /\ org.billing.cust = NoCustomer
  /\ customers < MaxCustomers
  /\ customers' = customers + 1
  /\ hand' = [hand EXCEPT ![h] = [handler |-> "checkout", row |-> org,
                                  cust |-> customers + 1]]
  /\ UNCHANGED <<stripe, events, org, deliveries, applied, evicted, raced, ordered>>

CheckoutCommit(h) ==
  /\ hand[h].handler = "checkout"
  /\ org' = [org EXCEPT !.billing = [hand[h].row.billing EXCEPT !.cust = hand[h].cust]]
  /\ raced' = (raced \/ org # hand[h].row)
  /\ hand' = [hand EXCEPT ![h] = Free]
  /\ UNCHANGED <<stripe, events, customers, deliveries, applied, evicted, ordered>>

(* _resolve_org.                                                           *)
Resolves(e) == e.meta \/ e.cust = org.billing.cust

Seen(i, billing) == \E n \in 1..Len(billing.seen) : billing.seen[n] = i

(* apply_webhook_event, up to the check for repeats.  An event that is not *)
(* ours, or was seen, is acknowledged and forgotten.                       *)
WebhookLoad(h, i) ==
  /\ hand[h] = Free
  /\ i <= Len(events) /\ deliveries < DeliveryBudget
  /\ deliveries' = deliveries + 1
  /\ hand' = IF Resolves(events[i]) /\ ~Seen(i, org.billing)
             THEN [hand EXCEPT ![h] = [handler |-> "webhook", row |-> org, event |-> i]]
             ELSE hand
  /\ UNCHANGED <<stripe, events, customers, org, applied, evicted, raced, ordered>>

(* Variant: a failed payment ends the plan at once.                        *)
PlanAfterNoGrace(e, plan) ==
  CASE e.type \in {"completed", "updated"} -> e.plan
    [] e.type \in {"deleted", "payment_failed"} -> "free"
    [] OTHER -> plan

(* The branches of apply_webhook_event: the plan and the status.           *)
PlanAfter(e, plan) ==
  CASE e.type \in {"completed", "updated"} -> e.plan
    [] e.type = "deleted" -> "free"
    [] OTHER -> plan

StatusAfter(e, status) ==
  CASE e.type \in {"completed", "updated"} -> "active"
    [] e.type = "payment_failed" -> "past_due"
    [] e.type = "deleted" -> "canceled"
    [] OTHER -> status

(* Variant: the ring keeps the oldest ids instead of the newest.           *)
RememberOldest(seen, i) == SubSeq(Append(seen, i), 1, IF Len(seen) < Ring THEN Len(seen) + 1
                                                      ELSE Ring)

(* [*seen, event_id][-50:]                                                 *)
Remember(seen, i) ==
  LET all == Append(seen, i)
  IN  IF Len(all) > Ring THEN SubSeq(all, Len(all) - Ring + 1, Len(all)) ELSE all

(* apply_webhook_event, the rest.  The plan column is written when it      *)
(* differs from the one loaded, the settings document always.              *)
WebhookCommit(h) ==
  LET row == hand[h].row
      i == hand[h].event
      e == events[i]
      plan == PlanAfter(e, row.plan)
  IN  /\ hand[h].handler = "webhook"
      /\ org' = [plan |-> IF plan = row.plan THEN org.plan ELSE plan,
                 billing |-> [row.billing EXCEPT !.status = StatusAfter(e, @),
                                                 !.seen = Remember(@, i)]]
      /\ applied' = [applied EXCEPT ![i] = @ + 1]
      /\ evicted' = IF Len(row.billing.seen) = Ring
                    THEN evicted \cup {row.billing.seen[1]} ELSE evicted
      /\ raced' = (raced \/ org # row)
      /\ ordered' = (ordered /\ i = 1 + Cardinality({j \in Ids : applied[j] > 0}))
      /\ hand' = [hand EXCEPT ![h] = Free]
      /\ UNCHANGED <<stripe, events, customers, deliveries>>

BillingNext ==
  \/ /\ \/ \E p \in Paid, c \in Customers : Pay(p, c)
        \/ \E s \in stripe : Renew(s) \/ PaymentFails(s) \/ Cancel(s) \/ OtherEvent(s)
     /\ UNCHANGED <<customers, org, hand, deliveries, applied, evicted, raced, ordered>>
  \/ \E h \in Handlers : \/ CheckoutLoad(h) \/ CheckoutCommit(h) \/ WebhookCommit(h)
                         \/ \E i \in Ids : WebhookLoad(h, i)

BillingSpec == BillingInit /\ [][BillingNext]_billingVars

-----------------------------------------------------------------------------
(* Properties.                                                             *)

(* "Stripe retries webhooks, so skip events we've applied": an event is    *)
(* applied twice only when its id fell out of the ring, or when two        *)
(* handlers overlapped and one wrote back a document without it.           *)
AppliedOnce ==
  \A i \in Ids \ evicted : ~raced => applied[i] <= 1

(* The subscriptions that lived when event n had been created.             *)
Alive(n) ==
  {i \in 1..n : /\ events[i].type = "completed"
                /\ \A j \in 1..n : events[j].type = "deleted" => events[j].sub # i}

(* "Keep the plan until Stripe cancels it" (apply_webhook_event): as long  *)
(* as events arrive in the order they were created and handlers do not     *)
(* overlap, the org has no paid plan that no living subscription pays for  *)
(* at the last event applied; and a subscription that lives there has its  *)
(* plan in force, through renewals, failed payments, cancellations and new *)
(* subscriptions, if there never were two at once.  With two, the end of   *)
(* the older one takes the plan of the newer away.                         *)
PlanFollows ==
  \A n \in 0..Len(events) :
    (ordered /\ ~raced /\ {i \in Ids : applied[i] > 0} = 1..n)
    => /\ org.plan # "free" => \E i \in Alive(n) : events[i].plan = org.plan
       /\ (\A m \in 1..n : \A i, j \in Alive(m) : i = j)
          => \A i \in Alive(n) : events[i].plan = org.plan
=============================================================================
