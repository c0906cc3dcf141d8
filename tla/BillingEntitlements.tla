------------------------- MODULE BillingEntitlements -------------------------
(***************************************************************************)
(* server/billing/checkout.ts and webhook.ts over db/services/billing.ts:   *)
(* the entitlement of one person or organization, which checkouts of its     *)
(* browsers and the webhooks of Stripe read and write in separate            *)
(* statements.                                                               *)
(*                                                                         *)
(* Stripe is external: its subscriptions change, and it sends an event with  *)
(* the subscription as it was then, again after an answer that is not a      *)
(* success.  Stripe does not promise an order; Delivery says whether it      *)
(* keeps one.                                                                *)
(***************************************************************************)
EXTENDS Naturals, Sequences, SequencesExt

CONSTANTS
    Subscriptions,  \* subscriptions that the subject may buy
    Checkouts,      \* browsers that check out
    Handlers,       \* webhook requests at a time
    Delivery,       \* "ordered", one after the other, or "any"
    Faults,         \* subset of {"stripe", "crash", "database"}
    MaxChanges,     \* bound on the changes of the subscriptions
    None

VARIABLES
    row,        \* billing_entitlements of the subject, or None
    bought,     \* Stripe: the status of each subscription
    changes,    \* Stripe: how often they changed
    events,     \* Stripe: events without an acknowledgement, oldest first
    handler,    \* handleStripeWebhook
    checkout    \* createCheckoutSession

billingVars == <<row, bought, changes, events, handler, checkout>>

Status == {"active", "past_due", "canceled", "incomplete"}
Row == [plan : {"free", "paid"}, status : Status, customer : BOOLEAN,
        subscription : Subscriptions \cup {None}]
Event == [type : {"completed", "changed"}, of : Subscriptions, status : Status]
Handler == [at : {"idle", "reads", "writes", "retrieves"}, event : Event \cup {None},
            first : BOOLEAN, status : Status, found : BOOLEAN]
Checkout == [at : {"idle", "creates", "reads", "writes", "offered"}, plan : {"free", "paid"},
             status : Status, found : BOOLEAN]

BillingTypeOK ==
    /\ row \in Row \cup {None}
    /\ bought \in [Subscriptions -> Status \cup {None}]
    /\ changes \in 0..MaxChanges
    /\ events \in Seq(Event)
    /\ handler \in [Handlers -> Handler]
    /\ checkout \in [Checkouts -> Checkout]

Waiting == [at |-> "idle", event |-> None, first |-> FALSE, status |-> "active", found |-> FALSE]
NoCheckout == [at |-> "idle", plan |-> "free", status |-> "active", found |-> FALSE]

BillingInit ==
    /\ row = None /\ bought = [k \in Subscriptions |-> None] /\ changes = 0 /\ events = <<>>
    /\ handler = [h \in Handlers |-> Waiting] /\ checkout = [b \in Checkouts |-> NoCheckout]

\* toResolved: a plan counts while its status does; no row is the free plan.
EffectivePlan ==
    IF row # None /\ row.plan = "paid" /\ row.status \in {"active", "past_due"}
    THEN "paid" ELSE "free"
EffectiveStatus == IF row = None THEN "active" ELSE row.status
HasCustomer == IF row = None THEN FALSE ELSE row.customer

(***************************************************************************)
(* Stripe                                                                   *)
(***************************************************************************)

Changed(k, status) == [type |-> "changed", of |-> k, status |-> status]
Completed(k) == [type |-> "completed", of |-> k, status |-> "active"]

\* The person pays on the page of a checkout: the subscription is created, it is
\* active with the first payment, and the session is completed.
Pays(b, k) ==
    /\ checkout[b].at = "offered" /\ bought[k] = None
    /\ checkout' = [checkout EXCEPT ![b] = NoCheckout]
    /\ bought' = [bought EXCEPT ![k] = "active"]
    /\ events' = events \o <<Changed(k, "incomplete"), Changed(k, "active"), Completed(k)>>
    /\ UNCHANGED <<row, changes, handler>>

Leaves(b) ==
    /\ checkout[b].at = "offered" /\ checkout' = [checkout EXCEPT ![b] = NoCheckout]
    /\ UNCHANGED <<row, bought, changes, events, handler>>

Changes(k) ==
    /\ changes < MaxChanges /\ changes' = changes + 1
    /\ \/ bought[k] = "active" /\ bought' = [bought EXCEPT ![k] = "past_due"]
       \/ bought[k] = "past_due" /\ bought' = [bought EXCEPT ![k] = "active"]
       \/ bought[k] \in {"active", "past_due"} /\ bought' = [bought EXCEPT ![k] = "canceled"]
    /\ events' = Append(events, Changed(k, bought'[k]))
    /\ UNCHANGED <<row, handler, checkout>>

Next1 == IF events = <<>> THEN {} ELSE IF Delivery = "any" THEN DOMAIN events ELSE {1}

\* In order, an event is sent when the one before it was acknowledged.
Sends(h, i) ==
    /\ handler[h].at = "idle" /\ i \in Next1
    /\ Delivery = "ordered" => \A o \in Handlers : handler[o].at = "idle"
    /\ events' = RemoveAt(events, i)
    /\ handler' = [handler EXCEPT ![h] =
                     [at |-> "reads", event |-> events[i], first |-> events[i].type = "completed",
                      status |-> events[i].status, found |-> FALSE]]
    /\ UNCHANGED <<row, bought, changes, checkout>>

(***************************************************************************)
(* The webhook                                                              *)
(***************************************************************************)

\* upsertEntitlement selects the row, then updates or inserts it.
Reads(h) ==
    /\ handler[h].at = "reads"
    /\ handler' = [handler EXCEPT ![h].at = "writes", ![h].found = row # None]
    /\ UNCHANGED <<row, bought, changes, events, checkout>>

\* Not acknowledged: Stripe sends the event again, before those that wait.
Fails(h) ==
    /\ handler' = [handler EXCEPT ![h] = Waiting]
    /\ events' = <<handler[h].event>> \o events

\* applySubscription.
PlanOf(status) == [plan |-> IF status = "canceled" THEN "free" ELSE "paid", status |-> status]

\* applyCheckoutSession goes on to the subscription as it is now.
AfterWrite(m) == IF m.first THEN [m EXCEPT !.at = "retrieves"] ELSE Waiting

Writes(h) ==
    LET m == handler[h]
    IN /\ m.at = "writes"
       /\ IF m.found \/ row = None
          THEN /\ row' = [plan |-> PlanOf(m.status).plan, status |-> PlanOf(m.status).status,
                          customer |-> TRUE, subscription |-> m.event.of]
               /\ handler' = [handler EXCEPT ![h] = AfterWrite(m)]
               /\ UNCHANGED events
          ELSE \* billing_entitlements_subject_uidx
               Fails(h) /\ UNCHANGED row
       /\ UNCHANGED <<bought, changes, checkout>>

Retrieves(h) ==
    LET m == handler[h]
    IN /\ m.at = "retrieves"
       /\ \/ /\ handler' = [handler EXCEPT ![h] =
                  [m EXCEPT !.at = "reads", !.first = FALSE, !.status = bought[m.event.of]]]
             /\ UNCHANGED events
          \/ "stripe" \in Faults /\ Fails(h)
       /\ UNCHANGED <<row, bought, changes, checkout>>

Crashes(h) ==
    /\ "crash" \in Faults /\ handler[h].at # "idle" /\ Fails(h)
    /\ UNCHANGED <<row, bought, changes, checkout>>

(***************************************************************************)
(* The checkout                                                             *)
(***************************************************************************)

\* readEntitlement: what cannot be read is the free plan without a customer.
Opens(b) ==
    /\ checkout[b].at = "idle"
    /\ \/ /\ HasCustomer
          /\ checkout' = [checkout EXCEPT ![b] = [NoCheckout EXCEPT !.at = "offered"]]
       \/ /\ ~HasCustomer
          /\ checkout' = [checkout EXCEPT ![b] = [NoCheckout EXCEPT !.at = "creates",
                            !.plan = EffectivePlan, !.status = EffectiveStatus]]
       \/ /\ "database" \in Faults
          /\ checkout' = [checkout EXCEPT ![b] = [NoCheckout EXCEPT !.at = "creates"]]
    /\ UNCHANGED <<row, bought, changes, events, handler>>

\* stripe.customers.create.
Creates(b) ==
    /\ checkout[b].at = "creates"
    /\ \/ checkout' = [checkout EXCEPT ![b].at = "reads"]
       \/ "stripe" \in Faults /\ checkout' = [checkout EXCEPT ![b] = NoCheckout]
    /\ UNCHANGED <<row, bought, changes, events, handler>>

Finds(b) ==
    /\ checkout[b].at = "reads"
    /\ checkout' = [checkout EXCEPT ![b].at = "writes", ![b].found = row # None]
    /\ UNCHANGED <<row, bought, changes, events, handler>>

\* Mutant of Kept: the plan that was chosen is the plan of the row.
KeptChosen(m) == [plan |-> "paid", status |-> "active"]
Kept(m) == [plan |-> m.plan, status |-> m.status]

\* The customer is stored with the plan that was read.
Stores(b) ==
    LET m == checkout[b]
    IN /\ m.at = "writes"
       /\ IF m.found \/ row = None
          THEN /\ row' = [plan |-> Kept(m).plan, status |-> Kept(m).status, customer |-> TRUE,
                          subscription |-> IF row = None THEN None ELSE row.subscription]
               /\ checkout' = [checkout EXCEPT ![b] = [NoCheckout EXCEPT !.at = "offered"]]
          ELSE /\ checkout' = [checkout EXCEPT ![b] = NoCheckout] /\ UNCHANGED row
       /\ UNCHANGED <<bought, changes, events, handler>>

Handles(h) == (\E i \in DOMAIN events : Sends(h, i)) \/ Reads(h) \/ Writes(h) \/ Retrieves(h)
ChecksOut(b) == Opens(b) \/ Creates(b) \/ Finds(b) \/ Stores(b) \/ Leaves(b)

BillingNext ==
    \/ \E b \in Checkouts : ChecksOut(b)
    \/ \E b \in Checkouts, k \in Subscriptions : Pays(b, k)
    \/ \E k \in Subscriptions : Changes(k)
    \/ \E h \in Handlers : Handles(h) \/ Crashes(h)

BillingSpec == BillingInit /\ [][BillingNext]_billingVars

\* Stripe sends again what was not acknowledged, and a request that begins again
\* and again gets past each of its statements some time.
BillingFairness ==
    \A h \in Handlers :
        /\ WF_billingVars(Handles(h))
        /\ SF_billingVars(Retrieves(h) /\ handler'[h].at = "reads")
        /\ \A first \in BOOLEAN :
              /\ SF_billingVars(Reads(h) /\ handler[h].first = first)
              /\ SF_billingVars(Writes(h) /\ handler[h].first = first)

(***************************************************************************)
(* Properties                                                               *)
(***************************************************************************)

Paid == \E k \in Subscriptions : bought[k] \in {"active", "past_due"}
Settled == /\ events = <<>> /\ \A h \in Handlers : handler[h].at = "idle"
           /\ \A b \in Checkouts : checkout[b].at \in {"idle", "offered"}

\* Opening a checkout proves nothing: until something was bought the plan is
\* the free one, whatever checkouts are open and store their customers.
NothingForNothing ==
    (\A k \in Subscriptions : bought[k] = None) => EffectivePlan = "free"

\* Once Stripe has nothing more to send, whoever pays has the plan
\* (applySubscription, applyCheckoutSession).
PaidIsEntitled == Settled /\ Paid => EffectivePlan = "paid"

\* Once Stripe has nothing more to send, whoever does not pay has the free
\* plan.
UnpaidIsFree == Settled /\ ~Paid => EffectivePlan = "free"

\* A checkout stores a customer and leaves the plan to the webhooks
\* (createCheckoutSession).
OnlyWebhooksChangePlans ==
    (\A h \in Handlers : handler'[h] = handler[h]) => EffectivePlan' = EffectivePlan

\* Who pays gets the plan, and who stopped paying loses it, also when requests
\* to Stripe fail or handlers die between two statements (Stripe sends the
\* event again).
PlansFollow ==
    /\ Paid ~> (EffectivePlan = "paid" \/ ~Paid)
    /\ (~Paid /\ row # None) ~> (EffectivePlan = "free" \/ Paid)
=============================================================================
