------------------------------- MODULE Billing --------------------------------
(***************************************************************************)
(* The subscription of one account: checkout, Stripe's webhook, and the    *)
(* deletion of the account (billing.service.ts, billing.repository.ts,     *)
(* billing-webhook.plugin.ts, stripe.api.ts, account.service.ts).          *)
(*                                                                         *)
(* Stripe is a process of its own: it keeps subscriptions, emits an event  *)
(* for each change, delivers events in any order and again until one       *)
(* delivery is answered with 200. Deliveries, checkouts and a deletion run *)
(* at once, and each is as many steps as it makes statements and calls.    *)
(***************************************************************************)
EXTENDS StripeEvents, FiniteSets

CONSTANTS
    Workers,      \* webhook requests in progress
    Requests,     \* checkout requests ever made
    MaxEvents,    \* bound: events Stripe emits
    MaxFailures,  \* bound: transactions and calls that fail
    MaxPerTime,   \* bound: events emitted in one second
    Overlapping   \* whether different events may be delivered at once

ASSUME BillingAssumption ==
    /\ MaxEvents \in Nat /\ MaxFailures \in Nat /\ MaxPerTime \in Nat /\ MaxTime \in Nat
    /\ Overlapping \in BOOLEAN
    /\ DefaultPlan \notin PaidPlans /\ OtherPrice \notin PaidPlans
    /\ MaxSubs \in Nat /\ MaxCustomers \in Nat

VARIABLES
    stripe,    \* Stripe's subscriptions, customers and payment pages
    issued,    \* the events Stripe has emitted
    handled,   \* table stripe_event
    row,       \* the account's subscription row and plan
    account,   \* "open" or "gone"
    delivery,  \* what each webhook request is doing
    checkout,  \* what each checkout request is doing
    deletion,  \* what AccountService.delete is doing
    failures

billingVars == <<stripe, issued, handled, row, account, delivery, checkout, deletion, failures>>

Pages == [customer : Customers, plan : PaidPlans]
NoEvent == [id |-> 0]
NoSub == [customer |-> None, status |-> "none", price |-> OtherPrice]

BillingTypeOK ==
    /\ stripe.subs \in [Subs -> [customer : Customers \cup {None}, status : Statuses \cup {"none"},
                                 price : PaidPlans \cup {OtherPrice}]]
    /\ stripe.customers \in 0..MaxCustomers
    /\ stripe.pages \subseteq Pages
    /\ issued \subseteq EventRecords
    /\ handled \subseteq issued
    /\ row \in SubscriptionRows
    /\ account \in {"open", "gone"}
    /\ delivery \in [Workers -> [pc : {"idle", "read"}, event : issued \cup {NoEvent}, seen : SubscriptionRows]]
    /\ checkout \in [Requests -> [pc : {"new", "customer", "remember", "session", "done"},
                                  plan : PaidPlans \cup {DefaultPlan}, customer : Customers \cup {None}]]
    /\ deletion \in [pc : {"idle", "read", "cancelled"}, sub : Subs \cup {None}]
    /\ failures \in 0..MaxFailures

IdleDelivery == [pc |-> "idle", event |-> NoEvent, seen |-> NewAccount]
NewCheckout == [pc |-> "new", plan |-> DefaultPlan, customer |-> None]
IdleDeletion == [pc |-> "idle", sub |-> None]

BillingInit ==
    /\ stripe = [subs |-> [s \in Subs |-> NoSub], customers |-> 0, pages |-> {}]
    /\ issued = {} /\ handled = {}
    /\ row = NewAccount /\ account = "open"
    /\ delivery = [w \in Workers |-> IdleDelivery]
    /\ checkout = [r \in Requests |-> NewCheckout]
    /\ deletion = IdleDeletion
    /\ failures = 0

(***************************************************************************)
(* Stripe.                                                                 *)
(***************************************************************************)
Live(s) == stripe.subs[s].status \in LIVE_STATUSES

\* A deleted subscription's event carries whatever status its object had. Seconds
\* without an event are not told apart.
Emit(type, s, sub, sent) ==
    /\ Cardinality(issued) < MaxEvents
    /\ \E now \in 0..MaxTime :
        /\ \A e \in issued : e.created <= now
        /\ \A earlier \in 0..now - 1 : \E e \in issued : e.created = earlier
        /\ Cardinality({e \in issued : e.created = now}) < MaxPerTime
        /\ issued' = issued \cup {[id |-> Cardinality(issued) + 1, type |-> type, sub |-> s,
                                   customer |-> sub.customer, status |-> sent, price |-> sub.price,
                                   created |-> now]}

Pay(page, s) ==
    /\ s = Cardinality({used \in Subs : stripe.subs[used].status # "none"}) + 1
    /\ \E status \in {"active", "incomplete"} :
        LET sub == [customer |-> page.customer, status |-> status, price |-> page.plan]
        IN /\ stripe' = [stripe EXCEPT !.subs[s] = sub, !.pages = @ \ {page}]
           /\ Emit("created", s, sub, status)
    /\ UNCHANGED <<handled, row, account, delivery, checkout, deletion, failures>>

\* A payment succeeds or fails for good, a trial is paused, the portal changes the price.
Change(s) ==
    /\ stripe.subs[s].status \in {"incomplete", "active", "paused"}
    /\ \E sub \in {[stripe.subs[s] EXCEPT !.status = status] : status \in {"active", "paused"}}
              \cup {[stripe.subs[s] EXCEPT !.price = price] : price \in PaidPlans \cup {OtherPrice}} :
        /\ sub # stripe.subs[s]
        /\ stripe' = [stripe EXCEPT !.subs[s] = sub]
        /\ Emit("updated", s, sub, sub.status)
    /\ UNCHANGED <<handled, row, account, delivery, checkout, deletion, failures>>

Cancelled(s) ==
    LET sub == [stripe.subs[s] EXCEPT !.status = "canceled"]
    IN /\ stripe' = [stripe EXCEPT !.subs[s] = sub]
       /\ Emit("deleted", s, sub, stripe.subs[s].status)

Cancel(s) ==
    /\ stripe.subs[s].status \notin {"none", "canceled"}
    /\ Cancelled(s)
    /\ UNCHANGED <<handled, row, account, delivery, checkout, deletion, failures>>

Fail == failures < MaxFailures /\ failures' = failures + 1

(***************************************************************************)
(* The webhook. The id is inserted and the row read in a transaction that  *)
(* nobody sees before its commit; the same id inserted by another waits    *)
(* for that one.                                                           *)
(***************************************************************************)
InProgress(event) == \E w \in Workers : delivery[w].event = event

Deliver(w, event) ==
    /\ delivery[w].pc = "idle"
    /\ event \in issued \ handled
    /\ ~InProgress(event)
    /\ ~Overlapping => \A v \in Workers : delivery[v].pc = "idle"
    /\ delivery' = [delivery EXCEPT ![w] = [pc |-> "read", event |-> event, seen |-> row]]
    /\ UNCHANGED <<stripe, issued, handled, row, account, checkout, deletion, failures>>

\* Mutant: an event about an unknown customer is an error.
CommitKnown(w) ==
    LET event == delivery[w].event
        seen == delivery[w].seen
    IN
    /\ delivery[w].pc = "read" /\ ~UnknownCustomer(seen, event)
    /\ handled' = handled \cup {event}
    /\ row' = IF Applies(seen, event) THEN Applied(seen, event) ELSE row
    /\ delivery' = [delivery EXCEPT ![w] = IdleDelivery]
    /\ UNCHANGED <<stripe, issued, account, checkout, deletion, failures>>

\* The customer is found by its own statement; the rest of the row is what was read.
Commit(w) ==
    LET event == delivery[w].event
        seen == delivery[w].seen
    IN
    /\ delivery[w].pc = "read"
    /\ Applies(seen, event) => account = "open"
    /\ handled' = handled \cup {event}
    /\ row' = IF Applies(seen, event) THEN Applied(seen, event) ELSE row
    /\ delivery' = [delivery EXCEPT ![w] = IdleDelivery]
    /\ UNCHANGED <<stripe, issued, account, checkout, deletion, failures>>

\* The user and its row are gone when the update comes: the transaction throws.
RowIsGone(w) ==
    /\ delivery[w].pc = "read" /\ account = "gone" /\ Applies(delivery[w].seen, delivery[w].event)
    /\ delivery' = [delivery EXCEPT ![w] = IdleDelivery]
    /\ UNCHANGED <<stripe, issued, handled, row, account, checkout, deletion, failures>>

\* Mutant: the id is recorded before the transaction begins.
DeliveryFailsRecorded(w) ==
    /\ delivery[w].pc = "read"
    /\ Fail
    /\ handled' = handled \cup {delivery[w].event}
    /\ delivery' = [delivery EXCEPT ![w] = IdleDelivery]
    /\ UNCHANGED <<stripe, issued, row, account, checkout, deletion>>

\* Answered with 500, or not at all: nothing of the transaction is left.
DeliveryFails(w) ==
    /\ delivery[w].pc = "read"
    /\ Fail
    /\ delivery' = [delivery EXCEPT ![w] = IdleDelivery]
    /\ UNCHANGED <<stripe, issued, handled, row, account, checkout, deletion>>

(***************************************************************************)
(* BillingService.startCheckout.                                           *)
(***************************************************************************)
StartCheckout(r, plan) ==
    /\ account = "open" /\ checkout[r].pc = "new"
    /\ ~(row.sub # None /\ row.status \in LIVE_STATUSES)
    /\ checkout' = [checkout EXCEPT ![r] =
           [pc |-> IF row.customer = None THEN "customer" ELSE "session",
            plan |-> plan, customer |-> row.customer]]
    /\ UNCHANGED <<stripe, issued, handled, row, account, delivery, deletion, failures>>

\* One customer for one idempotency key, as long as Stripe keeps the key.
CreateCustomer(r) ==
    /\ checkout[r].pc = "customer"
    /\ \E c \in {stripe.customers, stripe.customers + 1} \cap Customers :
        /\ stripe' = [stripe EXCEPT !.customers = c]
        /\ checkout' = [checkout EXCEPT ![r].pc = "remember", ![r].customer = c]
    /\ UNCHANGED <<issued, handled, row, account, delivery, deletion, failures>>

\* Mutant: the request goes on with the customer it created itself.
RememberOwnCustomer(r) ==
    /\ checkout[r].pc = "remember" /\ account = "open"
    /\ row' = [row EXCEPT !.customer = IF @ = None THEN checkout[r].customer ELSE @]
    /\ checkout' = [checkout EXCEPT ![r].pc = "session"]
    /\ UNCHANGED <<stripe, issued, handled, account, delivery, deletion, failures>>

\* INSERT ... ON CONFLICT DO NOTHING, then the row that is there.
RememberCustomer(r) ==
    /\ checkout[r].pc = "remember" /\ account = "open"
    /\ row' = [row EXCEPT !.customer = IF @ = None THEN checkout[r].customer ELSE @]
    /\ checkout' = [checkout EXCEPT ![r].pc = "session", ![r].customer = row'.customer]
    /\ UNCHANGED <<stripe, issued, handled, account, delivery, deletion, failures>>

\* The same page for the same request in the same window.
OpenPage(r) ==
    /\ checkout[r].pc = "session"
    /\ stripe' = [stripe EXCEPT !.pages = @ \cup
           {[customer |-> checkout[r].customer, plan |-> checkout[r].plan]}]
    /\ checkout' = [checkout EXCEPT ![r] = [NewCheckout EXCEPT !.pc = "done"]]
    /\ UNCHANGED <<issued, handled, row, account, delivery, deletion, failures>>

CheckoutFails(r) ==
    /\ checkout[r].pc \notin {"new", "done"}
    /\ Fail
    /\ checkout' = [checkout EXCEPT ![r] = [NewCheckout EXCEPT !.pc = "done"]]
    /\ UNCHANGED <<stripe, issued, handled, row, account, delivery, deletion>>

(***************************************************************************)
(* AccountService.delete: the subscription first, then the account.        *)
(***************************************************************************)
ReadSubscription ==
    /\ account = "open" /\ deletion.pc = "idle"
    /\ deletion' = IF row.sub = None \/ row.status = "canceled"
                   THEN [pc |-> "cancelled", sub |-> None]
                   ELSE [pc |-> "read", sub |-> row.sub]
    /\ UNCHANGED <<stripe, issued, handled, row, account, delivery, checkout, failures>>

\* One that is already gone is not an error.
CancelSubscription ==
    /\ deletion.pc = "read"
    /\ IF stripe.subs[deletion.sub].status = "canceled"
       THEN UNCHANGED <<stripe, issued>>
       ELSE Cancelled(deletion.sub)
    /\ deletion' = [pc |-> "cancelled", sub |-> None]
    /\ UNCHANGED <<handled, row, account, delivery, checkout, failures>>

\* Stripe does not answer; or a project would be left without an owner.
DeletionFails ==
    /\ deletion.pc # "idle"
    /\ Fail
    /\ deletion' = IdleDeletion
    /\ UNCHANGED <<stripe, issued, handled, row, account, delivery, checkout>>

DeleteAccount ==
    /\ deletion.pc = "cancelled"
    /\ account' = "gone"
    /\ row' = NewAccount
    /\ deletion' = IdleDeletion
    /\ UNCHANGED <<stripe, issued, handled, delivery, checkout, failures>>

WebhookStep ==
    \E w \in Workers : Commit(w) \/ RowIsGone(w) \/ \E event \in issued : Deliver(w, event)

BillingNext ==
    \/ \E s \in Subs : Change(s) \/ Cancel(s) \/ \E page \in stripe.pages : Pay(page, s)
    \/ WebhookStep
    \/ \E w \in Workers : DeliveryFails(w)
    \/ \E r \in Requests :
        \/ \E plan \in PaidPlans : StartCheckout(r, plan)
        \/ CreateCustomer(r)
        \/ RememberCustomer(r)
        \/ OpenPage(r)
        \/ CheckoutFails(r)
    \/ ReadSubscription
    \/ CancelSubscription
    \/ DeletionFails
    \/ DeleteAccount

BillingSpec == BillingInit /\ [][BillingNext]_billingVars

\* Stripe delivers again what was not answered with 200.
FairBilling == BillingSpec /\ WF_billingVars(WebhookStep)

(***************************************************************************)
(* Properties.                                                             *)
(***************************************************************************)
\* BillingRepository.apply: whatever is delivered twice, late, or fails in
\* between, each event counts at most once and the row is what the handled
\* events made of it, one after the other.
Book == INSTANCE BillingBook
BookIsKept == Book!BookSpec

\* BillingService.createCustomer: requests that race, or come back after Stripe
\* forgot the idempotency key, never send anybody to a payment page of a
\* customer the webhook would not know.
PayerIsKnown ==
    account = "open" =>
        \A s \in Subs : stripe.subs[s].customer \in {None, row.customer}

Settled == account = "open" /\ handled = issued

\* decidePlan and the rules of apply: once Stripe has told everything, in any
\* order, an account that only ever had one subscription is on the plan it pays
\* for, and on the plan everyone starts on when it no longer pays.
PlanFollowsTheSubscription ==
    \A s \in Subs :
        Settled /\ (\A other \in Subs \ {s} : stripe.subs[other].status = "none") =>
            /\ Live(s) /\ stripe.subs[s].price \in PaidPlans => row.plan = stripe.subs[s].price
            /\ stripe.subs[s].status \in ENDED_STATUSES => row.plan = DefaultPlan

\* BillingService: an account is on the plan it pays for, and whoever pays is an account
\* the webhook knows.
PlansArePaidFor == PlanFollowsTheSubscription /\ PayerIsKnown

\* registerBillingWebhook: an event is answered with 200 in the end, also when
\* the account it is about is gone.
EventsSettle ==
    \A id \in 1..MaxEvents :
        (\E e \in issued : e.id = id) ~> (\E e \in handled : e.id = id)

\* Subscription.lastEventAt: "so a late one cannot undo a later one". Not so when
\* deliveries overlap, each having read the row before the other wrote it.
LateEventUndoesNothing == [][row'.customer = row.customer => row'.last >= row.last]_billingVars

\* cancelForAccount: "deleting the account must not leave a card being charged
\* for it". Not so when the payment is made, or heard of, after the row was read.
GoneMeansNotCharged == account = "gone" => \A s \in Subs : ~Live(s)
===============================================================================
