----------------------------- MODULE StripeEvents -----------------------------
(***************************************************************************)
(* What a Stripe subscription event means to an account (stripe-events.ts  *)
(* and the rules of BillingRepository.apply). No state: Billing applies    *)
(* these rules statement by statement, BillingBook in one step.            *)
(***************************************************************************)
EXTENDS Integers

CONSTANTS
    MaxSubs,      \* bound: subscriptions at Stripe, numbered as they are made
    MaxCustomers, \* bound: customers at Stripe, numbered as they are made
    PaidPlans,    \* the plans of STRIPE_PLANS, each named after its price
    DefaultPlan,  \* the plan everyone starts on
    OtherPrice,   \* a price that is not in STRIPE_PLANS
    MaxTime       \* bound: Stripe's clock

None == 0
Subs == 1..MaxSubs
Customers == 1..MaxCustomers

\* "active" stands for trialing and past_due as well; "paused" for the end that a
\* subscription may come back from, "canceled" for the others.
LIVE_STATUSES == {"active"}
ENDED_STATUSES == {"canceled", "paused"}
Statuses == LIVE_STATUSES \cup ENDED_STATUSES \cup {"incomplete"}

\* The type decides where it matters: "deleted" may carry any status.
EventRecords ==
    [id : Nat, type : {"created", "updated", "deleted"}, sub : Subs, customer : Customers,
     status : Statuses, price : PaidPlans \cup {OtherPrice}, created : 0..MaxTime]

\* The row of "subscription" beside user.plan, which it decides.
SubscriptionRows ==
    [customer : Customers \cup {None}, sub : Subs \cup {None}, status : Statuses \cup {"none"},
     last : -1..MaxTime, plan : PaidPlans \cup {DefaultPlan}]

NewAccount == [customer |-> None, sub |-> None, status |-> "none", last |-> -1, plan |-> DefaultPlan]

\* Mutant: the status is believed even when the subscription was deleted.
StatusAsSent(event) == event.status

StatusOf(event) == IF event.type = "deleted" THEN "canceled" ELSE event.status

\* Mutant: any price is taken for a plan.
DecidePlanOfAnyPrice(event, plan) ==
    CASE StatusOf(event) \in ENDED_STATUSES -> DefaultPlan
      [] StatusOf(event) \in LIVE_STATUSES -> event.price
      [] OTHER -> plan

\* The plan after the event: granted, taken away, or left alone.
DecidePlan(event, plan) ==
    CASE StatusOf(event) \in ENDED_STATUSES -> DefaultPlan
      [] StatusOf(event) \in LIVE_STATUSES /\ event.price \in PaidPlans -> event.price
      [] OTHER -> plan

UnknownCustomer(row, event) == row.customer # event.customer
\* Mutant: events are taken in the order of their arrival.
StaleNever(row, event) == FALSE

Stale(row, event) == event.created < row.last
OtherSubscription(row, event) ==
    row.sub # None /\ row.sub # event.sub /\ row.status \in LIVE_STATUSES

Applies(row, event) ==
    ~UnknownCustomer(row, event) /\ ~Stale(row, event) /\ ~OtherSubscription(row, event)

Applied(row, event) ==
    [row EXCEPT !.sub = event.sub, !.status = StatusOf(event), !.last = event.created,
                !.plan = DecidePlan(event, row.plan)]

===============================================================================
