---------------------------- MODULE BillingProofs -----------------------------
(***************************************************************************)
(* Billing is well typed and implements BillingBook, for any number of     *)
(* customers, subscriptions, events, webhook and checkout requests, and    *)
(* whatever fails.                                                         *)
(***************************************************************************)
EXTENDS Billing, FiniteSetTheorems, TLAPS

Subscriptions == [customer : Customers \cup {None}, status : Statuses \cup {"none"},
                  price : PaidPlans \cup {OtherPrice}]

StripeRecords == [subs : [Subs -> Subscriptions], customers : 0..MaxCustomers, pages : SUBSET Pages]

Made(s) == s \in Subs /\ stripe.subs[s].status # "none"

(***************************************************************************)
(* Whoever speaks of a subscription or of a customer speaks of one that    *)
(* Stripe has: the events, the row, and the requests under way.            *)
(***************************************************************************)
MentionsExist ==
    /\ \A s \in Subs : Made(s) => stripe.subs[s].customer # None
    /\ \A e \in issued : Made(e.sub) /\ e.customer # None
    /\ row.sub # None => Made(row.sub)
    /\ \A w \in Workers : delivery[w].pc = "read" => delivery[w].event \in issued
    /\ \A r \in Requests :
        /\ checkout[r].pc \in {"remember", "session"} => checkout[r].customer # None
        /\ checkout[r].pc \in {"customer", "remember", "session"} => checkout[r].plan \in PaidPlans
    /\ deletion.pc = "read" => Made(deletion.sub)

BillingTypeInv ==
    /\ BillingTypeOK
    /\ stripe \in StripeRecords
    /\ IsFiniteSet(issued)
    /\ MentionsExist

(***************************************************************************)
(* As long as the account is there, everything at Stripe is of the         *)
(* customer in its row; afterwards there is no row.                        *)
(***************************************************************************)
OneCustomer ==
    /\ account = "open" =>
        /\ \A s \in Subs : stripe.subs[s].customer \in {None, row.customer}
        /\ \A page \in stripe.pages : page.customer = row.customer
        /\ \A e \in issued : e.customer = row.customer
        /\ \A r \in Requests : checkout[r].pc = "session" => checkout[r].customer = row.customer
    /\ account = "gone" => row = NewAccount

(***************************************************************************)
(* Where deliveries do not overlap, one that has read the row still has    *)
(* it before its eyes, and its event is not handled yet.                   *)
(***************************************************************************)
ReadIsCurrent ==
    /\ \A v, w \in Workers : delivery[v].pc = "read" /\ delivery[w].pc = "read" => v = w
    /\ \A w \in Workers : delivery[w].pc = "read" =>
        /\ delivery[w].event \notin handled
        /\ account = "open" => delivery[w].seen = row

BillingInv == BillingTypeInv /\ OneCustomer /\ (~Overlapping => ReadIsCurrent)

-----------------------------------------------------------------------------
(* What an event makes of a row is a row.                                  *)
LEMMA AppliedIsRow ==
    ASSUME NEW seen \in SubscriptionRows, NEW event \in EventRecords
    PROVE  Applied(seen, event) \in SubscriptionRows
<1>1. StatusOf(event) \in Statuses
  BY DEF StatusOf, EventRecords, Statuses, ENDED_STATUSES
<1>2. DecidePlan(event, seen.plan) \in PaidPlans \cup {DefaultPlan}
  BY DEF DecidePlan, SubscriptionRows
<1>3. event.created \in -1..MaxTime
  BY BillingAssumption DEF EventRecords
<1> QED
  BY <1>1, <1>2, <1>3 DEF Applied, SubscriptionRows, EventRecords

(* Emitting adds one event, about the subscription it is emitted for.      *)
LEMMA EmitAddsOne ==
    ASSUME BillingTypeInv,
           NEW type \in {"created", "updated", "deleted"}, NEW s \in Subs,
           NEW sub \in Subscriptions, sub.customer # None,
           NEW sent \in Statuses, Emit(type, s, sub, sent)
    PROVE  /\ issued \subseteq issued'
           /\ issued' \subseteq EventRecords
           /\ IsFiniteSet(issued')
           /\ \A e \in issued' \ issued : e.sub = s /\ e.customer = sub.customer
<1>1. PICK now \in 0..MaxTime :
        issued' = issued \cup {[id |-> Cardinality(issued) + 1, type |-> type, sub |-> s,
                                customer |-> sub.customer, status |-> sent, price |-> sub.price,
                                created |-> now]}
  BY DEF Emit
<1> DEFINE event == [id |-> Cardinality(issued) + 1, type |-> type, sub |-> s,
                     customer |-> sub.customer, status |-> sent, price |-> sub.price,
                     created |-> now]
<1>2. Cardinality(issued) \in Nat
  BY FS_CardinalityType DEF BillingTypeInv
<1>3. event \in EventRecords
  BY <1>2 DEF EventRecords, Subscriptions
<1>4. issued' = issued \cup {event}
  BY <1>1
<1>5. IsFiniteSet(issued')
  BY <1>4, FS_AddElement DEF BillingTypeInv
<1>6. event.sub = s /\ event.customer = sub.customer
  OBVIOUS
<1> HIDE DEF event
<1> QED
  BY <1>3, <1>4, <1>5, <1>6 DEF BillingTypeInv, BillingTypeOK

(* What Stripe does to its subscriptions, with the event about it, leaves  *)
(* everything well typed.                                                  *)
LEMMA StripeMoves ==
    ASSUME BillingTypeInv,
           NEW type \in {"created", "updated", "deleted"}, NEW s \in Subs,
           NEW sub \in Subscriptions, sub.customer # None, sub.status # "none",
           NEW sent \in Statuses, Emit(type, s, sub, sent),
           stripe' \in StripeRecords, stripe'.subs = [stripe.subs EXCEPT ![s] = sub],
           UNCHANGED <<handled, row, delivery, checkout>>,
           account' \in {"open", "gone"},
           failures' \in 0..MaxFailures,
           deletion' \in {deletion, [pc |-> "cancelled", sub |-> None]}
    PROVE  BillingTypeInv'
<1>1. /\ issued \subseteq issued'
      /\ issued' \subseteq EventRecords
      /\ IsFiniteSet(issued')
      /\ \A e \in issued' \ issued : e.sub = s /\ e.customer = sub.customer
  BY EmitAddsOne
<1>2. \A t \in Subs : /\ Made(t) => Made(t)'
                      /\ Made(t)' => stripe'.subs[t].customer # None
  BY DEF Made, BillingTypeInv, MentionsExist, StripeRecords
<1>3. Made(s)'
  BY DEF Made, BillingTypeInv, StripeRecords
<1>4. MentionsExist'
  <2>1. \A e \in issued' : Made(e.sub)' /\ e.customer # None
    BY <1>1, <1>2, <1>3 DEF BillingTypeInv, MentionsExist, Made
  <2>2. row.sub # None => Made(row.sub)'
    BY <1>2 DEF BillingTypeInv, MentionsExist, Made
  <2>3. deletion'.pc = "read" => Made(deletion.sub)' /\ deletion' = deletion
    BY <1>2 DEF BillingTypeInv, MentionsExist, Made
  <2> QED
    BY <1>1, <1>2, <2>1, <2>2, <2>3 DEF BillingTypeInv, MentionsExist, Made
<1>5. BillingTypeOK'
  <2>1. delivery' \in [Workers -> [pc : {"idle", "read"}, event : issued' \cup {NoEvent},
                                  seen : SubscriptionRows]]
    BY <1>1 DEF BillingTypeInv, BillingTypeOK
  <2>2. handled' \subseteq issued'
    BY <1>1 DEF BillingTypeInv, BillingTypeOK
  <2>3. /\ stripe'.subs \in [Subs -> Subscriptions]
        /\ stripe'.customers \in 0..MaxCustomers
        /\ stripe'.pages \subseteq Pages
    BY DEF StripeRecords
  <2>4. deletion' \in [pc : {"idle", "read", "cancelled"}, sub : Subs \cup {None}]
    BY DEF BillingTypeInv, BillingTypeOK
  <2> QED
    BY <1>1, <2>1, <2>2, <2>3, <2>4 DEF BillingTypeInv, BillingTypeOK, Subscriptions
<1> QED
  BY <1>1, <1>4, <1>5 DEF BillingTypeInv

LEMMA PaysWell ==
    ASSUME BillingTypeInv, NEW s \in Subs, NEW page \in stripe.pages, Pay(page, s)
    PROVE  BillingTypeInv'
<1>1. page \in Pages
  BY DEF BillingTypeInv, BillingTypeOK
<1>2. PICK status \in {"active", "incomplete"} :
        LET sub == [customer |-> page.customer, status |-> status, price |-> page.plan]
        IN /\ stripe' = [stripe EXCEPT !.subs[s] = sub, !.pages = @ \ {page}]
           /\ Emit("created", s, sub, status)
  BY DEF Pay
<1> DEFINE sub == [customer |-> page.customer, status |-> status, price |-> page.plan]
<1>3. sub \in Subscriptions /\ sub.customer # None /\ sub.status # "none"
  BY <1>1 DEF Pages, Subscriptions, Statuses, LIVE_STATUSES, Customers, None
<1>4. status \in Statuses
  BY DEF Statuses, LIVE_STATUSES
<1>5. Emit("created", s, sub, status)
  BY <1>2
<1>6. stripe' = [stripe EXCEPT !.subs[s] = sub, !.pages = @ \ {page}]
  BY <1>2
<1> HIDE DEF sub
<1>7. stripe' \in StripeRecords /\ stripe'.subs = [stripe.subs EXCEPT ![s] = sub]
  BY <1>3, <1>6 DEF StripeRecords, BillingTypeInv
<1> QED
  BY <1>3, <1>4, <1>5, <1>7, StripeMoves DEF Pay, BillingTypeInv, BillingTypeOK

LEMMA ChangesWell ==
    ASSUME BillingTypeInv, NEW s \in Subs, Change(s)
    PROVE  BillingTypeInv'
<1>1. stripe.subs[s] \in Subscriptions /\ stripe.subs[s].customer # None
  BY DEF Change, BillingTypeInv, StripeRecords, MentionsExist, Made
<1>2. PICK sub \in {[stripe.subs[s] EXCEPT !.status = status] : status \in {"active", "paused"}}
              \cup {[stripe.subs[s] EXCEPT !.price = price] : price \in PaidPlans \cup {OtherPrice}} :
        /\ stripe' = [stripe EXCEPT !.subs[s] = sub]
        /\ Emit("updated", s, sub, sub.status)
  BY DEF Change
<1>3. sub \in Subscriptions /\ sub.customer # None /\ sub.status \in Statuses /\ sub.status # "none"
  BY <1>1, <1>2 DEF Change, Subscriptions, Statuses, LIVE_STATUSES, ENDED_STATUSES
<1>4. stripe' \in StripeRecords /\ stripe'.subs = [stripe.subs EXCEPT ![s] = sub]
  BY <1>2, <1>3 DEF StripeRecords, BillingTypeInv
<1> QED
  BY <1>2, <1>3, <1>4, StripeMoves DEF Change, BillingTypeInv, BillingTypeOK

LEMMA CancelsWell ==
    ASSUME BillingTypeInv, NEW s \in Subs, Made(s), Cancelled(s),
           UNCHANGED <<handled, row, account, delivery, checkout, failures>>,
           deletion' \in {deletion, [pc |-> "cancelled", sub |-> None]}
    PROVE  BillingTypeInv'
<1> DEFINE sub == [stripe.subs[s] EXCEPT !.status = "canceled"]
<1>1. stripe.subs[s] \in Subscriptions /\ stripe.subs[s].customer # None /\ stripe.subs[s].status # "none"
  BY DEF BillingTypeInv, StripeRecords, MentionsExist, Made
<1>2. stripe' = [stripe EXCEPT !.subs[s] = sub] /\ Emit("deleted", s, sub, stripe.subs[s].status)
  BY DEF Cancelled
<1>3. sub \in Subscriptions /\ sub.customer # None /\ sub.status # "none"
  BY <1>1 DEF Subscriptions, Statuses, ENDED_STATUSES
<1>4. stripe.subs[s].status \in Statuses
  BY <1>1 DEF Subscriptions
<1> HIDE DEF sub
<1>5. stripe' \in StripeRecords /\ stripe'.subs = [stripe.subs EXCEPT ![s] = sub]
  BY <1>2, <1>3 DEF StripeRecords, BillingTypeInv
<1> QED
  BY <1>2, <1>3, <1>4, <1>5, StripeMoves DEF BillingTypeInv, BillingTypeOK

LEMMA BillingTypeStep == BillingTypeInv /\ [BillingNext]_billingVars => BillingTypeInv'
<1> SUFFICES ASSUME BillingTypeInv, [BillingNext]_billingVars
             PROVE  BillingTypeInv'
  OBVIOUS
<1>1. ASSUME NEW s \in Subs, Cancel(s)
      PROVE  BillingTypeInv'
  BY <1>1, CancelsWell DEF Cancel, Made, IdleDeletion
<1>2. ASSUME NEW w \in Workers, NEW event \in issued, Deliver(w, event)
      PROVE  BillingTypeInv'
  BY <1>2 DEF Deliver, BillingTypeInv, BillingTypeOK, MentionsExist, Made
<1>3. ASSUME NEW w \in Workers, Commit(w)
      PROVE  BillingTypeInv'
  <2> DEFINE event == delivery[w].event
             seen == delivery[w].seen
  <2>1. event \in issued /\ event \in EventRecords /\ seen \in SubscriptionRows
    BY <1>3 DEF Commit, BillingTypeInv, BillingTypeOK, MentionsExist
  <2>2. row' \in SubscriptionRows /\ (row'.sub # None => Made(row'.sub))
    <3>1. Applied(seen, event) \in SubscriptionRows
      BY <2>1, AppliedIsRow
    <3>2. Applied(seen, event).sub = event.sub
      BY <2>1 DEF Applied, SubscriptionRows
    <3> QED
      BY <1>3, <2>1, <3>1, <3>2 DEF Commit, BillingTypeInv, BillingTypeOK, MentionsExist
  <2>3. delivery' = [delivery EXCEPT ![w] = IdleDelivery] /\ handled' = handled \cup {event}
    BY <1>3 DEF Commit
  <2>4. NewAccount \in SubscriptionRows
    BY BillingAssumption DEF NewAccount, SubscriptionRows
  <2>5. UNCHANGED <<stripe, issued, account, checkout, deletion, failures>>
    BY <1>3 DEF Commit
  <2> HIDE DEF event, seen
  <2> QED
    BY <2>1, <2>2, <2>3, <2>4, <2>5 DEF IdleDelivery, BillingTypeInv, BillingTypeOK, MentionsExist, Made
<1>4. ASSUME NEW w \in Workers, RowIsGone(w) \/ DeliveryFails(w)
      PROVE  BillingTypeInv'
  <2>1. NewAccount \in SubscriptionRows
    BY BillingAssumption DEF NewAccount, SubscriptionRows
  <2>2. failures' \in 0..MaxFailures
    BY <1>4, BillingAssumption DEF RowIsGone, DeliveryFails, Fail, BillingTypeInv, BillingTypeOK
  <2>3. delivery' = [delivery EXCEPT ![w] = IdleDelivery]
    BY <1>4 DEF RowIsGone, DeliveryFails
  <2>4. UNCHANGED <<stripe, issued, handled, row, account, checkout, deletion>>
    BY <1>4 DEF RowIsGone, DeliveryFails
  <2> QED
    BY <2>1, <2>2, <2>3, <2>4 DEF IdleDelivery, BillingTypeInv, BillingTypeOK, MentionsExist, Made
<1>5. ASSUME NEW r \in Requests, NEW plan \in PaidPlans, StartCheckout(r, plan)
      PROVE  BillingTypeInv'
  BY <1>5 DEF StartCheckout, BillingTypeInv, BillingTypeOK, SubscriptionRows, MentionsExist, Made
<1>6. ASSUME NEW r \in Requests, CreateCustomer(r)
      PROVE  BillingTypeInv'
  <2>1. PICK c \in {stripe.customers, stripe.customers + 1} \cap Customers :
          /\ stripe' = [stripe EXCEPT !.customers = c]
          /\ checkout' = [checkout EXCEPT ![r].pc = "remember", ![r].customer = c]
    BY <1>6 DEF CreateCustomer
  <2>2. stripe' \in StripeRecords /\ stripe'.subs = stripe.subs
    BY <2>1 DEF StripeRecords, BillingTypeInv, Customers
  <2>3. c \in Customers /\ c # None
    BY <2>1 DEF Customers, None
  <2>4. /\ checkout' \in [Requests -> [pc : {"new", "customer", "remember", "session", "done"},
                                       plan : PaidPlans \cup {DefaultPlan}, customer : Customers \cup {None}]]
        /\ checkout'[r].plan = checkout[r].plan /\ checkout'[r].customer = c
        /\ \A q \in Requests : q # r => checkout'[q] = checkout[q]
    BY <2>1, <2>3 DEF BillingTypeInv, BillingTypeOK
  <2>5. checkout[r].pc = "customer"
        /\ UNCHANGED <<issued, handled, row, account, delivery, deletion, failures>>
    BY <1>6 DEF CreateCustomer
  <2>6. MentionsExist'
    BY <2>2, <2>3, <2>4, <2>5 DEF BillingTypeInv, MentionsExist, Made
  <2>7. BillingTypeOK'
    BY <2>2, <2>4, <2>5 DEF BillingTypeInv, BillingTypeOK, StripeRecords, Subscriptions
  <2> QED
    BY <2>2, <2>5, <2>6, <2>7 DEF BillingTypeInv
<1>7. ASSUME NEW r \in Requests, RememberCustomer(r)
      PROVE  BillingTypeInv'
  <2> DEFINE c == IF row.customer = None THEN checkout[r].customer ELSE row.customer
  <2>1. c \in Customers /\ c # None
    BY <1>7 DEF RememberCustomer, BillingTypeInv, BillingTypeOK, SubscriptionRows, MentionsExist, Customers, None
  <2>2. row' = [row EXCEPT !.customer = c]
    BY <1>7 DEF RememberCustomer
  <2>3. row' \in SubscriptionRows /\ row'.customer = c /\ row'.sub = row.sub
    BY <2>1, <2>2 DEF BillingTypeInv, BillingTypeOK, SubscriptionRows
  <2>4. checkout' = [checkout EXCEPT ![r].pc = "session", ![r].customer = c]
    BY <1>7, <2>3 DEF RememberCustomer
  <2>5. /\ checkout' \in [Requests -> [pc : {"new", "customer", "remember", "session", "done"},
                                       plan : PaidPlans \cup {DefaultPlan}, customer : Customers \cup {None}]]
        /\ checkout'[r].plan = checkout[r].plan /\ checkout'[r].customer = c
        /\ \A q \in Requests : q # r => checkout'[q] = checkout[q]
    BY <2>1, <2>4 DEF BillingTypeInv, BillingTypeOK
  <2>6. checkout[r].pc = "remember"
        /\ UNCHANGED <<stripe, issued, handled, account, delivery, deletion, failures>>
    BY <1>7 DEF RememberCustomer
  <2> HIDE DEF c
  <2>7. MentionsExist'
    BY <2>1, <2>3, <2>5, <2>6 DEF BillingTypeInv, MentionsExist, Made
  <2> QED
    BY <2>3, <2>5, <2>6, <2>7 DEF BillingTypeInv, BillingTypeOK
<1>8. ASSUME NEW r \in Requests, OpenPage(r)
      PROVE  BillingTypeInv'
  <2> DEFINE page == [customer |-> checkout[r].customer, plan |-> checkout[r].plan]
  <2>1. page \in Pages
    BY <1>8 DEF OpenPage, Pages, BillingTypeInv, BillingTypeOK, MentionsExist
  <2>2. stripe' = [stripe EXCEPT !.pages = @ \cup {page}]
    BY <1>8 DEF OpenPage
  <2> HIDE DEF page
  <2>3. stripe' \in StripeRecords /\ stripe'.subs = stripe.subs
    BY <2>1, <2>2 DEF StripeRecords, BillingTypeInv
  <2>4. MentionsExist'
    BY <1>8, <2>3 DEF OpenPage, NewCheckout, BillingTypeInv, BillingTypeOK, MentionsExist, Made
  <2>5. BillingTypeOK'
    BY <1>8, <2>3 DEF OpenPage, NewCheckout, BillingTypeInv, BillingTypeOK, StripeRecords, Subscriptions
  <2> QED
    BY <1>8, <2>3, <2>4, <2>5 DEF OpenPage, BillingTypeInv
<1>9. ASSUME NEW r \in Requests, CheckoutFails(r)
      PROVE  BillingTypeInv'
  BY <1>9, BillingAssumption DEF CheckoutFails, Fail, NewCheckout, BillingTypeInv, BillingTypeOK, MentionsExist, Made
<1>10. CASE ReadSubscription
  BY <1>10 DEF ReadSubscription, BillingTypeInv, BillingTypeOK, SubscriptionRows, MentionsExist, Made
<1>11. CASE CancelSubscription
  <2>1. Made(deletion.sub) /\ deletion.sub \in Subs
    BY <1>11 DEF CancelSubscription, BillingTypeInv, MentionsExist, Made
  <2>2. CASE stripe.subs[deletion.sub].status = "canceled"
    BY <1>11, <2>2 DEF CancelSubscription, BillingTypeInv, BillingTypeOK, MentionsExist, Made
  <2>3. CASE stripe.subs[deletion.sub].status # "canceled"
    BY <1>11, <2>1, <2>3, CancelsWell DEF CancelSubscription
  <2> QED
    BY <2>2, <2>3
<1>12. CASE DeletionFails
  BY <1>12, BillingAssumption DEF DeletionFails, Fail, IdleDeletion, BillingTypeInv, BillingTypeOK, MentionsExist, Made
<1>13. CASE DeleteAccount
  <2>1. NewAccount \in SubscriptionRows /\ NewAccount.sub = None
    BY BillingAssumption DEF NewAccount, SubscriptionRows
  <2> QED
    BY <1>13, <2>1 DEF DeleteAccount, IdleDeletion, BillingTypeInv, BillingTypeOK, MentionsExist, Made
<1>14. CASE UNCHANGED billingVars
  BY <1>14 DEF billingVars, BillingTypeInv, BillingTypeOK, MentionsExist, Made
<1> QED
  BY <1>1, <1>2, <1>3, <1>4, <1>5, <1>6, <1>7, <1>8, <1>9, <1>10, <1>11, <1>12, <1>13, <1>14,
     PaysWell, ChangesWell DEF BillingNext, WebhookStep

LEMMA BillingTypeInit == BillingInit => BillingTypeInv
<1> SUFFICES ASSUME BillingInit PROVE BillingTypeInv
  OBVIOUS
<1> USE BillingAssumption DEF BillingInit
<1>1. NewAccount \in SubscriptionRows /\ NewAccount.sub = None
  BY DEF NewAccount, SubscriptionRows
<1>2. stripe \in StripeRecords
  BY DEF StripeRecords, Subscriptions, NoSub
<1>3. BillingTypeOK
  BY <1>1, <1>2 DEF BillingTypeOK, StripeRecords, Subscriptions, IdleDelivery, NewCheckout, IdleDeletion
<1>4. MentionsExist
  BY <1>1 DEF MentionsExist, Made, NoSub, IdleDelivery, NewCheckout, IdleDeletion
<1> QED
  BY <1>2, <1>3, <1>4, FS_EmptySet DEF BillingTypeInv

(* Every reachable state of billing is well typed.                         *)
THEOREM BillingTypeCorrect == BillingSpec => []BillingTypeOK
<1>1. BillingTypeInv => BillingTypeOK
  BY DEF BillingTypeInv
<1> QED
  BY <1>1, BillingTypeInit, BillingTypeStep, PTL DEF BillingSpec

LEMMA OneCustomerStep ==
    ASSUME BillingTypeInv, OneCustomer, [BillingNext]_billingVars, BillingTypeInv'
    PROVE  OneCustomer'
<1> USE DEF OneCustomer
<1>1. ASSUME NEW s \in Subs, NEW page \in stripe.pages, Pay(page, s)
      PROVE  OneCustomer'
  <2>1. PICK status \in {"active", "incomplete"} :
          LET sub == [customer |-> page.customer, status |-> status, price |-> page.plan]
          IN /\ stripe' = [stripe EXCEPT !.subs[s] = sub, !.pages = @ \ {page}]
             /\ Emit("created", s, sub, status)
    BY <1>1 DEF Pay
  <2> DEFINE sub == [customer |-> page.customer, status |-> status, price |-> page.plan]
  <2>2. stripe'.subs = [stripe.subs EXCEPT ![s] = sub] /\ stripe'.pages = stripe.pages \ {page}
    BY <2>1 DEF BillingTypeInv, StripeRecords
  <2>3. \A e \in issued' \ issued : e.customer = page.customer
    BY <2>1 DEF Emit
  <2>4. UNCHANGED <<row, account, checkout>>
    BY <1>1 DEF Pay
  <2>5. \A t \in Subs : stripe'.subs[t].customer \in {stripe.subs[t].customer, page.customer}
    BY <2>2 DEF BillingTypeInv, StripeRecords
  <2> HIDE DEF sub
  <2> QED
    BY <2>2, <2>3, <2>4, <2>5
<1>2. ASSUME NEW s \in Subs, Change(s) \/ Cancelled(s), Made(s), UNCHANGED <<row, account, checkout>>
      PROVE  OneCustomer'
  <2>1. PICK sub \in Subscriptions :
          /\ sub.customer = stripe.subs[s].customer
          /\ stripe' = [stripe EXCEPT !.subs[s] = sub]
          /\ Emit("updated", s, sub, sub.status) \/ Emit("deleted", s, sub, stripe.subs[s].status)
    <3>1. stripe.subs[s] \in Subscriptions
      BY DEF BillingTypeInv, StripeRecords
    <3>2. ASSUME Change(s)
          PROVE  \E sub \in Subscriptions :
                    /\ sub.customer = stripe.subs[s].customer
                    /\ stripe' = [stripe EXCEPT !.subs[s] = sub]
                    /\ Emit("updated", s, sub, sub.status)
      <4>1. PICK sub \in {[stripe.subs[s] EXCEPT !.status = status] : status \in {"active", "paused"}}
                    \cup {[stripe.subs[s] EXCEPT !.price = price] : price \in PaidPlans \cup {OtherPrice}} :
              /\ stripe' = [stripe EXCEPT !.subs[s] = sub]
              /\ Emit("updated", s, sub, sub.status)
        BY <3>2 DEF Change
      <4>2. sub \in Subscriptions /\ sub.customer = stripe.subs[s].customer
        BY <3>1, <4>1 DEF Subscriptions, Statuses, LIVE_STATUSES, ENDED_STATUSES
      <4> QED
        BY <4>1, <4>2
    <3>3. ASSUME Cancelled(s)
          PROVE  \E sub \in Subscriptions :
                    /\ sub.customer = stripe.subs[s].customer
                    /\ stripe' = [stripe EXCEPT !.subs[s] = sub]
                    /\ Emit("deleted", s, sub, stripe.subs[s].status)
      BY <3>1, <3>3 DEF Cancelled, Subscriptions, Statuses, ENDED_STATUSES
    <3> QED
      BY <1>2, <3>2, <3>3
  <2>2. stripe'.subs = [stripe.subs EXCEPT ![s] = sub] /\ stripe'.pages = stripe.pages
    BY <2>1 DEF BillingTypeInv, StripeRecords
  <2>3. \A e \in issued' \ issued : e.customer = stripe.subs[s].customer
    <3>1. CASE Emit("updated", s, sub, sub.status)
      BY <2>1, <3>1 DEF Emit
    <3>2. CASE Emit("deleted", s, sub, stripe.subs[s].status)
      BY <2>1, <3>2 DEF Emit
    <3> QED
      BY <2>1, <3>1, <3>2
  <2>4. stripe.subs[s].customer # None
    BY <1>2 DEF BillingTypeInv, MentionsExist
  <2>5. \A t \in Subs : stripe'.subs[t].customer = stripe.subs[t].customer
    BY <2>1, <2>2 DEF BillingTypeInv, StripeRecords
  <2> QED
    BY <1>2, <2>2, <2>3, <2>4, <2>5 DEF Made
<1>3. ASSUME NEW w \in Workers, Commit(w)
      PROVE  OneCustomer'
  <2>1. delivery[w].event \in issued /\ delivery[w].seen \in SubscriptionRows
    BY <1>3 DEF Commit, BillingTypeInv, BillingTypeOK, MentionsExist
  <2>2. account = "open" => row'.customer = row.customer
    BY <1>3, <2>1 DEF Commit, Applies, Applied, UnknownCustomer, SubscriptionRows
  <2>3. account = "gone" => row' = row
    BY <1>3 DEF Commit
  <2> QED
    BY <1>3, <2>2, <2>3 DEF Commit
<1>4. ASSUME NEW r \in Requests, NEW plan \in PaidPlans, StartCheckout(r, plan)
      PROVE  OneCustomer'
  BY <1>4 DEF StartCheckout, BillingTypeInv, BillingTypeOK
<1>5. ASSUME NEW r \in Requests, CreateCustomer(r)
      PROVE  OneCustomer'
  BY <1>5 DEF CreateCustomer, BillingTypeInv, BillingTypeOK, StripeRecords
<1>6. ASSUME NEW r \in Requests, RememberCustomer(r)
      PROVE  OneCustomer'
  <2>1. CASE row.customer = None
    <3>1. /\ \A page \in stripe.pages : FALSE
          /\ \A e \in issued : FALSE
          /\ \A q \in Requests : checkout[q].pc # "session"
      BY <1>6, <2>1 DEF RememberCustomer, BillingTypeInv, BillingTypeOK, MentionsExist, Pages, Customers, None
    <3> QED
      BY <1>6, <2>1, <3>1 DEF RememberCustomer, BillingTypeInv, BillingTypeOK, SubscriptionRows, StripeRecords
  <2>2. CASE row.customer # None
    BY <1>6, <2>2 DEF RememberCustomer, BillingTypeInv, BillingTypeOK, SubscriptionRows
  <2> QED
    BY <2>1, <2>2
<1>7. ASSUME NEW r \in Requests, OpenPage(r)
      PROVE  OneCustomer'
  <2>1. stripe'.subs = stripe.subs
        /\ stripe'.pages = stripe.pages \cup {[customer |-> checkout[r].customer, plan |-> checkout[r].plan]}
    BY <1>7 DEF OpenPage, BillingTypeInv, StripeRecords
  <2> QED
    BY <1>7, <2>1 DEF OpenPage, NewCheckout, BillingTypeInv, BillingTypeOK
<1>8. ASSUME NEW r \in Requests, CheckoutFails(r)
      PROVE  OneCustomer'
  BY <1>8 DEF CheckoutFails, NewCheckout, BillingTypeInv, BillingTypeOK
<1>9. CASE CancelSubscription
  <2>1. Made(deletion.sub) /\ deletion.sub \in Subs
    BY <1>9 DEF CancelSubscription, BillingTypeInv, MentionsExist, Made
  <2> QED
    BY <1>2, <1>9, <2>1 DEF CancelSubscription
<1>10. ASSUME NEW s \in Subs, Cancel(s) \/ Change(s)
       PROVE  OneCustomer'
  BY <1>2, <1>10 DEF Cancel, Change, Made
<1>11. CASE DeleteAccount
  BY <1>11 DEF DeleteAccount
<1>12. CASE UNCHANGED <<stripe, issued, row, account, checkout>>
  BY <1>12
<1> QED
  BY <1>1, <1>3, <1>4, <1>5, <1>6, <1>7, <1>8, <1>9, <1>10, <1>11, <1>12
  DEF BillingNext, WebhookStep, billingVars, Deliver, RowIsGone, DeliveryFails, ReadSubscription, DeletionFails

(***************************************************************************)
(* BillingService.createCustomer: however many payment pages are opened at *)
(* once and whatever fails, nobody pays as a customer the webhook would    *)
(* not know.                                                               *)
(***************************************************************************)
THEOREM PayersAreKnown == BillingSpec => []PayerIsKnown
<1>1. BillingInit => OneCustomer
  BY DEF BillingInit, OneCustomer, NoSub, NewCheckout
<1>2. BillingTypeInv /\ OneCustomer /\ [BillingNext]_billingVars => (BillingTypeInv /\ OneCustomer)'
  BY BillingTypeStep, OneCustomerStep
<1>3. OneCustomer => PayerIsKnown
  BY DEF OneCustomer, PayerIsKnown
<1> QED
  BY <1>1, <1>2, <1>3, BillingTypeInit, PTL DEF BillingSpec

-----------------------------------------------------------------------------
(* An event of a customer is about nobody, for an account that Stripe does *)
(* not know.                                                               *)
LEMMA NobodyIsUnknown ==
    ASSUME NEW event \in EventRecords
    PROVE  ~Applies(NewAccount, event)
  BY DEF Applies, UnknownCustomer, NewAccount, EventRecords, Customers, None

(* As soon as there is an event, the account is one that Stripe knows.     *)
LEMMA EventsKnowTheirPayer ==
    ASSUME BillingTypeInv, OneCustomer, account = "open", issued # {}
    PROVE  row.customer # None
  BY DEF BillingTypeInv, MentionsExist, OneCustomer

LEMMA ReadIsCurrentStep ==
    ASSUME ~Overlapping, BillingTypeInv, OneCustomer, ReadIsCurrent, [BillingNext]_billingVars
    PROVE  ReadIsCurrent'
<1> USE DEF ReadIsCurrent
<1> DEFINE Idle(w) ==
             /\ delivery' = [delivery EXCEPT ![w] = IdleDelivery]
             /\ \A v \in Workers : v # w => delivery'[v] = delivery[v]
             /\ delivery'[w].pc = "idle"
<1>1. ASSUME NEW w \in Workers, delivery' = [delivery EXCEPT ![w] = IdleDelivery]
      PROVE  Idle(w)
  BY <1>1 DEF BillingTypeInv, BillingTypeOK, IdleDelivery
<1>2. ASSUME NEW w \in Workers, NEW event \in issued, Deliver(w, event)
      PROVE  ReadIsCurrent'
  BY <1>2 DEF Deliver, BillingTypeInv, BillingTypeOK
<1>3. ASSUME NEW w \in Workers, Commit(w) \/ RowIsGone(w) \/ DeliveryFails(w)
      PROVE  ReadIsCurrent'
  <2>1. delivery[w].pc = "read" /\ Idle(w)
    BY <1>1, <1>3 DEF Commit, RowIsGone, DeliveryFails
  <2>2. \A v \in Workers : delivery'[v].pc = "idle"
    <3>1. \A v \in Workers : v # w => delivery[v].pc # "read"
      BY <2>1
    <3> QED
      BY <2>1, <3>1 DEF BillingTypeInv, BillingTypeOK
  <2> QED
    BY <2>2
<1>4. ASSUME NEW r \in Requests, RememberCustomer(r)
      PROVE  ReadIsCurrent'
  <2>1. ASSUME NEW w \in Workers, delivery[w].pc = "read"
        PROVE  row' = row
    <3>1. row.customer # None
      BY <1>4, <2>1, EventsKnowTheirPayer DEF RememberCustomer, BillingTypeInv, MentionsExist
    <3> QED
      BY <1>4, <3>1 DEF RememberCustomer, BillingTypeInv, BillingTypeOK, SubscriptionRows
  <2> QED
    BY <1>4, <2>1 DEF RememberCustomer
<1>5. CASE DeleteAccount
  BY <1>5 DEF DeleteAccount
<1>6. CASE UNCHANGED <<delivery, handled, row, account>>
  BY <1>6
<1> QED
  BY <1>2, <1>3, <1>4, <1>5, <1>6
  DEF BillingNext, WebhookStep, billingVars, Change, Cancel, Pay, StartCheckout, CreateCustomer, OpenPage,
      CheckoutFails, ReadSubscription, CancelSubscription, DeletionFails

(* Each step handles one event against the row there is, makes the account *)
(* known, makes it unknown, or is nothing to the book.                     *)
LEMMA StepsKeepTheBook ==
    ASSUME BillingTypeInv, OneCustomer, ReadIsCurrent, [BillingNext]_billingVars
    PROVE  [Book!BookNext]_<<handled, row>>
<1>1. ASSUME NEW w \in Workers, Commit(w)
      PROVE  Book!BookNext
  <2> DEFINE event == delivery[w].event
             seen == delivery[w].seen
  <2>1. event \in issued /\ event \in EventRecords /\ event \notin handled
    BY <1>1 DEF Commit, BillingTypeInv, BillingTypeOK, MentionsExist, ReadIsCurrent
  <2>2. /\ Applies(seen, event) => account = "open"
        /\ handled' = handled \cup {event}
        /\ row' = IF Applies(seen, event) THEN Applied(seen, event) ELSE row
        /\ account = "open" => seen = row
    BY <1>1 DEF Commit, ReadIsCurrent
  <2>3. account = "gone" => row = NewAccount
    BY DEF OneCustomer
  <2>4. account \in {"open", "gone"}
    BY DEF BillingTypeInv, BillingTypeOK
  <2> HIDE DEF event, seen
  <2>5. row' = IF Applies(row, event) THEN Applied(row, event) ELSE row
    <3>1. CASE account = "open"
      BY <2>2, <3>1
    <3>2. CASE account = "gone"
      BY <2>1, <2>2, <2>3, <3>2, NobodyIsUnknown
    <3> QED
      BY <2>4, <3>1, <3>2
  <2>6. Book!Handle(event)
    BY <2>2, <2>5 DEF Book!Handle, Book!Applies, Book!Applied, Book!UnknownCustomer, Book!Stale,
       Book!OtherSubscription, Book!StatusOf, Book!DecidePlan, Book!None, Book!LIVE_STATUSES, Book!ENDED_STATUSES,
       Applies, Applied, UnknownCustomer, Stale, OtherSubscription, StatusOf, DecidePlan, None,
       LIVE_STATUSES, ENDED_STATUSES
  <2>7. event \in handled' \ handled
    BY <2>1, <2>2
  <2> QED
    BY <2>6, <2>7 DEF Book!BookNext
<1>2. ASSUME NEW r \in Requests, RememberCustomer(r)
      PROVE  [Book!BookNext]_<<handled, row>>
  <2>1. CASE row.customer = None
    <3>1. checkout[r].customer \in Customers
      BY <1>2 DEF RememberCustomer, BillingTypeInv, BillingTypeOK, MentionsExist
    <3>2. row' = [row EXCEPT !.customer = checkout[r].customer] /\ handled' = handled
      BY <1>2, <2>1 DEF RememberCustomer
    <3> QED
      BY <2>1, <3>1, <3>2 DEF Book!BookNext, Book!Introduce, Book!None, Book!Customers, None, Customers
  <2>2. CASE row.customer # None
    BY <1>2, <2>2 DEF RememberCustomer, BillingTypeInv, BillingTypeOK, SubscriptionRows
  <2> QED
    BY <2>1, <2>2
<1>3. CASE DeleteAccount
  BY <1>3 DEF DeleteAccount, Book!BookNext, Book!Forget, Book!NewAccount, Book!None, NewAccount, None
<1>4. CASE UNCHANGED <<handled, row>>
  BY <1>4
<1> QED
  BY <1>1, <1>2, <1>3, <1>4
  DEF BillingNext, WebhookStep, billingVars, Deliver, RowIsGone, DeliveryFails, Change, Cancel, Pay, StartCheckout,
      CreateCustomer, OpenPage, CheckoutFails, ReadSubscription, CancelSubscription, DeletionFails

LEMMA BillingStep ==
    ASSUME ~Overlapping
    PROVE  /\ BillingInit => BillingInv
           /\ BillingInv /\ [BillingNext]_billingVars => BillingInv'
<1>1. BillingInit => OneCustomer /\ ReadIsCurrent
  BY DEF BillingInit, OneCustomer, ReadIsCurrent, NoSub, NewCheckout, IdleDelivery
<1>2. BillingTypeInv /\ OneCustomer /\ [BillingNext]_billingVars => OneCustomer'
  BY BillingTypeStep, OneCustomerStep
<1> QED
  BY <1>1, <1>2, BillingTypeInit, BillingTypeStep, ReadIsCurrentStep DEF BillingInv

(***************************************************************************)
(* BillingRepository.apply, where different events are not delivered at    *)
(* once: whatever is repeated, late, or fails in between, each event       *)
(* counts at most once and against the row the events before it left.      *)
(***************************************************************************)
THEOREM BillingImplementsBook == ~Overlapping => (BillingSpec => BookIsKept)
<1> SUFFICES ASSUME ~Overlapping
             PROVE  BillingSpec => BookIsKept
  OBVIOUS
<1>1. BillingInit => Book!BookInit
  BY DEF BillingInit, Book!BookInit, Book!NewAccount, Book!None, NewAccount, None
<1>2. BillingInit => BillingInv
  BY BillingStep
<1>3. BillingInv /\ [BillingNext]_billingVars => BillingInv'
  BY BillingStep
<1>4. BillingInv /\ [BillingNext]_billingVars => [Book!BookNext]_Book!bookVars
  BY StepsKeepTheBook DEF BillingInv, Book!bookVars
<1> QED
  BY <1>1, <1>2, <1>3, <1>4, PTL DEF BillingSpec, BookIsKept, Book!BookSpec

-----------------------------------------------------------------------------
(* The plan of the account.                                                *)

OneEventASecond == MaxPerTime <= 1

(***************************************************************************)
(* What an event says of a subscription: it is in this status, at this     *)
(* price.                                                                  *)
(***************************************************************************)
Tells(event, sub) == StatusOf(event) = sub.status /\ event.price = sub.price

(* No two events carry the same second, so one of them is the latest.      *)
Latest(event, s) == \A other \in issued \ {event} : other.sub = s => other.created < event.created

LatestEventTellsTheTruth ==
    \A s \in Subs : Made(s) =>
        \E event \in issued : event.sub = s /\ Tells(event, stripe.subs[s]) /\ Latest(event, s)

(* The row is what the latest of the handled events made of it.            *)
RowFollows(event) ==
    /\ row.last = event.created
    /\ StatusOf(event) \in ENDED_STATUSES => row.plan = DefaultPlan
    /\ StatusOf(event) \in LIVE_STATUSES /\ event.price \in PaidPlans => row.plan = event.price

RowIsOfLatest ==
    /\ \A event \in handled : event.created <= row.last
    /\ IF handled = {} THEN row.last = -1 ELSE \E event \in handled : RowFollows(event)

OnlyOneSubscription(s) == \A event \in issued : event.sub = s

PlanInv ==
    /\ LatestEventTellsTheTruth
    /\ \A s \in Subs : account = "open" /\ OnlyOneSubscription(s) =>
          row.sub \in {None, s} /\ RowIsOfLatest

(***************************************************************************)
(* Whatever Stripe does to a subscription, the event about it is the       *)
(* latest and says what became of it.                                      *)
(***************************************************************************)
LEMMA EmitTellsTheTruth ==
    ASSUME OneEventASecond, BillingTypeInv, LatestEventTellsTheTruth,
           NEW type \in {"created", "updated", "deleted"}, NEW s \in Subs,
           NEW sub \in Subscriptions, NEW sent, Emit(type, s, sub, sent),
           sub.status = IF type = "deleted" THEN "canceled" ELSE sent,
           stripe \in StripeRecords,
           stripe'.subs = [stripe.subs EXCEPT ![s] = sub]
    PROVE  LatestEventTellsTheTruth' /\ issued \subseteq issued'
<1>1. PICK now \in 0..MaxTime :
        /\ \A e \in issued : e.created <= now
        /\ Cardinality({e \in issued : e.created = now}) < MaxPerTime
        /\ issued' = issued \cup {[id |-> Cardinality(issued) + 1, type |-> type, sub |-> s,
                                   customer |-> sub.customer, status |-> sent, price |-> sub.price,
                                   created |-> now]}
  BY DEF Emit
<1> DEFINE same == {e \in issued : e.created = now}
<1>2. same = {}
  <2>1. IsFiniteSet(same)
    BY FS_Subset DEF BillingTypeInv
  <2>2. Cardinality(same) \in Nat /\ Cardinality(same) < 1
    <3>1. Cardinality(same) \in Nat
      BY <2>1, FS_CardinalityType
    <3> QED
      BY <1>1, <3>1, BillingAssumption DEF OneEventASecond
  <2> HIDE DEF same
  <2>3. Cardinality(same) = 0
    BY <2>2
  <2> QED
    BY <2>1, <2>3, FS_EmptySet
<1>3. \A e \in issued : e.created < now
  <2> SUFFICES ASSUME NEW e \in issued PROVE e.created < now
    OBVIOUS
  <2>1. e.created <= now /\ e.created # now
    BY <1>1, <1>2
  <2>2. e.created \in Int /\ now \in Int
    BY BillingAssumption DEF BillingTypeInv, BillingTypeOK, EventRecords
  <2> QED
    BY <2>1, <2>2
<1>4. PICK event : /\ issued' = issued \cup {event}
                   /\ event.sub = s /\ event.created = now /\ Tells(event, sub)
  <2> DEFINE new == [id |-> Cardinality(issued) + 1, type |-> type, sub |-> s,
                     customer |-> sub.customer, status |-> sent, price |-> sub.price,
                     created |-> now]
  <2>1. new.sub = s /\ new.created = now /\ Tells(new, sub)
    BY DEF Tells, StatusOf
  <2>2. issued' = issued \cup {new}
    BY <1>1
  <2> QED
    BY <2>1, <2>2
<1> HIDE DEF same
<1>6. ASSUME NEW t \in Subs, Made(t)'
      PROVE  \E e \in issued' : e.sub = t /\ Tells(e, stripe'.subs[t]) /\ Latest(e, t)'
  <2>1. CASE t = s
    <3>1. stripe'.subs[t] = sub
      BY <2>1 DEF StripeRecords
    <3>2. Latest(event, t)'
      BY <1>3, <1>4, <2>1 DEF Latest
    <3> QED
      BY <1>4, <2>1, <3>1, <3>2
  <2>2. CASE t # s
    <3>1. stripe'.subs[t] = stripe.subs[t]
      BY <2>2 DEF StripeRecords
    <3>2. Made(t)
      BY <1>6, <3>1 DEF Made
    <3>3. PICK e \in issued : e.sub = t /\ Tells(e, stripe.subs[t]) /\ Latest(e, t)
      BY <3>2 DEF LatestEventTellsTheTruth
    <3>4. Latest(e, t)'
      BY <1>4, <2>2, <3>3 DEF Latest
    <3> QED
      BY <1>4, <3>1, <3>3, <3>4
  <2> QED
    BY <2>1, <2>2
<1> QED
  BY <1>4, <1>6 DEF LatestEventTellsTheTruth

(* As long as the row is left alone, more events change nothing of it.     *)
LEMMA MoreEventsKeepThePlan ==
    ASSUME PlanInv, LatestEventTellsTheTruth', issued \subseteq issued',
           UNCHANGED <<handled, row, account>>
    PROVE  PlanInv'
BY DEF PlanInv, OnlyOneSubscription, RowIsOfLatest, RowFollows

(***************************************************************************)
(* An event that is not the latest is stale, and one that is not stale     *)
(* becomes the latest.                                                     *)
(***************************************************************************)
LEMMA HandledKeepsThePlan ==
    ASSUME BillingTypeInv, OneCustomer, PlanInv, NEW event \in issued \ handled,
           handled' = handled \cup {event},
           row' = IF Applies(row, event) THEN Applied(row, event) ELSE row,
           UNCHANGED <<stripe, issued, account>>
    PROVE  PlanInv'
<1>1. LatestEventTellsTheTruth'
  BY DEF PlanInv, LatestEventTellsTheTruth, Made, Latest
<1>2. ASSUME NEW s \in Subs, account = "open", OnlyOneSubscription(s)
      PROVE  row'.sub \in {None, s} /\ RowIsOfLatest'
  <2>1. row.sub \in {None, s} /\ RowIsOfLatest /\ event.sub = s /\ event.customer = row.customer
    BY <1>2 DEF PlanInv, OnlyOneSubscription, OneCustomer
  <2>2. row \in SubscriptionRows /\ row.last \in Int /\ event \in EventRecords
    BY BillingAssumption DEF BillingTypeInv, BillingTypeOK, SubscriptionRows
  <2>3. \A e \in handled \cup {event} : e.created \in Int /\ 0 <= e.created
    BY DEF BillingTypeInv, BillingTypeOK, EventRecords
  <2>4. CASE event.created < row.last
    <3>1. row' = row /\ handled # {}
      BY <2>1, <2>3, <2>4 DEF Applies, Stale, RowIsOfLatest
    <3>2. \A e \in handled' : e.created <= row'.last
      BY <2>1, <2>2, <2>3, <2>4, <3>1 DEF RowIsOfLatest
    <3>3. \E e \in handled' : RowFollows(e)'
      BY <2>1, <3>1 DEF RowIsOfLatest, RowFollows
    <3> QED
      BY <2>1, <3>1, <3>2, <3>3 DEF RowIsOfLatest
  <2>5. CASE ~(event.created < row.last)
    <3>1. Applies(row, event)
      BY <2>1, <2>5 DEF Applies, UnknownCustomer, Stale, OtherSubscription
    <3>2. /\ row'.sub = event.sub
          /\ row'.last = event.created
          /\ row'.plan = DecidePlan(event, row.plan)
      BY <2>2, <3>1 DEF Applied, SubscriptionRows
    <3>3. RowFollows(event)'
      <4>1. StatusOf(event) \in ENDED_STATUSES => row'.plan = DefaultPlan
        BY <3>2 DEF DecidePlan, LIVE_STATUSES, ENDED_STATUSES
      <4>2. StatusOf(event) \in LIVE_STATUSES /\ event.price \in PaidPlans => row'.plan = event.price
        BY <3>2 DEF DecidePlan, LIVE_STATUSES, ENDED_STATUSES
      <4> QED
        BY <3>2, <4>1, <4>2 DEF RowFollows
    <3>4. \A e \in handled' : e.created <= row'.last
      BY <2>1, <2>2, <2>3, <2>5, <3>2 DEF RowIsOfLatest
    <3> QED
      BY <2>1, <3>2, <3>3, <3>4 DEF RowIsOfLatest
  <2> QED
    BY <2>4, <2>5
<1> QED
  BY <1>1, <1>2 DEF PlanInv, OnlyOneSubscription

LEMMA PlanStep ==
    ASSUME ~Overlapping, OneEventASecond, BillingTypeInv, BillingTypeInv', OneCustomer, ReadIsCurrent,
           PlanInv, [BillingNext]_billingVars
    PROVE  PlanInv'
<1>1. ASSUME NEW s \in Subs, NEW page \in stripe.pages, Pay(page, s)
      PROVE  PlanInv'
  <2>1. page \in Pages
    BY DEF BillingTypeInv, BillingTypeOK
  <2>2. PICK status \in {"active", "incomplete"} :
          LET sub == [customer |-> page.customer, status |-> status, price |-> page.plan]
          IN /\ stripe' = [stripe EXCEPT !.subs[s] = sub, !.pages = @ \ {page}]
             /\ Emit("created", s, sub, status)
    BY <1>1 DEF Pay
  <2> DEFINE sub == [customer |-> page.customer, status |-> status, price |-> page.plan]
  <2>3. sub \in Subscriptions /\ sub.status = status
    BY <2>1 DEF Pages, Subscriptions, Statuses, LIVE_STATUSES
  <2>4. stripe'.subs = [stripe.subs EXCEPT ![s] = sub] /\ Emit("created", s, sub, status)
    BY <2>2 DEF BillingTypeInv, StripeRecords
  <2>5. UNCHANGED <<handled, row, account>>
    BY <1>1 DEF Pay
  <2> HIDE DEF sub
  <2> QED
    BY <2>3, <2>4, <2>5, EmitTellsTheTruth, MoreEventsKeepThePlan DEF PlanInv, BillingTypeInv
<1>2. ASSUME NEW s \in Subs, Change(s)
      PROVE  PlanInv'
  <2>1. stripe.subs[s] \in Subscriptions
    BY DEF BillingTypeInv, StripeRecords
  <2>2. PICK sub \in {[stripe.subs[s] EXCEPT !.status = status] : status \in {"active", "paused"}}
                \cup {[stripe.subs[s] EXCEPT !.price = price] : price \in PaidPlans \cup {OtherPrice}} :
          /\ stripe' = [stripe EXCEPT !.subs[s] = sub]
          /\ Emit("updated", s, sub, sub.status)
    BY <1>2 DEF Change
  <2>3. sub \in Subscriptions
    BY <2>1, <2>2 DEF Subscriptions, Statuses, LIVE_STATUSES, ENDED_STATUSES
  <2>4. stripe'.subs = [stripe.subs EXCEPT ![s] = sub]
    BY <2>2 DEF BillingTypeInv, StripeRecords
  <2>5. UNCHANGED <<handled, row, account>>
    BY <1>2 DEF Change
  <2> QED
    BY <2>2, <2>3, <2>4, <2>5, EmitTellsTheTruth, MoreEventsKeepThePlan DEF PlanInv, BillingTypeInv
<1>3. ASSUME NEW s \in Subs, Cancelled(s), UNCHANGED <<handled, row, account>>
      PROVE  PlanInv'
  <2> DEFINE sub == [stripe.subs[s] EXCEPT !.status = "canceled"]
  <2>1. stripe.subs[s] \in Subscriptions
    BY DEF BillingTypeInv, StripeRecords
  <2>2. sub \in Subscriptions /\ sub.status = "canceled"
    BY <2>1 DEF Subscriptions, Statuses, ENDED_STATUSES
  <2>3. stripe' = [stripe EXCEPT !.subs[s] = sub] /\ Emit("deleted", s, sub, stripe.subs[s].status)
    BY <1>3 DEF Cancelled
  <2> HIDE DEF sub
  <2>4. stripe'.subs = [stripe.subs EXCEPT ![s] = sub]
    BY <2>3 DEF BillingTypeInv, StripeRecords
  <2> QED
    BY <1>3, <2>2, <2>3, <2>4, EmitTellsTheTruth, MoreEventsKeepThePlan DEF PlanInv, BillingTypeInv
<1>4. ASSUME NEW w \in Workers, Commit(w)
      PROVE  PlanInv'
  <2> DEFINE event == delivery[w].event
             seen == delivery[w].seen
  <2>1. /\ handled' = handled \cup {event}
        /\ row' = IF Applies(seen, event) THEN Applied(seen, event) ELSE row
        /\ UNCHANGED <<stripe, issued, account>>
        /\ event \in issued \ handled
        /\ account = "open" => seen = row
    BY <1>4 DEF Commit, ReadIsCurrent, BillingTypeInv, MentionsExist
  <2> HIDE DEF event, seen
  <2>2. CASE account = "open"
    BY <2>1, <2>2, HandledKeepsThePlan
  <2>3. CASE account # "open"
    BY <2>1, <2>3 DEF PlanInv, LatestEventTellsTheTruth, Made, Latest
  <2> QED
    BY <2>2, <2>3
<1>5. ASSUME NEW r \in Requests, RememberCustomer(r)
      PROVE  PlanInv'
  <2>1. row' = [row EXCEPT !.customer = row'.customer] /\ UNCHANGED <<stripe, issued, handled, account>>
    BY <1>5 DEF RememberCustomer, BillingTypeInv, BillingTypeOK, SubscriptionRows
  <2>2. row'.sub = row.sub /\ row'.last = row.last /\ row'.plan = row.plan
    BY <2>1 DEF BillingTypeInv, BillingTypeOK, SubscriptionRows
  <2> QED
    BY <2>1, <2>2 DEF PlanInv, LatestEventTellsTheTruth, Made, Latest, OnlyOneSubscription, RowIsOfLatest, RowFollows
<1>6. CASE DeleteAccount
  BY <1>6 DEF DeleteAccount, PlanInv, LatestEventTellsTheTruth, Made, Latest
<1>7. ASSUME stripe'.subs = stripe.subs, UNCHANGED <<issued, handled, row, account>>
      PROVE  PlanInv'
  BY <1>7 DEF PlanInv, LatestEventTellsTheTruth, Made, Latest, OnlyOneSubscription, RowIsOfLatest, RowFollows
<1>8. ASSUME NEW r \in Requests, CreateCustomer(r) \/ OpenPage(r)
      PROVE  PlanInv'
  <2>1. stripe'.subs = stripe.subs /\ UNCHANGED <<issued, handled, row, account>>
    BY <1>8 DEF CreateCustomer, OpenPage, BillingTypeInv, StripeRecords
  <2> QED
    BY <1>7, <2>1
<1>9. ASSUME NEW s \in Subs, Cancel(s)
      PROVE  PlanInv'
  BY <1>3, <1>9 DEF Cancel
<1>10. CASE CancelSubscription
  <2>1. deletion.sub \in Subs
    BY <1>10 DEF CancelSubscription, BillingTypeInv, MentionsExist, Made
  <2> QED
    BY <1>3, <1>7, <1>10, <2>1 DEF CancelSubscription
<1> QED
  BY <1>1, <1>2, <1>4, <1>5, <1>6, <1>7, <1>8, <1>9, <1>10
  DEF BillingNext, WebhookStep, billingVars, Deliver, RowIsGone, DeliveryFails, StartCheckout, CheckoutFails,
      ReadSubscription, DeletionFails

LEMMA PlanFollows == BillingTypeInv /\ PlanInv => PlanFollowsTheSubscription
<1> SUFFICES ASSUME BillingTypeInv, PlanInv, NEW s \in Subs, Settled,
                    \A other \in Subs \ {s} : stripe.subs[other].status = "none", Made(s)
             PROVE  /\ Live(s) /\ stripe.subs[s].price \in PaidPlans => row.plan = stripe.subs[s].price
                    /\ stripe.subs[s].status \in ENDED_STATUSES => row.plan = DefaultPlan
  BY DEF PlanFollowsTheSubscription, Made, Live, LIVE_STATUSES, ENDED_STATUSES
<1>1. OnlyOneSubscription(s)
  BY DEF OnlyOneSubscription, BillingTypeInv, BillingTypeOK, EventRecords, MentionsExist, Made
<1>2. PICK latest \in issued : latest.sub = s /\ Tells(latest, stripe.subs[s]) /\ Latest(latest, s)
  BY DEF PlanInv, LatestEventTellsTheTruth
<1>3. handled = issued /\ RowIsOfLatest
  BY <1>1 DEF Settled, PlanInv
<1>4. PICK event \in issued : RowFollows(event) /\ latest.created <= event.created
  BY <1>2, <1>3 DEF RowIsOfLatest, RowFollows
<1>5. event = latest
  <2>1. event.created \in Int /\ latest.created \in Int
    BY DEF BillingTypeInv, BillingTypeOK, EventRecords
  <2>2. event # latest => event.created < latest.created
    BY <1>1, <1>2 DEF Latest, OnlyOneSubscription
  <2> QED
    BY <1>4, <2>1, <2>2
<1> QED
  BY <1>2, <1>4, <1>5 DEF RowFollows, Tells, Live

(***************************************************************************)
(* BillingRepository.apply and decidePlan: once Stripe has told everything *)
(* about its only subscription, in any order and again after any failure,  *)
(* an account is on the plan it pays for; and whoever pays is an account   *)
(* the webhook knows. Where two events carry the same second, or two are   *)
(* handled at once, nothing orders them, and the theorem does not speak of *)
(* them.                                                                   *)
(***************************************************************************)
THEOREM PaidPlansAreGiven ==
    ~Overlapping /\ OneEventASecond => (BillingSpec => []PlansArePaidFor)
<1> SUFFICES ASSUME ~Overlapping, OneEventASecond
             PROVE  BillingSpec => []PlansArePaidFor
  OBVIOUS
<1>1. BillingInit => BillingInv /\ PlanInv
  <2>1. BillingInit => PlanInv
    BY DEF BillingInit, NewAccount, NoSub, PlanInv, LatestEventTellsTheTruth, Made, RowIsOfLatest
  <2> QED
    BY <2>1, BillingStep
<1>2. BillingInv /\ PlanInv /\ [BillingNext]_billingVars => (BillingInv /\ PlanInv)'
  BY BillingStep, PlanStep DEF BillingInv
<1>3. BillingInv /\ PlanInv => PlansArePaidFor
  BY PlanFollows DEF BillingInv, PlansArePaidFor, OneCustomer, PayerIsKnown
<1> QED
  BY <1>1, <1>2, <1>3, PTL DEF BillingSpec

=============================================================================
