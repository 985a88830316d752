----------------------------- MODULE BillingBook ------------------------------
(***************************************************************************)
(* What billing promises about Stripe's events, whatever happens to their  *)
(* deliveries: an event counts once, at one moment, against the row of     *)
(* that moment. Billing implements this with transactions that fail, are   *)
(* repeated and overlap (see BookIsKept there).                            *)
(***************************************************************************)
EXTENDS StripeEvents

VARIABLES handled, row

bookVars == <<handled, row>>

BookInit == handled = {} /\ row = NewAccount

Handle(event) ==
    /\ handled' = handled \cup {event}
    /\ row' = IF Applies(row, event) THEN Applied(row, event) ELSE row

\* A first checkout makes the account known to Stripe, its deletion makes it unknown.
Introduce == row.customer = None /\ \E c \in Customers : row' = [row EXCEPT !.customer = c]
Forget == row' = NewAccount

BookNext ==
    \/ \E event \in handled' \ handled : Handle(event)
    \/ handled' = handled /\ (Introduce \/ Forget)

BookSpec == BookInit /\ [][BookNext]_bookVars
===============================================================================
