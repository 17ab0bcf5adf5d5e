------------------------------- MODULE Shelf -------------------------------
(***************************************************************************)
(* What Inventory promises its callers: every request happens at once, on  *)
(* the rows as they are at that moment.  No locks, sessions or workers.    *)
(***************************************************************************)
EXTENDS Integers, OrderStates

CONSTANTS Variants, Orders, Cart, None

VARIABLES variant, order

vars == <<variant, order>>

Init ==
    /\ \A v \in Variants : variant[v].stock >= 0
    /\ order = [o \in Orders |-> None]

\* A new order takes its units off the shelf, at the price on the shelf.
Sell(o, items) ==
    /\ order[o] = None
    /\ \A v \in Variants : items[v] > 0 =>
          variant[v].status = "active" /\ variant[v].stock >= items[v]
    /\ variant' = [v \in Variants |->
          [variant[v] EXCEPT !.stock = @ - items[v]]]
    /\ order' = [order EXCEPT ![o] =
          [status |-> "PAYMENT_PENDING", items |-> items,
           unit_price |-> [v \in Variants |->
                             IF items[v] > 0 THEN variant[v].price ELSE 0]]]

\* A legal move of an order; cancelling puts its units back.
Move(o, target) ==
    /\ order[o] # None
    /\ can_transition(order[o].status, target)
    /\ order' = [order EXCEPT ![o].status = target]
    /\ variant' = IF target = "CANCELLED"
                  THEN [v \in Variants |->
                          [variant[v] EXCEPT !.stock = @ + order[o].items[v]]]
                  ELSE variant

\* One row of the catalog is rewritten.
Edit(v) ==
    /\ \A u \in Variants \ {v} : variant'[u] = variant[u]
    /\ UNCHANGED order

Next ==
    \/ \E o \in Orders, items \in Cart : Sell(o, items)
    \/ \E o \in Orders, target \in OrderStatus : Move(o, target)
    \/ \E v \in Variants : Edit(v)

Spec == Init /\ [][Next]_vars
=============================================================================
