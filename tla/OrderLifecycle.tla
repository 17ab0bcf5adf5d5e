-------------------------- MODULE OrderLifecycle ---------------------------
(***************************************************************************)
(* What an order promises whoever looks at it: its status moves along      *)
(* ORDER_TRANSITIONS, it becomes PAID only together with the record of a   *)
(* payment, and its stamps and its stock follow its status.                *)
(***************************************************************************)
EXTENDS Integers, OrderStates

CONSTANT Orders

VARIABLES
    status,    \* the order's status
    paid_at,   \* the orders that were ever PAID
    released,  \* how often the order's units were given back
    settled    \* the orders with a recorded payment in full

vars == <<status, paid_at, released, settled>>

Init ==
    /\ status = [o \in Orders |-> "PAYMENT_PENDING"]
    /\ paid_at = {}
    /\ released = [o \in Orders |-> 0]
    /\ settled = {}

\* Safaricom's result: the order is PAID and stamped as its payment is recorded.
Pay(o) ==
    /\ can_transition(status[o], "PAID")
    /\ status' = [status EXCEPT ![o] = "PAID"]
    /\ paid_at' = paid_at \cup {o}
    /\ settled' = settled \cup {o}
    /\ UNCHANGED released

\* A payment in full for an order that no longer awaits one: recorded, no more.
PayLate(o) ==
    /\ ~can_transition(status[o], "PAID")
    /\ settled' = settled \cup {o}
    /\ UNCHANGED <<status, paid_at, released>>

\* Any other legal move; cancelling gives the units back.
Move(o, target) ==
    /\ can_transition(status[o], target) /\ target # "PAID"
    /\ status' = [status EXCEPT ![o] = target]
    /\ released' = IF target = "CANCELLED" THEN [released EXCEPT ![o] = @ + 1]
                   ELSE released
    /\ UNCHANGED <<paid_at, settled>>

Next == \E o \in Orders :
    Pay(o) \/ PayLate(o) \/ \E target \in OrderStatus : Move(o, target)

Spec == Init /\ [][Next]_vars
=============================================================================
