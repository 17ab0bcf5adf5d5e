---------------------------- MODULE OrderStates ----------------------------
(***************************************************************************)
(* The status tables of orders and payments (models/order.py,              *)
(* models/payment.py) and the predicates the handlers ask of them.         *)
(***************************************************************************)

OrderStatus == {"CREATED", "PAYMENT_PENDING", "PAID", "PROCESSING", "SHIPPED",
                "DELIVERED", "PAYMENT_FAILED", "CANCELLED", "REFUNDED"}

\* The legal moves, one pair <<current, target>> per arrow.
ORDER_TRANSITIONS ==
    {<<"CREATED", "PAYMENT_PENDING">>, <<"CREATED", "CANCELLED">>,
     <<"PAYMENT_PENDING", "PAID">>, <<"PAYMENT_PENDING", "PAYMENT_FAILED">>,
     <<"PAYMENT_PENDING", "CANCELLED">>,
     <<"PAYMENT_FAILED", "PAYMENT_PENDING">>, <<"PAYMENT_FAILED", "CANCELLED">>,
     <<"PAID", "PROCESSING">>, <<"PAID", "REFUNDED">>,
     <<"PROCESSING", "SHIPPED">>, <<"PROCESSING", "REFUNDED">>,
     <<"SHIPPED", "DELIVERED">>}

can_transition(current, target) == <<current, target>> \in ORDER_TRANSITIONS

PaymentStatus == {"INITIATED", "PENDING", "SUCCESSFUL", "FAILED", "CANCELLED",
                  "TIMEOUT"}

\* A push is still outstanding on the handset in these.
OPEN_STATUSES == {"INITIATED", "PENDING"}

\* The results Daraja reports for a push: it was paid (in full or with another
\* amount), the customer dismissed it (1032), it expired (1037), or it failed
\* for any other reason.
Results == {"paid", "short", "dismissed", "expired", "declined"}

\* result.successful: ResultCode 0, whatever the amount.
successful(result) == result \in {"paid", "short"}

failure_status(result) ==
    CASE result = "dismissed" -> "CANCELLED"
      [] result = "expired"   -> "TIMEOUT"
      [] OTHER                -> "FAILED"
=============================================================================
