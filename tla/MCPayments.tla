---------------------------- MODULE MCPayments -----------------------------
(***************************************************************************)
(* Instances of Payments for TLC.                                          *)
(***************************************************************************)
EXTENDS Payments, TLC

\* Every status; every status but PAYMENT_FAILED, which an admin has no reason to
\* set; cancelling only; nothing.
AnyTarget == OrderStatus
NotPaymentFailed == OrderStatus \ {"PAYMENT_FAILED"}
OnlyCancel == {"CANCELLED"}
NoTarget == {}

\* Pushes of one mode are alike.
Symmetry == Permutations(Orders) \cup Permutations(Workers)
            \cup Permutations(Simulated) \cup Permutations(Pushes \ Simulated)
=============================================================================
