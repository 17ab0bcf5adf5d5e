----------------------------- MODULE Payments ------------------------------
(***************************************************************************)
(* From "Pay" to a paid order: POST /api/orders/<token>/pay and            *)
(* services/payments.initiate, Safaricom's side of an STK push, POST       *)
(* /api/payments/mpesa/callback and services/payments.apply_callback, and  *)
(* the admin's PATCH /api/admin/orders/<id>/status (update_status), which  *)
(* writes the same column.                                                 *)
(*                                                                         *)
(* Requests are transactions at READ COMMITTED, as in Inventory.  A pay    *)
(* request keeps its transaction open while it waits for Daraja's answer,  *)
(* so the payment row is committed, and visible to a callback, only after  *)
(* the prompt is already on the handset.                                   *)
(***************************************************************************)
EXTENDS Integers, FiniteSets, OrderStates

CONSTANTS
    Orders,       \* orders placed, awaiting payment at the start
    Pushes,       \* the pushes initiate may start: a bound
    Workers,      \* the threads that serve requests
    AdminTargets, \* the statuses admins ask for
    Faults,       \* what may go wrong
    MaxResends,   \* how often Daraja repeats a callback: a bound
    Simulated,    \* the pushes started in simulator mode: none leaves the server
    None

\* Daraja turns a push down; its answer is lost; a callback overtakes the commit
\* of its payment row; a callback is repeated; a callback is lost; the database
\* fails while one is applied; a worker dies.
FaultKinds == {"rejected", "unanswered", "early", "repeated", "lost", "dberror",
               "crash"}

ASSUME PaymentsAssumption ==
    /\ AdminTargets \subseteq OrderStatus
    /\ Faults \subseteq FaultKinds
    /\ MaxResends \in Nat
    /\ Simulated \subseteq Pushes
    /\ Orders \cap Pushes = {}
    /\ None \notin Orders \cup Pushes \cup Workers \cup OrderStatus \cup PaymentStatus

VARIABLES
    status,    \* orders.status
    paid_at,   \* the orders whose paid_at is set
    released,  \* how many times _release_inventory committed for the order
    payment,   \* payments: order, status, and whether checkout_request_id is set
    push,      \* Safaricom's side of each push
    wire,      \* how many callbacks of each push are on their way
    resends,   \* how often the callback of each push has been repeated
    lock,      \* the transaction holding each row's lock
    task       \* what each worker is doing

tables == <<status, paid_at, released, payment>>
safaricom == <<push, wire, resends>>
vars == <<status, paid_at, released, payment, push, wire, resends, lock, task>>

Rows == Orders \cup Pushes

PaymentRow == [order : Orders, status : PaymentStatus, known : BOOLEAN]

\* Row p of payments; the push it stands for is p too.
ASSUME NoneAssumption == None \notin PaymentRow

PushState == {"unsent", "prompted"} \cup Results

\* seen: the order's status as the session read it; found: the payment's.
Task == [pc : {"idle", "paying", "pushing", "accepted", "failed",
               "matched", "applying", "moving"},
         order : Orders \cup {None}, push : Pushes \cup {None},
         seen : OrderStatus \cup {None}, found : PaymentStatus \cup {None},
         target : OrderStatus \cup {None}]

Idle == [pc |-> "idle", order |-> None, push |-> None, seen |-> None,
         found |-> None, target |-> None]

Init ==
    /\ status = [o \in Orders |-> "PAYMENT_PENDING"]
    /\ paid_at = {}
    /\ released = [o \in Orders |-> 0]
    /\ payment = [p \in Pushes |-> None]
    /\ push = [p \in Pushes |-> "unsent"]
    /\ wire = [p \in Pushes |-> 0]
    /\ resends = [p \in Pushes |-> 0]
    /\ lock = [r \in Rows |-> None]
    /\ task = [w \in Workers |-> Idle]

-----------------------------------------------------------------------------

\* Nobody else holds the row.
Available(w, r) == lock[r] \in {None, w}

ReleaseLocks(w) == [r \in Rows |-> IF lock[r] = w THEN None ELSE lock[r]]

EndTransaction(w) ==
    /\ lock' = ReleaseLocks(w)
    /\ task' = [task EXCEPT ![w] = Idle]

-----------------------------------------------------------------------------
(* initiate                                                                 *)

\* Mutant: only ORDER_ALREADY_PAID is checked, not the table.
PayableUnlessPaid(current) == current # "PAID"

Payable(current) == current = "PAYMENT_FAILED" \/ can_transition(current, "PAID")

\* A row id no payment, rolled back or not, has had.
Unused(p) ==
    /\ payment[p] = None /\ push[p] = "unsent"
    /\ \A w \in Workers : task[w].push # p

\* The bounds on a run: customers stop tapping "Pay" when the ids are spoken for,
\* and admins stop cancelling an order whose units were given back twice.
PushesLeft ==
    Cardinality({w \in Workers : task[w].pc = "paying"})
       < Cardinality({p \in Pushes : Unused(p)})
MaxReleases == 2

\* The order is read without a lock; a paid order, and one that cannot be paid,
\* are refused on the spot.
PayStart(w, o) ==
    /\ task[w].pc = "idle" /\ PushesLeft
    /\ Payable(status[o])
    /\ task' = [task EXCEPT ![w] = [Idle EXCEPT !.pc = "paying", !.order = o,
                                                !.seen = status[o]]]
    /\ UNCHANGED <<tables, safaricom, lock>>

\* The session moved the order from PAYMENT_FAILED back to PAYMENT_PENDING.
Reopens(w) == task[w].seen = "PAYMENT_FAILED"

\* open_payment_for: its SELECT first flushes a reopened order, which takes the
\* row's lock, and sees the committed payments.
OpenPayments(o) ==
    {p \in Pushes : payment[p] # None /\ payment[p].order = o
                    /\ payment[p].status \in OPEN_STATUSES}

\* PAYMENT_ALREADY_PENDING.
PayRefuse(w) ==
    /\ task[w].pc = "paying"
    /\ Reopens(w) => Available(w, task[w].order)
    /\ OpenPayments(task[w].order) # {}
    /\ EndTransaction(w)
    /\ UNCHANGED <<tables, safaricom>>

\* Mutant: the payments already open are not looked at.
PayInsertUnguarded(w, p) ==
    /\ task[w].pc = "paying" /\ Unused(p)
    /\ Reopens(w) => Available(w, task[w].order)
    /\ lock' = IF Reopens(w) THEN [lock EXCEPT ![task[w].order] = w] ELSE lock
    /\ task' = [task EXCEPT ![w].pc = "pushing", ![w].push = p]
    /\ UNCHANGED <<tables, safaricom>>

\* The payment row is inserted, INITIATED, in the open transaction.
PayInsert(w, p) ==
    /\ task[w].pc = "paying" /\ Unused(p)
    /\ Reopens(w) => Available(w, task[w].order)
    /\ OpenPayments(task[w].order) = {}
    /\ lock' = IF Reopens(w) THEN [lock EXCEPT ![task[w].order] = w] ELSE lock
    /\ task' = [task EXCEPT ![w].pc = "pushing", ![w].push = p]
    /\ UNCHANGED <<tables, safaricom>>

\* stk_push: Daraja accepts, and prompts the handset.
PushAccepted(w) ==
    /\ task[w].pc = "pushing" /\ task[w].push \notin Simulated
    /\ push' = [push EXCEPT ![task[w].push] = "prompted"]
    /\ task' = [task EXCEPT ![w].pc = "accepted"]
    /\ UNCHANGED <<tables, wire, resends, lock>>

\* stk_push raises MpesaError: Daraja refused, or it could not be reached; or it
\* prompted the handset and its answer did not arrive in time.
PushFailed(w) ==
    /\ task[w].pc = "pushing" /\ task[w].push \notin Simulated
    /\ \/ "rejected" \in Faults /\ UNCHANGED push
       \/ "unanswered" \in Faults
          /\ push' = [push EXCEPT ![task[w].push] = "prompted"]
    /\ task' = [task EXCEPT ![w].pc = "failed"]
    /\ UNCHANGED <<tables, wire, resends, lock>>

\* What the commit of a pay request writes of its order.
ReopenedStatus(w) ==
    IF Reopens(w) THEN [status EXCEPT ![task[w].order] = "PAYMENT_PENDING"]
    ELSE status

\* The row as committed; known says whether it carries checkout_request_id.
Record(w, outcome, known) ==
    [payment EXCEPT ![task[w].push] =
        [order |-> task[w].order, status |-> outcome, known |-> known]]

\* Mutant: checkout_request_id is not stored.
PayCommitUnknown(w) ==
    /\ task[w].pc = "accepted"
    /\ payment' = Record(w, "PENDING", FALSE)
    /\ status' = ReopenedStatus(w)
    /\ EndTransaction(w)
    /\ UNCHANGED <<paid_at, released, safaricom>>

PayCommit(w) ==
    /\ task[w].pc = "accepted"
    /\ payment' = Record(w, "PENDING", TRUE)
    /\ status' = ReopenedStatus(w)
    /\ EndTransaction(w)
    /\ UNCHANGED <<paid_at, released, safaricom>>

\* PAYMENT_INITIATION_FAILED, after the failed attempt has been recorded.
PayFail(w) ==
    /\ task[w].pc = "failed"
    /\ payment' = Record(w, "FAILED", FALSE)
    /\ status' = ReopenedStatus(w)
    /\ EndTransaction(w)
    /\ UNCHANGED <<paid_at, released, safaricom>>

\* Mutant: the simulator marks the order paid itself.
PaySimulatedShortcut(w) ==
    /\ task[w].pc = "pushing" /\ task[w].push \in Simulated
    /\ payment' = Record(w, "PENDING", TRUE)
    /\ status' = [status EXCEPT ![task[w].order] = "PAID"]
    /\ EndTransaction(w)
    /\ UNCHANGED <<paid_at, released, safaricom>>

\* The simulator commits, then schedules a callback that reports a payment.
PaySimulated(w) ==
    /\ task[w].pc = "pushing" /\ task[w].push \in Simulated
    /\ payment' = Record(w, "PENDING", TRUE)
    /\ status' = ReopenedStatus(w)
    /\ push' = [push EXCEPT ![task[w].push] = "paid"]
    /\ wire' = [wire EXCEPT ![task[w].push] = @ + 1]
    /\ EndTransaction(w)
    /\ UNCHANGED <<paid_at, released, resends>>

-----------------------------------------------------------------------------
(* Safaricom                                                                *)

\* The customer pays, in full or another amount, or does not, and the one result
\* of the push is sent to the callback URL.
Handset(p, result) ==
    /\ push[p] = "prompted"
    /\ push' = [push EXCEPT ![p] = result]
    /\ wire' = [wire EXCEPT ![p] = @ + 1]
    /\ UNCHANGED <<tables, resends, lock, task>>

\* Daraja did not see the answer to a callback, and sends it again.
Resend(p) ==
    /\ "repeated" \in Faults /\ p \notin Simulated
    /\ push[p] \in Results /\ resends[p] < MaxResends
    /\ wire' = [wire EXCEPT ![p] = @ + 1]
    /\ resends' = [resends EXCEPT ![p] = @ + 1]
    /\ UNCHANGED <<tables, push, lock, task>>

\* The callback never arrives; or it was the simulator's timer, and the server
\* restarted.
Lose(p) ==
    /\ "lost" \in Faults
    /\ wire[p] > 0
    /\ wire' = [wire EXCEPT ![p] = @ - 1]
    /\ UNCHANGED <<tables, push, resends, lock, task>>

-----------------------------------------------------------------------------
(* apply_callback                                                           *)

\* A callback may arrive at any time: before the commit of the row it is about
\* only if "early" is among the faults.
Arrives(w, p) ==
    /\ task[w].pc = "idle" /\ wire[p] > 0
    /\ "early" \in Faults \/ \A x \in Workers : task[x].pc = "accepted" => task[x].push # p

\* The row with this CheckoutRequestID is there and is not SUCCESSFUL yet.
Matches(p) ==
    payment[p] # None /\ payment[p].known /\ payment[p].status # "SUCCESSFUL"

\* An unknown CheckoutRequestID, or an ordinary repeat: answered 200, for good.
CallbackIgnored(w, p) ==
    /\ Arrives(w, p) /\ ~Matches(p)
    /\ wire' = [wire EXCEPT ![p] = @ - 1]
    /\ UNCHANGED <<tables, push, resends, lock, task>>

\* The payment is read without a lock; the result is put on it in the session.
CallbackMatch(w, p) ==
    /\ Arrives(w, p) /\ Matches(p)
    /\ wire' = [wire EXCEPT ![p] = @ - 1]
    /\ task' = [task EXCEPT ![w] =
          [Idle EXCEPT !.pc = "matched", !.order = payment[p].order, !.push = p,
                       !.found = payment[p].status]]
    /\ UNCHANGED <<tables, push, resends, lock>>

\* The result differs from what the row already carried, so a flush writes it.
Dirty(w) ==
    task[w].found \in OPEN_STATUSES \/ push[task[w].push] = "short"

\* session.get(Order): flushes the payment, which takes its row's lock, then
\* reads the order as it is now.
CallbackReadOrder(w) ==
    LET p == task[w].push IN
    /\ task[w].pc = "matched"
    /\ Dirty(w) => Available(w, p)
    /\ lock' = IF Dirty(w) THEN [lock EXCEPT ![p] = w] ELSE lock
    /\ task' = [task EXCEPT ![w].pc = "applying", ![w].seen = status[task[w].order]]
    /\ UNCHANGED <<tables, safaricom>>

\* Mutant: Daraja's own word is stored.
OutcomeRaw(result) == result

\* Mutant: any ResultCode 0 counts as paid in full.
OutcomeAnyAmount(result) ==
    IF successful(result) THEN "SUCCESSFUL" ELSE failure_status(result)

\* The payment's new status, by the result alone.
Outcome(result) ==
    CASE result = "paid"  -> "SUCCESSFUL"
      [] result = "short" -> "FAILED"
      [] OTHER            -> failure_status(result)

\* Mutant: the amount is not compared before the order is marked paid.
VerdictAnyAmount(result, seen) ==
    IF successful(result) /\ can_transition(seen, "PAID") THEN "PAID" ELSE seen

\* The order's new status: PAID is written here and nowhere else.
Verdict(result, seen) ==
    CASE result = "paid" /\ can_transition(seen, "PAID") -> "PAID"
      [] ~successful(result) /\ can_transition(seen, "PAYMENT_FAILED") -> "PAYMENT_FAILED"
      [] OTHER -> seen

CallbackCommit(w) ==
    LET o == task[w].order
        p == task[w].push
        verdict == Verdict(push[p], task[w].seen)
        moved == verdict # task[w].seen
    IN  /\ task[w].pc = "applying"
        /\ moved => Available(w, o)
        /\ payment' = [payment EXCEPT ![p].status = Outcome(push[p])]
        /\ status' = IF moved THEN [status EXCEPT ![o] = verdict] ELSE status
        /\ paid_at' = IF moved /\ verdict = "PAID" THEN paid_at \cup {o} ELSE paid_at
        /\ EndTransaction(w)
        /\ UNCHANGED <<released, safaricom>>

\* mpesa_callback: any other exception is rolled back and answered 200.
CallbackError(w) ==
    /\ "dberror" \in Faults /\ task[w].pc \in {"matched", "applying"}
    /\ EndTransaction(w)
    /\ UNCHANGED <<tables, safaricom>>

-----------------------------------------------------------------------------
(* update_status                                                            *)

\* Mutant: the requested move is not checked against the table.
AdminStartUnchecked(w, o, target) ==
    /\ task[w].pc = "idle"
    /\ target \in AdminTargets /\ target # "PAID"
    /\ target = "CANCELLED" => released[o] < MaxReleases
    /\ task' = [task EXCEPT ![w] = [Idle EXCEPT !.pc = "moving", !.order = o,
                                               !.seen = status[o], !.target = target]]
    /\ UNCHANGED <<tables, safaricom, lock>>

\* The order is read without a lock and the move checked against what was read.
AdminStart(w, o, target) ==
    /\ task[w].pc = "idle"
    /\ target \in AdminTargets
    /\ target = "CANCELLED" => released[o] < MaxReleases
    /\ can_transition(status[o], target) /\ target # "PAID"
    /\ task' = [task EXCEPT ![w] = [Idle EXCEPT !.pc = "moving", !.order = o,
                                               !.seen = status[o], !.target = target]]
    /\ UNCHANGED <<tables, safaricom, lock>>

\* The status the request asked for is written over whatever is there now; a
\* cancellation gives the order's units back in the same transaction.
AdminCommit(w) ==
    LET o == task[w].order
        target == task[w].target
    IN  /\ task[w].pc = "moving"
        /\ Available(w, o)
        /\ status' = [status EXCEPT ![o] = target]
        /\ released' = IF target = "CANCELLED" THEN [released EXCEPT ![o] = @ + 1]
                       ELSE released
        /\ EndTransaction(w)
        /\ UNCHANGED <<paid_at, payment, safaricom>>

-----------------------------------------------------------------------------

\* A worker dies: its transaction is rolled back, and a callback it had taken is
\* repeated by Daraja, which saw no 200; the simulator's is gone with its timer.
Crash(w) ==
    /\ "crash" \in Faults /\ task[w].pc # "idle"
    /\ wire' = IF task[w].pc \in {"matched", "applying"} /\ task[w].push \notin Simulated
               THEN [wire EXCEPT ![task[w].push] = @ + 1] ELSE wire
    /\ EndTransaction(w)
    /\ UNCHANGED <<tables, push, resends>>

\* The next step of the request a worker is serving.
Step(w) ==
    \/ PayRefuse(w) \/ (\E p \in Pushes : PayInsert(w, p))
    \/ PushAccepted(w) \/ PushFailed(w)
    \/ PayCommit(w) \/ PayFail(w) \/ PaySimulated(w)
    \/ CallbackReadOrder(w) \/ CallbackCommit(w)
    \/ AdminCommit(w)

Callback(w, p) == CallbackIgnored(w, p) \/ CallbackMatch(w, p)

Request(w) ==
    \/ \E o \in Orders : PayStart(w, o)
    \/ \E o \in Orders, target \in OrderStatus : AdminStart(w, o, target)

\* Nothing is under way: the shop waits, perhaps for ever.
Quiet ==
    /\ \A w \in Workers : task[w].pc = "idle"
    /\ \A p \in Pushes : wire[p] = 0 /\ push[p] # "prompted"
    /\ UNCHANGED vars

Next ==
    \/ \E w \in Workers : Request(w) \/ Step(w) \/ CallbackError(w) \/ Crash(w)
    \/ \E w \in Workers, p \in Pushes : Callback(w, p)
    \/ \E p \in Pushes : Resend(p) \/ Lose(p) \/ \E r \in Results : Handset(p, r)
    \/ Quiet

Spec == Init /\ [][Next]_vars

\* A request is served to its end, even one whose row is locked now and then; a
\* callback under way is delivered; a prompt is answered or expires.
Fairness ==
    /\ \A w \in Workers : SF_vars(Step(w))
    /\ \A p \in Pushes : /\ SF_vars(\E w \in Workers : Callback(w, p))
                         /\ WF_vars(\E r \in Results : Handset(p, r))

FairSpec == Spec /\ Fairness

-----------------------------------------------------------------------------
(* What the component promises.                                             *)

TypeOK ==
    /\ status \in [Orders -> OrderStatus]
    /\ paid_at \subseteq Orders
    /\ released \in [Orders -> Nat]
    /\ payment \in [Pushes -> PaymentRow \cup {None}]
    /\ push \in [Pushes -> PushState]
    /\ wire \in [Pushes -> Nat]
    /\ resends \in [Pushes -> Nat]
    /\ lock \in [Rows -> Workers \cup {None}]
    /\ task \in [Workers -> Task]

\* Statuses only a paid order has.
PaidStatus == {"PAID", "PROCESSING", "SHIPPED", "DELIVERED", "REFUNDED"}

\* The order has a payment that Safaricom reported as paid in full, for a push
\* this shop started.
Settled(o) ==
    \E p \in Pushes : /\ payment[p] # None /\ payment[p].order = o
                      /\ payment[p].status = "SUCCESSFUL" /\ push[p] = "paid"

\* Rule 3: an order is PAID, or beyond, or stamped paid_at, only when Safaricom
\* reported the full amount for one of its pushes.
PaidMeansCharged ==
    \A o \in Orders : status[o] \in PaidStatus \/ o \in paid_at => Settled(o)

\* A payment whose callback was applied says what Safaricom reported of it: paid
\* in full, dismissed, expired, or anything else.
RecordedResult ==
    \A p \in Pushes : payment[p] # None /\ payment[p].known /\ payment[p].status # "PENDING" =>
        /\ payment[p].status = "SUCCESSFUL" <=> push[p] = "paid"
        /\ payment[p].status = "CANCELLED"  <=> push[p] = "dismissed"
        /\ payment[p].status = "TIMEOUT"    <=> push[p] = "expired"
        /\ payment[p].status = "FAILED"     <=> push[p] \in {"short", "declined"}

\* The prompts of an order the server knows of: its open payments, and a prompt
\* Daraja has accepted whose row the request is about to commit.
KnownPrompts(o) ==
    OpenPayments(o) \cup
    {task[w].push : w \in {x \in Workers : task[x].pc = "accepted" /\ task[x].order = o}}

\* "One prompt at a time" (initiate), of the prompts the server knows of: an order
\* never has two.  A prompt whose answer was lost, or whose request died, is in no
\* row with its CheckoutRequestID; the handset may show another one beside it.
OneKnownPrompt == \A o \in Orders : Cardinality(KnownPrompts(o)) <= 1

\* A payment row with its CheckoutRequestID whose push the customer has paid in
\* full, whether or not the callback that says so has been or ever will be applied.
PaidByKnownPush(o) ==
    \E p \in Pushes : /\ payment[p] # None /\ payment[p].order = o
                      /\ payment[p].known /\ push[p] = "paid"

\* Nobody is prompted again for an order he has paid by a push the server has the
\* CheckoutRequestID of: the payment is recorded and has moved the order on, or its
\* callback is under way, early, lost or failed and the row is still open, and
\* initiate refuses either way.  Money paid on a push whose answer was lost, or whose
\* request died, is not known to any row, and the customer may be prompted again.
KnownPayerNotPrompted ==
    [][\A w \in Workers :
         task[w].pc = "pushing" /\ push'[task[w].push] # push[task[w].push]
         => ~PaidByKnownPush(task[w].order)]_vars

\* An order's units are given back once, when it is cancelled.
ReleasedOnce ==
    \A o \in Orders : released[o] = IF status[o] = "CANCELLED" THEN 1 ELSE 0

\* The callback of a payment whose result is already recorded changes no order.
RepeatIsQuiet ==
    [][\A w \in Workers :
         /\ task[w].pc = "applying"
         /\ payment[task[w].push].status \notin OPEN_STATUSES
         /\ task'[w].pc = "idle"
         => UNCHANGED status]_vars

\* What Safaricom decided of a push ends up in its payment row.
ResultsRecorded ==
    \A p \in Pushes :
        push[p] \in Results ~> payment[p] # None
                               /\ payment[p].status = Outcome(push[p])

\* A push does not stay outstanding for ever: the customer can try again.
PromptsEnd ==
    \A o \in Orders : OpenPayments(o) # {} ~> OpenPayments(o) = {}

\* The lifecycle of an order, as the storefront and the admin see it.
Lifecycle == INSTANCE OrderLifecycle WITH settled <- {o \in Orders : Settled(o)}

FollowsLifecycle == Lifecycle!Spec
=============================================================================
