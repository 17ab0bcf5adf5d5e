-------------------------- MODULE PaymentsProofs ---------------------------
(***************************************************************************)
(* Theorems about Payments, for every number of orders, pushes and         *)
(* workers, and under every fault at once: what the money guarantees do    *)
(* not owe to luck with the interleaving.                                  *)
(***************************************************************************)
EXTENDS Payments, TLAPS

(***************************************************************************)
(* The inductive invariant.                                                *)
(***************************************************************************)

Sending(t) == t.pc \in {"pushing", "accepted", "failed"}

\* What the handler that has come to t.pc relies on.  In particular an admin's
\* move into a status only a paid order has started from such a status.
RequestOK(t) ==
    /\ t.pc # "idle" => t.order \in Orders
    /\ Sending(t) => t.push \in Pushes /\ payment[t.push] = None
    /\ t.pc = "pushing" => push[t.push] = "unsent"
    /\ t.pc \in {"matched", "applying"} =>
          /\ t.push \in Pushes /\ payment[t.push] # None
          /\ payment[t.push].order = t.order /\ payment[t.push].known
          /\ push[t.push] \in Results
    /\ t.pc = "applying" => t.seen \in OrderStatus
    /\ t.pc = "moving" =>
          /\ t.target \in OrderStatus
          /\ t.target \in PaidStatus => Settled(t.order)

RequestInv == \A w \in Workers : RequestOK(task[w])

\* No two requests insert the same row.
OwnRowInv ==
    \A w, x \in Workers :
        w # x /\ Sending(task[w]) /\ Sending(task[x]) => task[w].push # task[x].push

\* A callback under way reports a decision, and decisions are final.
WireInv == \A p \in Pushes : wire[p] > 0 => push[p] \in Results

\* A row a callback has touched holds the outcome of the push's result.
RecordInv ==
    \A p \in Pushes : payment[p] # None /\ payment[p].known /\ payment[p].status # "PENDING" =>
        push[p] \in Results /\ payment[p].status = Outcome(push[p])

IInv == /\ TypeOK /\ RequestInv /\ OwnRowInv /\ WireInv /\ RecordInv
        /\ PaidMeansCharged

-----------------------------------------------------------------------------
(* Facts about the definitions.                                             *)

LEMMA IdleType == Idle \in Task /\ RequestOK(Idle) /\ ~Sending(Idle)
  BY DEF Idle, Task, RequestOK, Sending

LEMMA OutcomeType == \A r \in Results : Outcome(r) \in PaymentStatus
  BY DEF Outcome, failure_status, Results, PaymentStatus

\* Only Safaricom's "paid in full" makes a payment SUCCESSFUL or an order PAID.
LEMMA VerdictType ==
    ASSUME NEW r \in Results, NEW seen \in OrderStatus
    PROVE  /\ Verdict(r, seen) \in OrderStatus
           /\ Verdict(r, seen) # seen => Verdict(r, seen) \in {"PAID", "PAYMENT_FAILED"}
           /\ Verdict(r, seen) = "PAID" /\ seen # "PAID" => r = "paid"
  BY DEF Verdict, Results, OrderStatus, successful

\* An admin reaches a paid order's statuses from such a status.
LEMMA PaidStatusIsClosed ==
    \A current, target : can_transition(current, target) /\ target \in PaidStatus
                         /\ target # "PAID" => current \in PaidStatus
  BY DEF can_transition, ORDER_TRANSITIONS, PaidStatus

LEMMA InitInv == Init => IInv
  <1> SUFFICES ASSUME Init PROVE IInv
    OBVIOUS
  <1> USE DEF Init
  <1>1. TypeOK
    BY IdleType DEF TypeOK, OrderStatus, PushState, Rows
  <1>2. RequestInv /\ OwnRowInv
    BY DEF RequestInv, OwnRowInv, RequestOK, Sending, Idle
  <1>3. WireInv /\ RecordInv /\ PaidMeansCharged
    BY DEF WireInv, RecordInv, PaidMeansCharged, PaidStatus
  <1>4. QED
    BY <1>1, <1>2, <1>3 DEF IInv

\* A recorded payment in full stays one.
LEMMA SettledStays ==
    ASSUME NEW o,
           \A p \in Pushes : payment[p] # None /\ payment[p].status = "SUCCESSFUL"
                             /\ push[p] = "paid" =>
               /\ payment'[p] # None /\ payment'[p].order = payment[p].order
               /\ payment'[p].status = "SUCCESSFUL" /\ push'[p] = "paid",
           Settled(o)
    PROVE  Settled(o)'
  BY DEF Settled

LEMMA EndTypes ==
    ASSUME TypeOK, NEW w \in Workers, EndTransaction(w)
    PROVE  /\ lock' \in [Rows -> Workers \cup {None}]
           /\ task' = [task EXCEPT ![w] = Idle]
           /\ task' \in [Workers -> Task]
  BY IdleType DEF TypeOK, EndTransaction, ReleaseLocks

(***************************************************************************)
(* Steps that write no table: what matters is the request they leave.      *)
(***************************************************************************)

LEMMA RequestStep ==
    ASSUME IInv, NEW w \in Workers, NEW t \in Task,
           task' = [task EXCEPT ![w] = t],
           lock' \in [Rows -> Workers \cup {None}],
           wire' \in [Pushes -> Nat],
           \A p \in Pushes : wire'[p] > 0 => push[p] \in Results,
           UNCHANGED <<tables, push, resends>>,
           RequestOK(t),
           Sending(t) => \A x \in Workers \ {w} : Sending(task[x]) => task[x].push # t.push
    PROVE  IInv'
  <1> USE DEF IInv
  <1>1. /\ task \in [Workers -> Task] /\ task'[w] = t
        /\ \A x \in Workers \ {w} : task'[x] = task[x]
        /\ UNCHANGED <<status, paid_at, released, payment, push>>
    BY DEF TypeOK, tables
  <1>2. TypeOK'
    BY <1>1 DEF TypeOK
  <1>3. RequestInv'
    BY <1>1 DEF RequestInv, RequestOK, Settled, Sending
  <1>4. OwnRowInv'
    BY <1>1 DEF OwnRowInv, Sending
  <1>5. WireInv' /\ RecordInv' /\ PaidMeansCharged'
    BY <1>1 DEF WireInv, RecordInv, PaidMeansCharged, Settled
  <1>6. QED
    BY <1>2, <1>3, <1>4, <1>5

LEMMA EndStep ==
    ASSUME IInv, NEW w \in Workers, EndTransaction(w),
           wire' \in [Pushes -> Nat],
           \A p \in Pushes : wire'[p] > 0 => push[p] \in Results,
           UNCHANGED <<tables, push, resends>>
    PROVE  IInv'
  BY IdleType, EndTypes, RequestStep DEF IInv

\* A callback sent, repeated, lost or ignored.
LEMMA WireStep ==
    ASSUME IInv, NEW p \in Pushes,
           Resend(p) \/ Lose(p) \/ \E w \in Workers : CallbackIgnored(w, p)
    PROVE  IInv'
  <1> USE DEF IInv
  <1>1. /\ wire' \in [Pushes -> Nat] /\ resends' \in [Pushes -> Nat]
        /\ \A q \in Pushes : wire'[q] > 0 => push[q] \in Results
        /\ UNCHANGED <<tables, push, lock, task>>
    BY DEF Resend, Lose, CallbackIgnored, Arrives, TypeOK, WireInv
  <1>2. TypeOK'
    BY <1>1 DEF TypeOK, tables
  <1>3. RequestInv' /\ OwnRowInv'
    BY <1>1 DEF RequestInv, RequestOK, OwnRowInv, Sending, Settled, tables
  <1>4. WireInv' /\ RecordInv' /\ PaidMeansCharged'
    BY <1>1 DEF WireInv, RecordInv, PaidMeansCharged, Settled, tables
  <1>5. QED
    BY <1>2, <1>3, <1>4

(***************************************************************************)
(* Requests taken on, and steps that leave the tables alone.               *)
(***************************************************************************)

LEMMA PayStartStep ==
    ASSUME IInv, NEW w \in Workers, NEW o \in Orders, PayStart(w, o)
    PROVE  IInv'
  <1> DEFINE t == [Idle EXCEPT !.pc = "paying", !.order = o, !.seen = status[o]]
  <1>1. t \in Task /\ RequestOK(t) /\ ~Sending(t)
    BY DEF IInv, TypeOK, Task, Idle, RequestOK, Sending
  <1>2. /\ task' = [task EXCEPT ![w] = t]
        /\ lock' \in [Rows -> Workers \cup {None}] /\ wire' \in [Pushes -> Nat]
        /\ \A p \in Pushes : wire'[p] > 0 => push[p] \in Results
        /\ UNCHANGED <<tables, push, resends>>
    BY DEF PayStart, IInv, TypeOK, WireInv, safaricom
  <1> HIDE DEF t
  <1>3. QED
    BY <1>1, <1>2, RequestStep

LEMMA PayInsertStep ==
    ASSUME IInv, NEW w \in Workers, NEW p \in Pushes, PayInsert(w, p)
    PROVE  IInv'
  <1> DEFINE t == [task[w] EXCEPT !.pc = "pushing", !.push = p]
  <1>1. task[w] \in Task /\ RequestOK(task[w])
    BY DEF IInv, TypeOK, RequestInv
  <1>2. t \in Task /\ RequestOK(t) /\ t.push = p
    BY <1>1 DEF PayInsert, Unused, Task, RequestOK, Sending
  <1>3. \A x \in Workers \ {w} : task[x].push # p
    BY DEF PayInsert, Unused
  <1>4. /\ task' = [task EXCEPT ![w] = t]
        /\ lock' \in [Rows -> Workers \cup {None}] /\ wire' \in [Pushes -> Nat]
        /\ \A q \in Pushes : wire'[q] > 0 => push[q] \in Results
        /\ UNCHANGED <<tables, push, resends>>
    BY DEF PayInsert, IInv, TypeOK, WireInv, safaricom
  <1> HIDE DEF t
  <1>5. QED
    BY <1>2, <1>3, <1>4, RequestStep

LEMMA CallbackMatchStep ==
    ASSUME IInv, NEW w \in Workers, NEW p \in Pushes, CallbackMatch(w, p)
    PROVE  IInv'
  <1> DEFINE t == [Idle EXCEPT !.pc = "matched", !.order = payment[p].order,
                               !.push = p, !.found = payment[p].status]
  <1>1. /\ payment[p] \in PaymentRow /\ payment[p] # None /\ payment[p].known
        /\ wire[p] > 0 /\ push[p] \in Results
    BY DEF CallbackMatch, Arrives, Matches, IInv, TypeOK, WireInv
  <1>2. t \in Task /\ RequestOK(t) /\ ~Sending(t)
    BY <1>1 DEF Task, Idle, RequestOK, Sending, PaymentRow
  <1>3. /\ task' = [task EXCEPT ![w] = t]
        /\ lock' \in [Rows -> Workers \cup {None}] /\ wire' \in [Pushes -> Nat]
        /\ \A q \in Pushes : wire'[q] > 0 => push[q] \in Results
        /\ UNCHANGED <<tables, push, resends>>
    BY <1>1 DEF CallbackMatch, IInv, TypeOK, WireInv
  <1> HIDE DEF t
  <1>4. QED
    BY <1>2, <1>3, RequestStep

LEMMA CallbackReadOrderStep ==
    ASSUME IInv, NEW w \in Workers, CallbackReadOrder(w)
    PROVE  IInv'
  <1> DEFINE t == [task[w] EXCEPT !.pc = "applying", !.seen = status[task[w].order]]
  <1>1. task[w] \in Task /\ RequestOK(task[w]) /\ task[w].pc = "matched"
    BY DEF IInv, TypeOK, RequestInv, CallbackReadOrder
  <1>2. task[w].order \in Orders /\ status[task[w].order] \in OrderStatus
    BY <1>1 DEF RequestOK, IInv, TypeOK
  <1>3. t \in Task /\ RequestOK(t) /\ ~Sending(t)
    BY <1>1, <1>2 DEF Task, RequestOK, Sending
  <1>4. /\ task' = [task EXCEPT ![w] = t]
        /\ lock' \in [Rows -> Workers \cup {None}] /\ wire' \in [Pushes -> Nat]
        /\ \A q \in Pushes : wire'[q] > 0 => push[q] \in Results
        /\ UNCHANGED <<tables, push, resends>>
    BY DEF CallbackReadOrder, IInv, TypeOK, WireInv, safaricom
  <1> HIDE DEF t
  <1>5. QED
    BY <1>3, <1>4, RequestStep

LEMMA AdminStartStep ==
    ASSUME IInv, NEW w \in Workers, NEW o \in Orders, NEW target \in OrderStatus,
           AdminStart(w, o, target)
    PROVE  IInv'
  <1> DEFINE t == [Idle EXCEPT !.pc = "moving", !.order = o, !.seen = status[o],
                               !.target = target]
  <1>1. target \in PaidStatus => Settled(o)
    BY PaidStatusIsClosed DEF AdminStart, IInv, PaidMeansCharged
  <1>2. t \in Task /\ RequestOK(t) /\ ~Sending(t)
    BY <1>1 DEF IInv, TypeOK, Task, Idle, RequestOK, Sending
  <1>3. /\ task' = [task EXCEPT ![w] = t]
        /\ lock' \in [Rows -> Workers \cup {None}] /\ wire' \in [Pushes -> Nat]
        /\ \A q \in Pushes : wire'[q] > 0 => push[q] \in Results
        /\ UNCHANGED <<tables, push, resends>>
    BY DEF AdminStart, IInv, TypeOK, WireInv, safaricom
  <1> HIDE DEF t
  <1>4. QED
    BY <1>2, <1>3, RequestStep

\* Requests that end without having written anything.
LEMMA NothingWrittenStep ==
    ASSUME IInv, NEW w \in Workers, PayRefuse(w) \/ CallbackError(w)
    PROVE  IInv'
  BY EndStep DEF PayRefuse, CallbackError, safaricom, IInv, TypeOK, WireInv

LEMMA CrashStep ==
    ASSUME IInv, NEW w \in Workers, Crash(w)
    PROVE  IInv'
  <1>1. task[w].pc \in {"matched", "applying"} =>
          task[w].push \in Pushes /\ push[task[w].push] \in Results
    BY DEF IInv, RequestInv, RequestOK
  <1>2. /\ wire' \in [Pushes -> Nat]
        /\ \A p \in Pushes : wire'[p] > 0 => push[p] \in Results
        /\ UNCHANGED <<tables, push, resends>>
    BY <1>1 DEF Crash, IInv, TypeOK, WireInv
  <1>3. EndTransaction(w)
    BY DEF Crash
  <1>4. QED
    BY <1>2, <1>3, EndStep

(***************************************************************************)
(* The push goes out; Safaricom decides it.                                *)
(***************************************************************************)

LEMMA PushStep ==
    ASSUME IInv, NEW w \in Workers, PushAccepted(w) \/ PushFailed(w)
    PROVE  IInv'
  <1> DEFINE p == task[w].push
  <1>1. /\ task[w] \in Task /\ task[w].pc = "pushing"
        /\ p \in Pushes /\ payment[p] = None /\ push[p] = "unsent"
        /\ task[w].order \in Orders
    BY DEF PushAccepted, PushFailed, IInv, TypeOK, RequestInv, RequestOK, Sending
  <1>2. PICK pc \in {"accepted", "failed"} : task' = [task EXCEPT ![w].pc = pc]
    BY DEF PushAccepted, PushFailed
  <1>3. /\ push' \in [Pushes -> PushState]
        /\ \A q \in Pushes \ {p} : push'[q] = push[q]
        /\ UNCHANGED <<tables, wire, resends, lock>>
    BY <1>1 DEF PushAccepted, PushFailed, IInv, TypeOK, PushState
  <1>4. UNCHANGED <<status, paid_at, released, payment>>
    BY <1>3 DEF tables
  <1>5. /\ task' \in [Workers -> Task]
        /\ task'[w] = [task[w] EXCEPT !.pc = pc]
        /\ \A x \in Workers \ {w} : task'[x] = task[x]
    BY <1>1, <1>2 DEF IInv, TypeOK, Task
  <1>6. \A x \in Workers \ {w} : Sending(task[x]) => task[x].push # p
    BY <1>1 DEF IInv, OwnRowInv, Sending
  <1>7. \A o \in Orders : Settled(o) => Settled(o)'
    BY <1>1, <1>3, <1>4 DEF Settled
  <1>8. TypeOK'
    BY <1>3, <1>4, <1>5 DEF IInv, TypeOK
  <1>9. RequestInv'
    <2> SUFFICES ASSUME NEW x \in Workers PROVE RequestOK(task[x])'
      BY DEF RequestInv
    <2>1. CASE x = w
      BY <2>1, <1>1, <1>4, <1>5 DEF RequestOK, Sending, Task
    <2>2. CASE x # w
      <3>1. RequestOK(task[x]) /\ task'[x] = task[x]
        BY <2>2, <1>5 DEF IInv, RequestInv
      <3>2. task[x].pc \in {"pushing", "matched", "applying"} => task[x].push # p
        BY <2>2, <3>1, <1>1, <1>6 DEF RequestOK, Sending
      <3>3. QED
        BY <3>1, <3>2, <1>3, <1>4, <1>7 DEF RequestOK, Sending
    <2>3. QED
      BY <2>1, <2>2
  <1>10. OwnRowInv'
    BY <1>1, <1>5, <1>6 DEF IInv, OwnRowInv, Sending, Task
  <1>11. WireInv' /\ RecordInv'
    BY <1>1, <1>3, <1>4 DEF IInv, WireInv, RecordInv, Results
  <1>12. PaidMeansCharged'
    BY <1>4, <1>7 DEF IInv, PaidMeansCharged
  <1>13. QED
    BY <1>8, <1>9, <1>10, <1>11, <1>12 DEF IInv

LEMMA HandsetStep ==
    ASSUME IInv, NEW p \in Pushes, NEW r \in Results, Handset(p, r)
    PROVE  IInv'
  <1>1. /\ push[p] = "prompted" /\ push' = [push EXCEPT ![p] = r]
        /\ wire' = [wire EXCEPT ![p] = @ + 1]
        /\ UNCHANGED <<status, paid_at, released, payment, resends, lock, task>>
    BY DEF Handset, tables
  <1>2. \A o \in Orders : Settled(o) => Settled(o)'
    BY <1>1 DEF Settled, IInv, TypeOK
  <1>3. TypeOK'
    BY <1>1 DEF IInv, TypeOK, PushState
  <1>4. RequestInv'
    <2> SUFFICES ASSUME NEW w \in Workers PROVE RequestOK(task[w])'
      BY DEF RequestInv
    <2>1. RequestOK(task[w]) /\ push \in [Pushes -> PushState]
      BY DEF IInv, RequestInv, TypeOK
    <2>2. QED
      BY <2>1, <1>1, <1>2 DEF RequestOK, Sending
  <1>5. OwnRowInv' /\ WireInv' /\ PaidMeansCharged'
    BY <1>1, <1>2 DEF IInv, TypeOK, OwnRowInv, Sending, WireInv, PaidMeansCharged
  <1>6. RecordInv'
    BY <1>1 DEF IInv, TypeOK, RecordInv, Results
  <1>7. QED
    BY <1>3, <1>4, <1>5, <1>6 DEF IInv

(***************************************************************************)
(* A pay request commits its row.                                          *)
(***************************************************************************)

LEMMA RecordStep ==
    ASSUME IInv, NEW w \in Workers, Sending(task[w]), EndTransaction(w),
           NEW outcome \in PaymentStatus, NEW known \in BOOLEAN,
           known => outcome = "PENDING",
           payment' = Record(w, outcome, known), status' = ReopenedStatus(w),
           push' \in [Pushes -> PushState], wire' \in [Pushes -> Nat],
           \A q \in Pushes : q # task[w].push => push'[q] = push[q],
           \A q \in Pushes : wire'[q] > 0 => push'[q] \in Results,
           UNCHANGED <<paid_at, released, resends>>
    PROVE  IInv'
  <1> DEFINE p == task[w].push
             row == [order |-> task[w].order, status |-> outcome, known |-> known]
  <1>1. /\ task[w] \in Task /\ p \in Pushes /\ payment[p] = None
        /\ task[w].order \in Orders
    BY DEF IInv, TypeOK, RequestInv, RequestOK, Sending
  <1>2. /\ payment' = [payment EXCEPT ![p] = row] /\ row \in PaymentRow /\ row # None
        /\ payment' \in [Pushes -> PaymentRow \cup {None}]
    BY <1>1, NoneAssumption DEF Record, PaymentRow, IInv, TypeOK
  <1>3. /\ payment'[p] = row
        /\ \A q \in Pushes \ {p} : payment'[q] = payment[q]
    BY <1>1, <1>2 DEF IInv, TypeOK
  <1>4. /\ status' \in [Orders -> OrderStatus]
        /\ \A o \in Orders : status'[o] \in {status[o], "PAYMENT_PENDING"}
    BY <1>1 DEF ReopenedStatus, IInv, TypeOK, OrderStatus
  <1>5. /\ lock' \in [Rows -> Workers \cup {None}]
        /\ task' \in [Workers -> Task] /\ task'[w] = Idle
        /\ \A x \in Workers \ {w} : task'[x] = task[x]
    BY EndTypes DEF IInv, TypeOK
  <1>6. \A o \in Orders : Settled(o) => Settled(o)'
    BY <1>1, <1>3 DEF Settled
  <1>7. TypeOK'
    BY <1>2, <1>4, <1>5 DEF IInv, TypeOK
  <1>8. RequestInv'
    <2> SUFFICES ASSUME NEW x \in Workers PROVE RequestOK(task[x])'
      BY DEF RequestInv
    <2>1. CASE x = w
      BY <2>1, <1>5 DEF RequestOK, Sending, Idle
    <2>2. CASE x # w
      <3>1. RequestOK(task[x]) /\ task'[x] = task[x]
        BY <2>2, <1>5 DEF IInv, RequestInv
      <3>2. Sending(task[x]) \/ task[x].pc \in {"matched", "applying"} =>
              task[x].push \in Pushes /\ task[x].push # p
        BY <2>2, <3>1, <1>1 DEF RequestOK, IInv, OwnRowInv
      <3>3. QED
        BY <3>1, <3>2, <1>3, <1>6 DEF RequestOK, Sending
    <2>3. QED
      BY <2>1, <2>2
  <1>9. OwnRowInv'
    BY <1>5, IdleType DEF IInv, OwnRowInv
  <1>10. WireInv'
    BY DEF WireInv
  <1>11. RecordInv'
    BY <1>3 DEF IInv, RecordInv
  <1>12. PaidMeansCharged'
    BY <1>4, <1>6 DEF IInv, PaidMeansCharged, PaidStatus
  <1>13. QED
    BY <1>7, <1>8, <1>9, <1>10, <1>11, <1>12 DEF IInv

LEMMA PayEndStep ==
    ASSUME IInv, NEW w \in Workers, PayCommit(w) \/ PayFail(w)
    PROVE  IInv'
  <1>1. /\ push' \in [Pushes -> PushState] /\ wire' \in [Pushes -> Nat]
        /\ push' = push /\ \A q \in Pushes : wire'[q] > 0 => push'[q] \in Results
        /\ UNCHANGED <<paid_at, released, resends>>
        /\ status' = ReopenedStatus(w) /\ EndTransaction(w) /\ Sending(task[w])
    BY DEF PayCommit, PayFail, safaricom, IInv, TypeOK, WireInv, Sending
  <1>2. "PENDING" \in PaymentStatus /\ "FAILED" \in PaymentStatus
    BY DEF PaymentStatus
  <1>3. CASE PayCommit(w)
    <2>1. payment' = Record(w, "PENDING", TRUE)
      BY <1>3 DEF PayCommit
    <2>2. QED
      BY <1>1, <1>2, <2>1, RecordStep
  <1>4. CASE PayFail(w)
    <2>1. payment' = Record(w, "FAILED", FALSE)
      BY <1>4 DEF PayFail
    <2>2. QED
      BY <1>1, <1>2, <2>1, RecordStep
  <1>5. QED
    BY <1>3, <1>4

LEMMA PaySimulatedStep ==
    ASSUME IInv, NEW w \in Workers, PaySimulated(w)
    PROVE  IInv'
  <1>1. Sending(task[w]) /\ task[w].push \in Pushes
    BY DEF PaySimulated, Sending, IInv, RequestInv, RequestOK
  <1>2. /\ push' \in [Pushes -> PushState] /\ wire' \in [Pushes -> Nat]
        /\ \A q \in Pushes : q # task[w].push => push'[q] = push[q]
        /\ \A q \in Pushes : wire'[q] > 0 => push'[q] \in Results
    BY <1>1 DEF PaySimulated, IInv, TypeOK, WireInv, PushState, Results
  <1>3. /\ payment' = Record(w, "PENDING", TRUE) /\ status' = ReopenedStatus(w)
        /\ EndTransaction(w) /\ UNCHANGED <<paid_at, released, resends>>
        /\ "PENDING" \in PaymentStatus
    BY DEF PaySimulated, PaymentStatus
  <1>4. QED
    BY <1>1, <1>2, <1>3, RecordStep

(***************************************************************************)
(* The two writers of a status that may overwrite one another: a callback, *)
(* and an admin.  Neither can take a settled payment back, and neither     *)
(* moves an order into a paid status without one.                          *)
(***************************************************************************)

LEMMA CallbackCommitStep ==
    ASSUME IInv, NEW w \in Workers, CallbackCommit(w)
    PROVE  IInv'
  <1> DEFINE o == task[w].order
             p == task[w].push
             seen == task[w].seen
             verdict == Verdict(push[p], seen)
             moved == verdict # seen
             row == [payment[p] EXCEPT !.status = Outcome(push[p])]
  <1>1. /\ task[w] \in Task /\ o \in Orders /\ seen \in OrderStatus
        /\ p \in Pushes /\ payment[p] # None
        /\ payment[p].order = o /\ payment[p].known
        /\ push[p] \in Results
    BY DEF CallbackCommit, IInv, TypeOK, RequestInv, RequestOK
  <1>2. payment[p] \in PaymentRow /\ Outcome(push[p]) \in PaymentStatus
    BY <1>1, OutcomeType DEF IInv, TypeOK
  <1>3. /\ payment' = [payment EXCEPT ![p] = row]
        /\ row \in PaymentRow /\ row # None
        /\ row.order = o /\ row.known /\ row.status = Outcome(push[p])
    BY <1>1, <1>2, NoneAssumption DEF CallbackCommit, PaymentRow, IInv, TypeOK
  <1>4. /\ payment' \in [Pushes -> PaymentRow \cup {None}]
        /\ payment'[p] = row
        /\ \A q \in Pushes \ {p} : payment'[q] = payment[q]
    BY <1>1, <1>3 DEF IInv, TypeOK
  <1>5. /\ UNCHANGED <<released, push, wire, resends>> /\ EndTransaction(w)
        /\ status' = IF moved THEN [status EXCEPT ![o] = verdict] ELSE status
        /\ paid_at' = IF moved /\ verdict = "PAID" THEN paid_at \cup {o} ELSE paid_at
    BY DEF CallbackCommit, safaricom
  <1>6. /\ verdict \in OrderStatus
        /\ moved => verdict \in {"PAID", "PAYMENT_FAILED"}
        /\ moved /\ verdict = "PAID" => push[p] = "paid"
    BY <1>1, VerdictType
  <1> HIDE DEF verdict, moved
  <1>7. \A x \in Orders : Settled(x) => Settled(x)'
    <2>1. payment[p].status = "SUCCESSFUL" /\ push[p] = "paid" =>
            row.status = "SUCCESSFUL"
      BY <1>3 DEF Outcome
    <2>2. QED
      BY <2>1, <1>1, <1>3, <1>4, <1>5, SettledStays
  <1>8. ASSUME NEW x \in Orders, x = o, push[p] = "paid" PROVE Settled(x)'
    <2>1. /\ payment'[p] # None /\ payment'[p].order = x
          /\ payment'[p].status = "SUCCESSFUL" /\ push'[p] = "paid"
      BY <1>3, <1>4, <1>5, <1>8 DEF Outcome
    <2>2. QED
      BY <2>1, <1>1 DEF Settled
  <1>9. /\ lock' \in [Rows -> Workers \cup {None}]
        /\ task' \in [Workers -> Task] /\ task'[w] = Idle
        /\ \A x \in Workers \ {w} : task'[x] = task[x]
    BY <1>5, EndTypes DEF IInv, TypeOK
  <1>10. TypeOK'
    <2>1. status' \in [Orders -> OrderStatus] /\ paid_at' \subseteq Orders
      BY <1>1, <1>5, <1>6 DEF IInv, TypeOK
    <2>2. QED
      BY <2>1, <1>4, <1>5, <1>9 DEF IInv, TypeOK
  <1>11. RequestInv'
    <2> SUFFICES ASSUME NEW x \in Workers PROVE RequestOK(task[x])'
      BY DEF RequestInv
    <2>1. CASE x = w
      BY <2>1, <1>9 DEF RequestOK, Sending, Idle
    <2>2. CASE x # w
      <3>1. RequestOK(task[x]) /\ task'[x] = task[x]
        BY <2>2, <1>9 DEF IInv, RequestInv
      <3>2. Sending(task[x]) => task[x].push # p
        BY <3>1, <1>1 DEF RequestOK
      <3>3. \A q \in Pushes : payment[q] # None =>
              /\ payment'[q] # None /\ payment'[q].order = payment[q].order
              /\ payment'[q].known = payment[q].known
        BY <1>1, <1>3, <1>4
      <3>4. QED
        BY <3>1, <3>2, <3>3, <1>4, <1>5, <1>7 DEF RequestOK, Sending
    <2>3. QED
      BY <2>1, <2>2
  <1>12. OwnRowInv'
    BY <1>9, IdleType DEF IInv, OwnRowInv
  <1>13. WireInv' /\ RecordInv'
    BY <1>1, <1>3, <1>4, <1>5 DEF IInv, WireInv, RecordInv
  <1>14. PaidMeansCharged'
    <2> SUFFICES ASSUME NEW x \in Orders, status'[x] \in PaidStatus \/ x \in paid_at'
                 PROVE  Settled(x)'
      BY DEF PaidMeansCharged
    <2>1. CASE moved /\ x = o
      <3>1. status'[x] = verdict
        BY <2>1, <1>1, <1>5 DEF IInv, TypeOK
      <3>2. CASE verdict = "PAID"
        BY <2>1, <3>2, <1>6, <1>8
      <3>3. CASE verdict # "PAID"
        BY <2>1, <3>1, <3>3, <1>5, <1>6, <1>7 DEF IInv, PaidMeansCharged, PaidStatus
      <3>4. QED
        BY <3>2, <3>3
    <2>2. CASE ~(moved /\ x = o)
      BY <2>2, <1>1, <1>5, <1>7 DEF IInv, TypeOK, PaidMeansCharged
    <2>3. QED
      BY <2>1, <2>2
  <1>15. QED
    BY <1>10, <1>11, <1>12, <1>13, <1>14 DEF IInv

LEMMA AdminCommitStep ==
    ASSUME IInv, NEW w \in Workers, AdminCommit(w)
    PROVE  IInv'
  <1> DEFINE o == task[w].order
             target == task[w].target
  <1>1. /\ task[w] \in Task /\ o \in Orders /\ target \in OrderStatus
        /\ target \in PaidStatus => Settled(o)
    BY DEF AdminCommit, IInv, TypeOK, RequestInv, RequestOK
  <1>2. /\ UNCHANGED <<paid_at, payment, push, wire, resends>> /\ EndTransaction(w)
        /\ status' = [status EXCEPT ![o] = target]
        /\ released' \in [Orders -> Nat]
    BY <1>1 DEF AdminCommit, safaricom, IInv, TypeOK
  <1>3. /\ lock' \in [Rows -> Workers \cup {None}]
        /\ task' \in [Workers -> Task] /\ task'[w] = Idle
        /\ \A x \in Workers \ {w} : task'[x] = task[x]
    BY <1>2, EndTypes DEF IInv, TypeOK
  <1>4. \A x \in Orders : Settled(x) => Settled(x)'
    BY <1>2 DEF Settled
  <1>5. TypeOK'
    BY <1>1, <1>2, <1>3 DEF IInv, TypeOK
  <1>6. RequestInv'
    <2> SUFFICES ASSUME NEW x \in Workers PROVE RequestOK(task[x])'
      BY DEF RequestInv
    <2>1. CASE x = w
      BY <2>1, <1>3 DEF RequestOK, Sending, Idle
    <2>2. CASE x # w
      BY <2>2, <1>2, <1>3, <1>4 DEF IInv, RequestInv, RequestOK, Sending
    <2>3. QED
      BY <2>1, <2>2
  <1>7. OwnRowInv' /\ WireInv' /\ RecordInv'
    BY <1>2, <1>3, IdleType DEF IInv, OwnRowInv, WireInv, RecordInv
  <1>8. PaidMeansCharged'
    BY <1>1, <1>2, <1>4 DEF IInv, TypeOK, PaidMeansCharged
  <1>9. QED
    BY <1>5, <1>6, <1>7, <1>8 DEF IInv

-----------------------------------------------------------------------------

LEMMA StutterInv == ASSUME IInv, UNCHANGED vars PROVE IInv'
  BY DEF vars, tables, safaricom, IInv, TypeOK, RequestInv, RequestOK, Sending,
         OwnRowInv, WireInv, RecordInv, PaidMeansCharged, Settled

LEMMA StepInv == IInv /\ [Next]_vars => IInv'
  <1> SUFFICES ASSUME IInv, [Next]_vars PROVE IInv'
    OBVIOUS
  <1>1. ASSUME NEW w \in Workers, Request(w) PROVE IInv'
    BY <1>1, PayStartStep, AdminStartStep DEF Request
  <1>2. ASSUME NEW w \in Workers, Step(w) PROVE IInv'
    BY <1>2, NothingWrittenStep, PayInsertStep, PushStep, PayEndStep,
       PaySimulatedStep, CallbackReadOrderStep, CallbackCommitStep, AdminCommitStep
       DEF Step
  <1>3. ASSUME NEW w \in Workers, CallbackError(w) \/ Crash(w) PROVE IInv'
    BY <1>3, NothingWrittenStep, CrashStep
  <1>4. ASSUME NEW w \in Workers, NEW p \in Pushes, Callback(w, p) PROVE IInv'
    BY <1>4, WireStep, CallbackMatchStep DEF Callback
  <1>5. ASSUME NEW p \in Pushes,
               Resend(p) \/ Lose(p) \/ \E r \in Results : Handset(p, r)
        PROVE  IInv'
    BY <1>5, WireStep, HandsetStep
  <1>6. ASSUME Quiet \/ UNCHANGED vars PROVE IInv'
    BY <1>6, StutterInv DEF Quiet
  <1>7. QED
    BY <1>1, <1>2, <1>3, <1>4, <1>5, <1>6 DEF Next

\* The invariant holds of every behaviour.
THEOREM Invariance == Spec => []IInv
  <1>1. QED
    BY InitInv, StepInv, PTL DEF Spec

\* The tables, Safaricom's side and the requests under way keep their shape;
\* every payment row a callback touches holds one of the code's own statuses.
THEOREM TypeCorrect == Spec => []TypeOK
  <1>1. IInv => TypeOK
    BY DEF IInv
  <1>2. QED
    BY <1>1, Invariance, PTL

\* Rule 3 at any load and under any fault: no order is PAID, processed, shipped,
\* refunded or stamped paid_at without the full amount reported for a push of its
\* own, although admins and callbacks write the column over each other.
THEOREM PaidOnlyIfCharged == Spec => []PaidMeansCharged
  <1>1. IInv => PaidMeansCharged
    BY DEF IInv
  <1>2. QED
    BY <1>1, Invariance, PTL

\* What apply_callback recorded of a payment is what Safaricom reported of it,
\* however often and in whatever order the callbacks arrive.
THEOREM RecordsResult == Spec => []RecordedResult
  <1>1. IInv => RecordedResult
    <2> SUFFICES ASSUME IInv, NEW p \in Pushes, payment[p] # None, payment[p].known,
                        payment[p].status # "PENDING"
                 PROVE  /\ payment[p].status = "SUCCESSFUL" <=> push[p] = "paid"
                        /\ payment[p].status = "CANCELLED"  <=> push[p] = "dismissed"
                        /\ payment[p].status = "TIMEOUT"    <=> push[p] = "expired"
                        /\ payment[p].status = "FAILED" <=> push[p] \in {"short", "declined"}
      BY DEF RecordedResult
    <2>1. push[p] \in Results /\ payment[p].status = Outcome(push[p])
      BY DEF IInv, RecordInv
    <2>2. QED
      BY <2>1 DEF Results, Outcome, failure_status
  <1>2. QED
    BY <1>1, Invariance, PTL
=============================================================================
