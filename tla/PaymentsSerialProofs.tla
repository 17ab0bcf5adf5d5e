------------------------ MODULE PaymentsSerialProofs ------------------------
(***************************************************************************)
(* What payments owe to the order of requests.  No lock keeps two requests *)
(* about one order apart (initiate, apply_callback and update_status each  *)
(* read it without one), and then an order may have two prompts out that   *)
(* the server knows of, give its units back twice or leave the table of    *)
(* transitions.  (A prompt whose answer was lost is not among them: no     *)
(* order of requests makes the server know of it.)  These theorems say that*)
(* nothing else is to blame: as long as requests about the same order do not*)
(* overlap, none of that happens, for any number of workers.               *)
(***************************************************************************)
EXTENDS PaymentsProofs, FiniteSetTheorems

\* No two requests are under way about one order.
OrdersApart ==
    \A x, y \in Workers :
        x # y /\ task[x].pc # "idle" /\ task[y].pc # "idle"
        => task[x].order # task[y].order

(***************************************************************************)
(* The invariant of a shop whose orders are apart: what a request has read *)
(* of its order still holds.                                               *)
(***************************************************************************)

AloneRequest(t) ==
    /\ Sending(t) => OpenPayments(t.order) = {}
    /\ t.pc \notin {"idle", "matched"} => t.seen = status[t.order]
    /\ t.pc = "moving" => can_transition(status[t.order], t.target) /\ t.target # "PAID"

OneOpen == \A o \in Orders : \A p, q \in OpenPayments(o) : p = q

UnknownFailed ==
    \A p \in Pushes : payment[p] # None /\ ~payment[p].known => payment[p].status = "FAILED"

AloneInv ==
    /\ OneOpen /\ UnknownFailed /\ ReleasedOnce
    /\ \A w \in Workers : AloneRequest(task[w])

LEMMA AloneInit == Init => AloneInv
  BY DEF Init, AloneInv, OneOpen, OpenPayments, UnknownFailed, ReleasedOnce,
         AloneRequest, Sending, Idle

LEMMA IdleAlone == AloneRequest(Idle) /\ Idle.pc = "idle"
  BY DEF AloneRequest, Sending, Idle

\* A step that writes no order and no payment.
LEMMA RequestAlone ==
    ASSUME IInv, AloneInv, NEW w \in Workers, NEW t,
           task' = [task EXCEPT ![w] = t], AloneRequest(t),
           UNCHANGED <<status, released, payment>>
    PROVE  AloneInv'
  <1>1. \A x \in Workers : task'[x] = IF x = w THEN t ELSE task[x]
    BY DEF IInv, TypeOK
  <1>2. \A o : OpenPayments(o)' = OpenPayments(o)
    BY DEF OpenPayments
  <1>3. \A x \in Workers : AloneRequest(task[x])'
    BY <1>1, <1>2 DEF AloneInv, AloneRequest, Sending
  <1>4. OneOpen' /\ UnknownFailed' /\ ReleasedOnce'
    BY <1>2 DEF AloneInv, OneOpen, UnknownFailed, ReleasedOnce
  <1>5. QED
    BY <1>3, <1>4 DEF AloneInv

\* A commit that writes rows of its own order only leaves the others' reads true.
LEMMA CommitAlone ==
    ASSUME IInv, AloneInv, OrdersApart, NEW w \in Workers, task[w].pc # "idle",
           EndTransaction(w),
           \A o \in Orders \ {task[w].order} :
               status'[o] = status[o] /\ OpenPayments(o)' = OpenPayments(o)
    PROVE  \A x \in Workers : AloneRequest(task[x])'
  <1> SUFFICES ASSUME NEW x \in Workers PROVE AloneRequest(task[x])'
    OBVIOUS
  <1>1. /\ task'[w] = Idle
        /\ \A y \in Workers \ {w} : task'[y] = task[y]
    BY EndTypes DEF IInv, TypeOK
  <1>2. CASE x = w
    BY <1>1, <1>2, IdleAlone DEF AloneRequest, Sending, Idle
  <1>3. CASE x # w /\ task[x].pc = "idle"
    BY <1>1, <1>3 DEF AloneRequest, Sending
  <1>4. CASE x # w /\ task[x].pc # "idle"
    <2>1. task[x].order \in Orders \ {task[w].order}
      BY <1>4 DEF OrdersApart, IInv, RequestInv, RequestOK
    <2>2. AloneRequest(task[x]) /\ task'[x] = task[x]
      BY <1>1, <1>4 DEF AloneInv
    <2>3. QED
      BY <2>1, <2>2 DEF AloneRequest, Sending
  <1>5. QED
    BY <1>2, <1>3, <1>4

-----------------------------------------------------------------------------
(* The steps that write no order and no payment.                            *)

LEMMA ReadsAlone ==
    ASSUME IInv, AloneInv, NEW w \in Workers,
           \/ \E o \in Orders : PayStart(w, o)
           \/ \E o \in Orders, target \in OrderStatus : AdminStart(w, o, target)
           \/ \E p \in Pushes : PayInsert(w, p)
           \/ PushAccepted(w) \/ PushFailed(w)
           \/ \E p \in Pushes : CallbackMatch(w, p)
           \/ CallbackReadOrder(w)
           \/ PayRefuse(w) \/ CallbackError(w) \/ Crash(w)
    PROVE  AloneInv'
  <1> USE DEF tables
  <1>0. /\ task[w] \in Task /\ RequestOK(task[w]) /\ AloneRequest(task[w])
    BY DEF IInv, TypeOK, RequestInv, AloneInv
  <1>1. ASSUME NEW o \in Orders, PayStart(w, o) PROVE AloneInv'
    <2> DEFINE t == [Idle EXCEPT !.pc = "paying", !.order = o, !.seen = status[o]]
    <2>1. AloneRequest(t) /\ task' = [task EXCEPT ![w] = t]
          /\ UNCHANGED <<status, released, payment>>
      BY <1>1 DEF AloneRequest, Sending, Idle, PayStart
    <2> HIDE DEF t
    <2>2. QED
      BY <2>1, RequestAlone
  <1>2. ASSUME NEW o \in Orders, NEW target \in OrderStatus, AdminStart(w, o, target)
        PROVE  AloneInv'
    <2> DEFINE t == [Idle EXCEPT !.pc = "moving", !.order = o, !.seen = status[o],
                                 !.target = target]
    <2>1. AloneRequest(t) /\ task' = [task EXCEPT ![w] = t]
          /\ UNCHANGED <<status, released, payment>>
      BY <1>2 DEF AloneRequest, Sending, Idle, AdminStart
    <2> HIDE DEF t
    <2>2. QED
      BY <2>1, RequestAlone
  <1>3. ASSUME NEW p \in Pushes, PayInsert(w, p) PROVE AloneInv'
    <2> DEFINE t == [task[w] EXCEPT !.pc = "pushing", !.push = p]
    <2>1. AloneRequest(t) /\ task' = [task EXCEPT ![w] = t]
          /\ UNCHANGED <<status, released, payment>>
      BY <1>0, <1>3 DEF AloneRequest, Sending, PayInsert, Task
    <2> HIDE DEF t
    <2>2. QED
      BY <2>1, RequestAlone
  <1>4. ASSUME PushAccepted(w) \/ PushFailed(w) PROVE AloneInv'
    <2>1. PICK pc \in {"accepted", "failed"} : task' = [task EXCEPT ![w].pc = pc]
      BY <1>4 DEF PushAccepted, PushFailed
    <2> DEFINE t == [task[w] EXCEPT !.pc = pc]
    <2>2. task[w].pc = "pushing" /\ UNCHANGED <<status, released, payment>>
      BY <1>4 DEF PushAccepted, PushFailed
    <2>3. AloneRequest(t) /\ task' = [task EXCEPT ![w] = t]
      BY <1>0, <2>1, <2>2 DEF AloneRequest, Sending, Task
    <2> HIDE DEF t
    <2>4. QED
      BY <2>2, <2>3, RequestAlone
  <1>5. ASSUME NEW p \in Pushes, CallbackMatch(w, p) PROVE AloneInv'
    <2> DEFINE t == [Idle EXCEPT !.pc = "matched", !.order = payment[p].order,
                                 !.push = p, !.found = payment[p].status]
    <2>1. AloneRequest(t) /\ task' = [task EXCEPT ![w] = t]
          /\ UNCHANGED <<status, released, payment>>
      BY <1>5 DEF AloneRequest, Sending, Idle, CallbackMatch
    <2> HIDE DEF t
    <2>2. QED
      BY <2>1, RequestAlone
  <1>6. ASSUME CallbackReadOrder(w) PROVE AloneInv'
    <2> DEFINE t == [task[w] EXCEPT !.pc = "applying", !.seen = status[task[w].order]]
    <2>1. AloneRequest(t) /\ task' = [task EXCEPT ![w] = t]
          /\ UNCHANGED <<status, released, payment>>
      BY <1>0, <1>6 DEF AloneRequest, Sending, CallbackReadOrder, Task
    <2> HIDE DEF t
    <2>2. QED
      BY <2>1, RequestAlone
  <1>7. ASSUME PayRefuse(w) \/ CallbackError(w) \/ Crash(w) PROVE AloneInv'
    <2>1. task' = [task EXCEPT ![w] = Idle] /\ UNCHANGED <<status, released, payment>>
      BY <1>7 DEF PayRefuse, CallbackError, Crash, EndTransaction
    <2>2. QED
      BY <2>1, IdleAlone, RequestAlone
  <1>8. QED
    BY <1>1, <1>2, <1>3, <1>4, <1>5, <1>6, <1>7

LEMMA StillAlone ==
    ASSUME AloneInv, UNCHANGED <<status, released, payment, task>>
    PROVE  AloneInv'
  <1>1. \A o : OpenPayments(o)' = OpenPayments(o)
    BY DEF OpenPayments
  <1>2. QED
    BY <1>1 DEF AloneInv, OneOpen, UnknownFailed, ReleasedOnce, AloneRequest, Sending

-----------------------------------------------------------------------------
(* The commits.                                                             *)

LEMMA CancelledIsFinal == \A target : ~can_transition("CANCELLED", target)
  BY DEF can_transition, ORDER_TRANSITIONS

LEMMA OutcomeIsClosed == \A r \in Results : Outcome(r) \notin OPEN_STATUSES
  BY DEF Outcome, failure_status, Results, OPEN_STATUSES

\* A callback moves an order along the table, or not at all.
LEMMA VerdictMoves ==
    ASSUME NEW r \in Results, NEW seen, Verdict(r, seen) # seen
    PROVE  /\ can_transition(seen, Verdict(r, seen))
           /\ Verdict(r, seen) \in {"PAID", "PAYMENT_FAILED"}
           /\ Verdict(r, seen) = "PAID" <=> r = "paid"
  BY DEF Verdict, Results, successful

\* A payment in full is applied if the order still awaits one, and only then.
LEMMA VerdictOnPaid ==
    ASSUME NEW seen
    PROVE  Verdict("paid", seen) = IF can_transition(seen, "PAID") THEN "PAID" ELSE seen
  BY DEF Verdict, successful, can_transition

\* What the three ends of a pay request have in common.
PayEnds(w, outcome, known) ==
    /\ Sending(task[w]) /\ EndTransaction(w)
    /\ outcome = IF known THEN "PENDING" ELSE "FAILED"
    /\ payment' = Record(w, outcome, known) /\ status' = ReopenedStatus(w)
    /\ UNCHANGED <<paid_at, released>>

\* The row that a pay request adds, and the order it may reopen.
LEMMA PayEndsRows ==
    ASSUME IInv, AloneInv, NEW w \in Workers, NEW outcome, NEW known \in BOOLEAN,
           PayEnds(w, outcome, known)
    PROVE  LET o == task[w].order
               p == task[w].push
           IN  /\ o \in Orders /\ p \in Pushes /\ payment[p] = None
               /\ payment'[p] = [order |-> o, status |-> outcome, known |-> known]
               /\ \A q \in Pushes \ {p} : payment'[q] = payment[q]
               /\ \/ status' = status
                  \/ /\ status[o] = "PAYMENT_FAILED"
                     /\ status' = [status EXCEPT ![o] = "PAYMENT_PENDING"]
  <1>1. /\ task[w].order \in Orders /\ task[w].push \in Pushes
        /\ payment[task[w].push] = None /\ task[w].seen = status[task[w].order]
    BY DEF PayEnds, Sending, IInv, RequestInv, RequestOK, AloneInv, AloneRequest
  <1>2. QED
    BY <1>1 DEF PayEnds, Record, ReopenedStatus, Reopens, IInv, TypeOK

LEMMA PayEndsAlone ==
    ASSUME IInv, AloneInv, OrdersApart, NEW w \in Workers, NEW outcome,
           NEW known \in BOOLEAN, PayEnds(w, outcome, known)
    PROVE  AloneInv'
  <1> PICK o, p : o = task[w].order /\ p = task[w].push
    OBVIOUS
  <1> DEFINE row == [order |-> o, status |-> outcome, known |-> known]
  <1>1. /\ o \in Orders /\ p \in Pushes /\ payment[p] = None /\ payment'[p] = row
        /\ \A q \in Pushes \ {p} : payment'[q] = payment[q]
    BY PayEndsRows
  <1>2. \A x \in Orders : \/ status'[x] = status[x]
                          \/ /\ x = o /\ status[x] = "PAYMENT_FAILED"
                             /\ status'[x] = "PAYMENT_PENDING"
    BY ZenonT(40), PayEndsRows DEF IInv, TypeOK
  <1>3. OpenPayments(o) = {} /\ task[w].pc # "idle" /\ EndTransaction(w)
        /\ UNCHANGED released /\ outcome = (IF known THEN "PENDING" ELSE "FAILED")
    BY DEF PayEnds, Sending, AloneInv, AloneRequest
  <1>4. \A x \in Orders \ {o} : OpenPayments(x)' = OpenPayments(x)
    BY <1>1 DEF OpenPayments
  <1>5. OpenPayments(o)' \subseteq {p}
    BY <1>1, <1>3 DEF OpenPayments
  <1>6. OneOpen'
    BY <1>4, <1>5 DEF AloneInv, OneOpen
  <1>7. UnknownFailed'
    BY <1>1, <1>3 DEF AloneInv, UnknownFailed
  <1>8. ReleasedOnce'
    BY <1>2, <1>3 DEF AloneInv, ReleasedOnce
  <1>9. \A x \in Workers : AloneRequest(task[x])'
    BY <1>2, <1>3, <1>4, CommitAlone
  <1>10. QED
    BY <1>6, <1>7, <1>8, <1>9 DEF AloneInv

LEMMA PayEndings ==
    ASSUME NEW w \in Workers, PayCommit(w) \/ PayFail(w) \/ PaySimulated(w)
    PROVE  \E outcome \in {"PENDING", "FAILED"}, known \in BOOLEAN : PayEnds(w, outcome, known)
  BY DEF PayCommit, PayFail, PaySimulated, PayEnds, Sending

\* What apply_callback commits, in terms of the order as it is.
LEMMA CallbackRows ==
    ASSUME IInv, AloneInv, NEW w \in Workers, CallbackCommit(w)
    PROVE  LET o == task[w].order
               p == task[w].push
               verdict == Verdict(push[p], status[o])
           IN  /\ o \in Orders /\ p \in Pushes /\ push[p] \in Results
               /\ payment[p] # None /\ payment[p].order = o /\ payment[p].known
               /\ payment'[p] # None /\ payment'[p].order = o /\ payment'[p].known
               /\ payment'[p].status = Outcome(push[p])
               /\ \A q \in Pushes \ {p} : payment'[q] = payment[q]
               /\ status' = [status EXCEPT ![o] = verdict]
               /\ paid_at' = IF verdict # status[o] /\ verdict = "PAID"
                             THEN paid_at \cup {o} ELSE paid_at
               /\ UNCHANGED <<released, push>>
               /\ task[w].pc = "applying" /\ EndTransaction(w)
  <1> DEFINE o == task[w].order
             p == task[w].push
             row == [payment[p] EXCEPT !.status = Outcome(push[p])]
  <1>1. /\ o \in Orders /\ p \in Pushes /\ payment[p] # None
        /\ payment[p].order = o /\ payment[p].known /\ push[p] \in Results
        /\ task[w].seen = status[o]
    BY DEF CallbackCommit, IInv, RequestInv, RequestOK, AloneInv, AloneRequest, Sending
  <1>2. payment[p] \in PaymentRow /\ Outcome(push[p]) \in PaymentStatus
    BY <1>1, OutcomeType DEF IInv, TypeOK
  <1>3. /\ row # None /\ row.order = o /\ row.known /\ row.status = Outcome(push[p])
        /\ payment' = [payment EXCEPT ![p] = row]
    BY <1>1, <1>2, NoneAssumption DEF CallbackCommit, PaymentRow
  <1>4. payment'[p] = row /\ \A q \in Pushes \ {p} : payment'[q] = payment[q]
    BY <1>1, <1>3 DEF IInv, TypeOK
  <1>5. /\ status' = IF Verdict(push[p], status[o]) # status[o]
                     THEN [status EXCEPT ![o] = Verdict(push[p], status[o])] ELSE status
        /\ paid_at' = IF /\ Verdict(push[p], status[o]) # status[o]
                         /\ Verdict(push[p], status[o]) = "PAID"
                      THEN paid_at \cup {o} ELSE paid_at
        /\ UNCHANGED <<released, push>>
        /\ task[w].pc = "applying" /\ EndTransaction(w)
    BY <1>1 DEF CallbackCommit, safaricom
  <1>6. status' = [status EXCEPT ![o] = Verdict(push[p], status[o])]
    BY <1>1, <1>5 DEF IInv, TypeOK
  <1> HIDE DEF row
  <1>7. QED
    BY <1>1, <1>3, <1>4, <1>5, <1>6

LEMMA CallbackAlone ==
    ASSUME IInv, AloneInv, OrdersApart, NEW w \in Workers, CallbackCommit(w)
    PROVE  AloneInv'
  <1> PICK o, p : o = task[w].order /\ p = task[w].push
    OBVIOUS
  <1> DEFINE verdict == Verdict(push[p], status[o])
  <1>1. /\ o \in Orders /\ p \in Pushes /\ push[p] \in Results
        /\ payment[p] # None /\ payment[p].order = o /\ payment[p].known
        /\ payment'[p] # None /\ payment'[p].order = o /\ payment'[p].known
        /\ payment'[p].status = Outcome(push[p])
        /\ \A q \in Pushes \ {p} : payment'[q] = payment[q]
        /\ status' = [status EXCEPT ![o] = verdict]
        /\ UNCHANGED released /\ task[w].pc # "idle" /\ EndTransaction(w)
    BY CallbackRows
  <1>2. verdict = status[o] \/ (verdict # "CANCELLED" /\ status[o] # "CANCELLED")
    BY <1>1, VerdictMoves, CancelledIsFinal
  <1> HIDE DEF verdict
  <1>3. \A x \in Orders : \/ status'[x] = status[x]
                          \/ status[x] # "CANCELLED" /\ status'[x] # "CANCELLED"
    BY <1>1, <1>2 DEF IInv, TypeOK
  <1>4. p \notin OpenPayments(o)'
    BY <1>1, OutcomeIsClosed DEF OpenPayments
  <1>5. \A x : OpenPayments(x)' \subseteq OpenPayments(x)
    BY <1>1, <1>4 DEF OpenPayments
  <1>6. \A x \in Orders \ {o} : status'[x] = status[x] /\ OpenPayments(x)' = OpenPayments(x)
    BY <1>1 DEF OpenPayments, IInv, TypeOK
  <1>7. OneOpen' /\ UnknownFailed'
    BY <1>1, <1>5 DEF AloneInv, OneOpen, UnknownFailed
  <1>8. ReleasedOnce'
    BY <1>1, <1>3 DEF AloneInv, ReleasedOnce
  <1>9. \A x \in Workers : AloneRequest(task[x])'
    BY <1>1, <1>6, CommitAlone
  <1>10. QED
    BY <1>7, <1>8, <1>9 DEF AloneInv

LEMMA AdminAlone ==
    ASSUME IInv, AloneInv, OrdersApart, NEW w \in Workers, AdminCommit(w)
    PROVE  AloneInv'
  <1> DEFINE o == task[w].order
             target == task[w].target
  <1>1. /\ o \in Orders /\ can_transition(status[o], target)
        /\ status' = [status EXCEPT ![o] = target]
        /\ released' = IF target = "CANCELLED" THEN [released EXCEPT ![o] = @ + 1]
                       ELSE released
        /\ UNCHANGED payment /\ task[w].pc # "idle" /\ EndTransaction(w)
    BY DEF AdminCommit, IInv, RequestInv, RequestOK, AloneInv, AloneRequest
  <1>2. status[o] # "CANCELLED"
    BY <1>1, CancelledIsFinal
  <1>3. \A x : OpenPayments(x)' = OpenPayments(x)
    BY <1>1 DEF OpenPayments
  <1>4. \A x \in Orders \ {o} : status'[x] = status[x]
    BY <1>1 DEF IInv, TypeOK
  <1>5. OneOpen' /\ UnknownFailed'
    BY <1>1, <1>3 DEF AloneInv, OneOpen, UnknownFailed
  <1>6. ReleasedOnce'
    BY <1>1, <1>2 DEF AloneInv, ReleasedOnce, IInv, TypeOK
  <1>7. \A x \in Workers : AloneRequest(task[x])'
    BY <1>1, <1>3, <1>4, CommitAlone
  <1>8. QED
    BY <1>5, <1>6, <1>7 DEF AloneInv

LEMMA AloneStep == IInv /\ AloneInv /\ OrdersApart /\ [Next]_vars => AloneInv'
  <1> SUFFICES ASSUME IInv, AloneInv, OrdersApart, [Next]_vars PROVE AloneInv'
    OBVIOUS
  <1>1. ASSUME NEW w \in Workers, Request(w) PROVE AloneInv'
    BY <1>1, ReadsAlone DEF Request
  <1>2. ASSUME NEW w \in Workers, Step(w) PROVE AloneInv'
    <2>1. CASE PayCommit(w) \/ PayFail(w) \/ PaySimulated(w)
      BY <2>1, PayEndings, PayEndsAlone
    <2>2. QED
      BY <1>2, <2>1, ReadsAlone, CallbackAlone, AdminAlone DEF Step
  <1>3. ASSUME NEW w \in Workers, CallbackError(w) \/ Crash(w) PROVE AloneInv'
    BY <1>3, ReadsAlone
  <1>4. ASSUME NEW w \in Workers, NEW p \in Pushes, Callback(w, p) PROVE AloneInv'
    <2>1. CASE CallbackIgnored(w, p)
      BY <2>1, StillAlone DEF CallbackIgnored, tables
    <2>2. QED
      BY <1>4, <2>1, ReadsAlone DEF Callback
  <1>5. ASSUME NEW p \in Pushes,
               Resend(p) \/ Lose(p) \/ \E r \in Results : Handset(p, r)
        PROVE  AloneInv'
    BY <1>5, StillAlone DEF Resend, Lose, Handset, tables
  <1>6. ASSUME Quiet \/ UNCHANGED vars PROVE AloneInv'
    BY <1>6, StillAlone DEF Quiet, vars
  <1>7. QED
    BY <1>1, <1>2, <1>3, <1>4, <1>5, <1>6 DEF Next

LEMMA AloneInvariance == Spec /\ []OrdersApart => []AloneInv
  BY AloneInit, AloneStep, Invariance, PTL DEF Spec

\* "One prompt at a time", of the prompts the server knows of (KnownPrompts), needs
\* no more than orders whose requests do not overlap: a
\* request that is sending found no open payment, and no other one is sending.
THEOREM OnePromptAtATime == Spec /\ []OrdersApart => []OneKnownPrompt
  <1>1. AloneInv /\ OrdersApart => OneKnownPrompt
    <2> SUFFICES ASSUME AloneInv, OrdersApart, NEW o \in Orders
                 PROVE  Cardinality(KnownPrompts(o)) <= 1
      BY DEF OneKnownPrompt
    <2> DEFINE sending == {x \in Workers : task[x].pc = "accepted" /\ task[x].order = o}
    <2>1. \A p, q \in OpenPayments(o) : p = q
      BY DEF AloneInv, OneOpen
    <2>2. \A x, y \in sending : x = y
      BY DEF OrdersApart
    <2>3. sending # {} => OpenPayments(o) = {}
      BY DEF AloneInv, AloneRequest, Sending
    <2>a. KnownPrompts(o) = OpenPayments(o) \cup {task[w].push : w \in sending}
      BY DEF KnownPrompts
    <2> HIDE DEF sending
    <2>4. \A p, q \in KnownPrompts(o) : p = q
      <3>1. CASE sending = {}
        BY <2>1, <2>a, <3>1
      <3>2. CASE sending # {}
        <4>1. PICK x \in sending : \A y \in sending : y = x
          BY <2>2, <3>2
        <4>2. KnownPrompts(o) = {task[x].push}
          BY <2>3, <2>a, <3>2, <4>1
        <4>3. QED
          BY <4>2
      <3>3. QED
        BY <3>1, <3>2
    <2>5. CASE KnownPrompts(o) = {}
      BY <2>5, FS_EmptySet
    <2>6. CASE KnownPrompts(o) # {}
      <3>1. PICK p : KnownPrompts(o) = {p}
        BY <2>4, <2>6
      <3>2. Cardinality({p}) = 1
        BY FS_Singleton
      <3>3. QED
        BY <3>1, <3>2
    <2>7. QED
      BY <2>5, <2>6
  <1>2. QED
    BY <1>1, AloneInvariance, PTL

\* An order's units are given back exactly once per cancellation, for a shop whose
\* orders are apart: the second release is the doing of a second request.
THEOREM ReleasesOnce == Spec /\ []OrdersApart => []ReleasedOnce
  <1>1. AloneInv => ReleasedOnce
    BY DEF AloneInv
  <1>2. QED
    BY <1>1, AloneInvariance, PTL

(***************************************************************************)
(* The refinement: an order moves as OrderLifecycle says.                  *)
(***************************************************************************)

\* A push is decided by the time its payment counts as made.
LEMMA SuccessIsPaid ==
    ASSUME IInv, UnknownFailed, NEW p \in Pushes, payment[p] # None,
           payment[p].status = "SUCCESSFUL"
    PROVE  push[p] = "paid"
  <1>1. payment[p] \in PaymentRow
    BY DEF IInv, TypeOK
  <1>2. push[p] \in Results /\ Outcome(push[p]) = "SUCCESSFUL"
    BY <1>1 DEF IInv, RecordInv, UnknownFailed, PaymentRow
  <1>3. QED
    BY <1>2 DEF Results, Outcome, failure_status

\* Steps that settle nothing and take nothing back: pushes not decided before may
\* change, and rows may be added that are not SUCCESSFUL.
LEMMA SettledSame ==
    ASSUME IInv, UnknownFailed,
           \A p \in Pushes : push'[p] = push[p] \/ push[p] \in {"unsent", "prompted"},
           \A p \in Pushes : \/ payment'[p] = payment[p]
                             \/ payment[p] = None /\ payment'[p].status # "SUCCESSFUL"
    PROVE  \A o : Settled(o)' <=> Settled(o)
  <1> SUFFICES ASSUME NEW o PROVE Settled(o)' <=> Settled(o)
    OBVIOUS
  <1>1. ASSUME NEW p \in Pushes, payment[p] # None, payment[p].status = "SUCCESSFUL"
        PROVE  push[p] = "paid" /\ push'[p] = "paid" /\ payment'[p] = payment[p]
    BY <1>1, SuccessIsPaid
  <1>2. ASSUME NEW p \in Pushes, payment'[p] # None, payment'[p].status = "SUCCESSFUL"
        PROVE  payment'[p] = payment[p]
    BY <1>2
  <1>3. Settled(o) => Settled(o)'
    BY <1>1 DEF Settled
  <1>4. Settled(o)' => Settled(o)
    BY <1>1, <1>2 DEF Settled
  <1>5. QED
    BY <1>3, <1>4

\* Which pushes a step may touch: none that is decided.
LEMMA PushesDecidedOnce ==
    ASSUME IInv,
           \/ \E w \in Workers : PushAccepted(w) \/ PushFailed(w) \/ PaySimulated(w)
           \/ \E p \in Pushes, r \in Results : Handset(p, r)
    PROVE  \A q \in Pushes : push'[q] = push[q] \/ push[q] \in {"unsent", "prompted"}
  BY ZenonT(40) DEF PushAccepted, PushFailed, PaySimulated, Handset, IInv, TypeOK, RequestInv,
         RequestOK

LEMMA UntouchedTables ==
    ASSUME IInv, AloneInv, UNCHANGED tables,
           \A p \in Pushes : push'[p] = push[p] \/ push[p] \in {"unsent", "prompted"}
    PROVE  UNCHANGED Lifecycle!vars
  <1>1. \A o : Settled(o)' <=> Settled(o)
    BY SettledSame DEF AloneInv, tables
  <1>2. QED
    BY <1>1 DEF tables, Lifecycle!vars

\* A pay request reopens its order, or leaves it as it is.
LEMMA PaySettlesNothing ==
    ASSUME IInv, AloneInv, NEW w \in Workers,
           PayCommit(w) \/ PayFail(w) \/ PaySimulated(w)
    PROVE  \A o : Settled(o)' <=> Settled(o)
  <1>1. PICK outcome \in {"PENDING", "FAILED"}, known \in BOOLEAN : PayEnds(w, outcome, known)
    BY PayEndings
  <1>2. \A q \in Pushes : \/ payment'[q] = payment[q]
                          \/ payment[q] = None /\ payment'[q].status # "SUCCESSFUL"
    <2> PICK o, p : o = task[w].order /\ p = task[w].push
      OBVIOUS
    <2>1. /\ p \in Pushes /\ payment[p] = None
          /\ payment'[p] = [order |-> o, status |-> outcome, known |-> known]
          /\ \A q \in Pushes \ {p} : payment'[q] = payment[q]
      BY <1>1, PayEndsRows
    <2>2. payment'[p].status # "SUCCESSFUL"
      BY <2>1
    <2>3. QED
      BY <2>1, <2>2
  <1>3. \A q \in Pushes : push'[q] = push[q] \/ push[q] \in {"unsent", "prompted"}
    BY PushesDecidedOnce DEF PayCommit, PayFail, safaricom
  <1>4. QED
    BY <1>2, <1>3, SettledSame DEF AloneInv

LEMMA PayMoves ==
    ASSUME IInv, AloneInv, NEW w \in Workers,
           PayCommit(w) \/ PayFail(w) \/ PaySimulated(w)
    PROVE  [Lifecycle!Next]_(Lifecycle!vars)
  <1>1. PICK outcome \in {"PENDING", "FAILED"}, known \in BOOLEAN : PayEnds(w, outcome, known)
    BY PayEndings
  <1>2. UNCHANGED <<paid_at, released, {o \in Orders : Settled(o)}>>
    BY <1>1, PaySettlesNothing DEF PayEnds
  <1>3. CASE UNCHANGED status
    BY <1>2, <1>3 DEF Lifecycle!vars
  <1>4. ASSUME NEW o \in Orders, status[o] = "PAYMENT_FAILED",
               status' = [status EXCEPT ![o] = "PAYMENT_PENDING"]
        PROVE  Lifecycle!Move(o, "PAYMENT_PENDING")
    BY <1>2, <1>4 DEF Lifecycle!Move, Lifecycle!can_transition,
                      Lifecycle!ORDER_TRANSITIONS
  <1>5. "PAYMENT_PENDING" \in Lifecycle!OrderStatus
    BY DEF Lifecycle!OrderStatus
  <1>6. QED
    BY <1>1, <1>3, <1>4, <1>5, PayEndsRows DEF Lifecycle!Next

\* A callback settles its order and marks it paid, or settles it too late, or
\* reports a failure, or only records one.
LEMMA CallbackMoves ==
    ASSUME IInv, AloneInv, NEW w \in Workers, CallbackCommit(w)
    PROVE  [Lifecycle!Next]_(Lifecycle!vars)
  <1> USE DEF Lifecycle!can_transition, Lifecycle!ORDER_TRANSITIONS, Lifecycle!OrderStatus
  <1> PICK o, p : o = task[w].order /\ p = task[w].push
    OBVIOUS
  <1> DEFINE verdict == Verdict(push[p], status[o])
  <1>1. /\ o \in Orders /\ p \in Pushes /\ push[p] \in Results
        /\ payment[p] # None /\ payment[p].order = o
        /\ payment'[p] # None /\ payment'[p].order = o
        /\ payment'[p].status = Outcome(push[p])
        /\ \A q \in Pushes \ {p} : payment'[q] = payment[q]
        /\ status' = [status EXCEPT ![o] = verdict]
        /\ paid_at' = IF verdict # status[o] /\ verdict = "PAID"
                      THEN paid_at \cup {o} ELSE paid_at
        /\ UNCHANGED <<released, push>>
    BY CallbackRows
  <1>2. status \in [Orders -> OrderStatus]
    BY DEF IInv, TypeOK
  <1>3. /\ verdict = "PAID" /\ verdict # status[o] => push[p] = "paid"
        /\ verdict # status[o] => can_transition(status[o], verdict)
        /\ verdict # status[o] => verdict \in {"PAID", "PAYMENT_FAILED"}
    BY <1>1, VerdictMoves
  <1>4. push[p] = "paid" /\ can_transition(status[o], "PAID") => verdict = "PAID"
    BY VerdictOnPaid
  <1>5. verdict = status[o] => status' = status
    BY <1>1, <1>2
  <1> HIDE DEF verdict
  <1>6. CASE push[p] = "paid"
    <2>1. payment'[p].status = "SUCCESSFUL" /\ push'[p] = "paid"
      BY <1>1, <1>6 DEF Outcome
    <2>2. Settled(o)'
      BY <1>1, <2>1 DEF Settled
    <2>3. \A x \in Orders : x # o => (Settled(x)' <=> Settled(x))
      BY <1>1 DEF Settled
    <2>4. {x \in Orders : Settled(x)}' = {x \in Orders : Settled(x)} \cup {o}
      BY <1>1, <2>2, <2>3
    <2>5. CASE can_transition(status[o], "PAID")
      <3>1. status[o] # "PAID" /\ verdict = "PAID"
        BY <1>4, <1>6, <2>5 DEF can_transition, ORDER_TRANSITIONS
      <3>2. Lifecycle!Pay(o)
        BY <1>1, <2>4, <2>5, <3>1
           DEF Lifecycle!Pay, can_transition, ORDER_TRANSITIONS
      <3>3. QED
        BY <1>1, <3>2 DEF Lifecycle!Next
    <2>6. CASE ~can_transition(status[o], "PAID")
      <3>1. verdict = status[o]
        BY <1>6, <2>6, VerdictOnPaid DEF verdict
      <3>2. Lifecycle!PayLate(o)
        BY <1>1, <1>5, <2>4, <2>6, <3>1
           DEF Lifecycle!PayLate, can_transition, ORDER_TRANSITIONS
      <3>3. QED
        BY <1>1, <3>2 DEF Lifecycle!Next
    <2>7. QED
      BY <2>5, <2>6
  <1>7. CASE push[p] # "paid"
    <2>1. \A x : Settled(x)' <=> Settled(x)
      BY <1>1, <1>7 DEF Settled
    <2>2. paid_at' = paid_at
      BY <1>1, <1>3, <1>7
    <2>3. CASE verdict = status[o]
      BY <1>1, <1>5, <2>1, <2>2, <2>3 DEF Lifecycle!vars
    <2>4. CASE verdict # status[o]
      <3>1. verdict = "PAYMENT_FAILED"
        BY <1>3, <1>7, <2>4
      <3>2. Lifecycle!Move(o, "PAYMENT_FAILED")
        BY <1>1, <1>3, <2>1, <2>2, <2>4, <3>1
           DEF Lifecycle!Move, can_transition, ORDER_TRANSITIONS
      <3>3. QED
        BY <1>1, <3>2 DEF Lifecycle!Next
    <2>5. QED
      BY <2>3, <2>4
  <1>8. QED
    BY <1>6, <1>7

\* An admin's move is one the table has, from the status the order is in.
LEMMA AdminMoves ==
    ASSUME IInv, AloneInv, NEW w \in Workers, AdminCommit(w)
    PROVE  [Lifecycle!Next]_(Lifecycle!vars)
  <1> PICK o, target : o = task[w].order /\ target = task[w].target
    OBVIOUS
  <1>1. /\ o \in Orders /\ target \in OrderStatus /\ target # "PAID"
        /\ can_transition(status[o], target)
        /\ status' = [status EXCEPT ![o] = target]
        /\ released' = IF target = "CANCELLED" THEN [released EXCEPT ![o] = @ + 1]
                       ELSE released
        /\ UNCHANGED <<paid_at, payment, push>>
    BY DEF AdminCommit, safaricom, IInv, RequestInv, RequestOK, AloneInv, AloneRequest
  <1>2. {x \in Orders : Settled(x)}' = {x \in Orders : Settled(x)}
    BY <1>1 DEF Settled
  <1>3. Lifecycle!Move(o, target) /\ target \in Lifecycle!OrderStatus
    BY <1>1, <1>2 DEF Lifecycle!Move, Lifecycle!can_transition, Lifecycle!OrderStatus,
                      Lifecycle!ORDER_TRANSITIONS, can_transition, ORDER_TRANSITIONS,
                      OrderStatus
  <1>4. QED
    BY <1>1, <1>3 DEF Lifecycle!Next

LEMMA StepFollows ==
    IInv /\ AloneInv /\ [Next]_vars => [Lifecycle!Next]_(Lifecycle!vars)
  <1> SUFFICES ASSUME IInv, AloneInv, [Next]_vars
               PROVE  [Lifecycle!Next]_(Lifecycle!vars)
    OBVIOUS
  <1>1. ASSUME UNCHANGED <<tables, push>> PROVE UNCHANGED Lifecycle!vars
    BY <1>1, UntouchedTables
  <1>2. ASSUME NEW w \in Workers, Request(w) \/ CallbackError(w) \/ Crash(w)
        PROVE  UNCHANGED Lifecycle!vars
    BY <1>1, <1>2 DEF Request, PayStart, AdminStart, CallbackError, Crash, safaricom
  <1>3. ASSUME NEW w \in Workers, Step(w) PROVE [Lifecycle!Next]_(Lifecycle!vars)
    <2>1. CASE PayRefuse(w) \/ (\E p \in Pushes : PayInsert(w, p)) \/ CallbackReadOrder(w)
      BY <1>1, <2>1 DEF PayRefuse, PayInsert, CallbackReadOrder, safaricom
    <2>2. CASE PushAccepted(w) \/ PushFailed(w)
      <3>1. UNCHANGED tables
        BY <2>2 DEF PushAccepted, PushFailed
      <3>2. QED
        BY <2>2, <3>1, PushesDecidedOnce, UntouchedTables
    <2>3. QED
      BY <1>3, <2>1, <2>2, PayMoves, CallbackMoves, AdminMoves DEF Step
  <1>4. ASSUME NEW w \in Workers, NEW p \in Pushes, Callback(w, p)
        PROVE  UNCHANGED Lifecycle!vars
    BY <1>1, <1>4 DEF Callback, CallbackIgnored, CallbackMatch
  <1>5. ASSUME NEW p \in Pushes, Resend(p) \/ Lose(p) PROVE UNCHANGED Lifecycle!vars
    BY <1>1, <1>5 DEF Resend, Lose
  <1>6. ASSUME NEW p \in Pushes, NEW r \in Results, Handset(p, r)
        PROVE  UNCHANGED Lifecycle!vars
    <2>1. UNCHANGED tables
      BY <1>6 DEF Handset
    <2>2. QED
      BY <1>6, <2>1, PushesDecidedOnce, UntouchedTables
  <1>7. ASSUME Quiet \/ UNCHANGED vars PROVE UNCHANGED Lifecycle!vars
    BY <1>1, <1>7 DEF Quiet, vars, tables
  <1>8. QED
    BY <1>2, <1>3, <1>4, <1>5, <1>6, <1>7 DEF Next

\* While requests about one order do not overlap, every order follows the table of
\* transitions, becomes PAID together with the record of its payment, and gets its
\* stamp and its units as it does: each request shows at its commit and only there.
THEOREM OrdersFollowLifecycle == Spec /\ []OrdersApart => FollowsLifecycle
  <1>1. Init => Lifecycle!Init
    BY DEF Init, Lifecycle!Init, Settled
  <1>2. QED
    BY <1>1, StepFollows, Invariance, AloneInvariance, PTL
       DEF Spec, FollowsLifecycle, Lifecycle!Spec

(***************************************************************************)
(* Who has paid is not prompted again, if the server has the               *)
(* CheckoutRequestID of what he paid.  For this two more                   *)
(* things must not happen: Daraja repeating a callback it had no answer to *)
(* (the repeat of a failure fails the order under the customer's next      *)
(* prompt), and an admin setting PAYMENT_FAILED by hand.                   *)
(***************************************************************************)

Calling(t) == t.pc \in {"matched", "applying"}

\* A callback is taken for a payment that is still PENDING, and is the only one.
FreshRequest(t) ==
    /\ Calling(t) => wire[t.push] = 0 /\ payment[t.push].status = "PENDING"
    /\ t.pc = "moving" => t.target # "PAYMENT_FAILED"

\* An order that failed has no open payment, one that is settled awaits no payment.
FreshOrder(o) ==
    /\ status[o] # "CREATED"
    /\ status[o] = "PAYMENT_FAILED" => OpenPayments(o) = {}
    /\ Settled(o) => status[o] \notin {"PAYMENT_PENDING", "PAYMENT_FAILED"}

\* One callback per push, and none once its result is recorded.
OneCallback ==
    \A p \in Pushes :
        /\ wire[p] \in {0, 1}
        /\ payment[p] # None /\ payment[p].known /\ payment[p].status # "PENDING"
           => wire[p] = 0

FreshInv ==
    /\ OneCallback
    /\ \A w \in Workers : FreshRequest(task[w])
    /\ \A o \in Orders : FreshOrder(o)

\* What the theorem asks of Daraja and of the admins.
NoSurprises == "repeated" \notin Faults /\ "PAYMENT_FAILED" \notin AdminTargets

LEMMA FreshInit == Init => FreshInv
  BY DEF Init, FreshInv, OneCallback, FreshRequest, Calling, Idle, FreshOrder,
         OpenPayments, Settled

LEMMA FreshIdle == ~Calling(Idle) /\ Idle.pc # "moving"
  BY DEF Calling, Idle

\* Steps that write no order and no payment: the callbacks and the requests remain.
LEMMA UnwrittenFresh ==
    ASSUME IInv, AloneInv, FreshInv, UNCHANGED tables,
           \A p \in Pushes : push'[p] = push[p] \/ push[p] \in {"unsent", "prompted"},
           OneCallback', \A w \in Workers : FreshRequest(task[w])'
    PROVE  FreshInv'
  <1>1. \A o : Settled(o)' <=> Settled(o)
    BY SettledSame DEF AloneInv, tables
  <1>2. \A o : OpenPayments(o)' = OpenPayments(o) /\ UNCHANGED status
    BY DEF OpenPayments, tables
  <1>3. \A o \in Orders : FreshOrder(o)'
    BY <1>1, <1>2 DEF FreshInv, FreshOrder
  <1>4. QED
    BY <1>3 DEF FreshInv

LEMMA ReadsFresh ==
    ASSUME IInv, AloneInv, FreshInv, NoSurprises, NEW w \in Workers,
           \/ \E o \in Orders : PayStart(w, o)
           \/ \E o \in Orders, target \in OrderStatus : AdminStart(w, o, target)
           \/ \E p \in Pushes : PayInsert(w, p)
           \/ PushAccepted(w) \/ PushFailed(w)
           \/ CallbackReadOrder(w)
           \/ PayRefuse(w) \/ CallbackError(w)
    PROVE  FreshInv'
  <1>1. UNCHANGED <<tables, wire>>
    BY DEF PayStart, AdminStart, PayInsert, PushAccepted, PushFailed, CallbackReadOrder,
           PayRefuse, CallbackError, safaricom
  <1>2. \A p \in Pushes : push'[p] = push[p] \/ push[p] \in {"unsent", "prompted"}
    BY PushesDecidedOnce DEF PayStart, AdminStart, PayInsert, CallbackReadOrder, PayRefuse,
           CallbackError, safaricom
  <1>3. OneCallback'
    BY <1>1 DEF FreshInv, OneCallback, tables
  <1>4. /\ \A x \in Workers \ {w} : task'[x] = task[x]
        /\ task[w] \in Task /\ FreshRequest(task[w])
    BY DEF PayStart, AdminStart, PayInsert, PushAccepted, PushFailed, CallbackReadOrder,
           PayRefuse, CallbackError, EndTransaction, IInv, TypeOK, FreshInv
  <1>5. /\ Calling(task'[w]) => Calling(task[w]) /\ task'[w].push = task[w].push
        /\ task'[w].pc = "moving" => task'[w].target # "PAYMENT_FAILED"
    <2>1. CASE CallbackReadOrder(w)
      BY <1>4, <2>1 DEF CallbackReadOrder, Calling, Task, IInv, TypeOK
    <2>2. CASE \E o \in Orders, target \in OrderStatus : AdminStart(w, o, target)
      <3>1. PICK o \in Orders, target \in OrderStatus : AdminStart(w, o, target)
        BY <2>2
      <3>2. task'[w] = [Idle EXCEPT !.pc = "moving", !.order = o, !.seen = status[o],
                                    !.target = target]
        BY <3>1 DEF AdminStart, IInv, TypeOK
      <3>3. target # "PAYMENT_FAILED"
        BY <3>1 DEF AdminStart, NoSurprises
      <3>4. task'[w].pc = "moving" /\ task'[w].target = target
        BY <3>2 DEF Idle
      <3>5. QED
        BY <3>3, <3>4 DEF Calling
    <2>3. CASE \E o \in Orders : PayStart(w, o)
      <3>1. PICK o \in Orders :
              task'[w] = [Idle EXCEPT !.pc = "paying", !.order = o, !.seen = status[o]]
        BY <2>3 DEF PayStart, IInv, TypeOK
      <3>2. task'[w].pc = "paying"
        BY <3>1 DEF Idle
      <3>3. QED
        BY <3>2 DEF Calling
    <2>4. CASE \E p \in Pushes : PayInsert(w, p)
      <3>1. PICK p \in Pushes :
              task'[w] = [task[w] EXCEPT !.pc = "pushing", !.push = p]
        BY <2>4 DEF PayInsert, IInv, TypeOK
      <3>2. task'[w].pc = "pushing"
        BY <1>4, <3>1 DEF Task
      <3>3. QED
        BY <3>2 DEF Calling
    <2>5. CASE PushAccepted(w) \/ PushFailed(w)
      <3>1. task'[w].pc \in {"accepted", "failed"}
        BY <1>4, <2>5 DEF PushAccepted, PushFailed, Task, IInv, TypeOK
      <3>2. QED
        BY <3>1 DEF Calling
    <2>6. CASE PayRefuse(w) \/ CallbackError(w)
      BY <2>6, FreshIdle DEF PayRefuse, CallbackError, EndTransaction, IInv, TypeOK
    <2>7. QED
      BY <2>1, <2>2, <2>3, <2>4, <2>5, <2>6
  <1>6. \A x \in Workers : FreshRequest(task[x])'
    BY <1>1, <1>4, <1>5 DEF FreshInv, FreshRequest, Calling, tables
  <1>7. QED
    BY <1>1, <1>2, <1>3, <1>6, UnwrittenFresh

\* Two callbacks of one push would be two requests about one order.
LEMMA CallsApart ==
    ASSUME IInv, OrdersApart, NEW w \in Workers, NEW x \in Workers, x # w,
           Calling(task[w]), Calling(task[x])
    PROVE  task[x].push # task[w].push
  BY DEF Calling, OrdersApart, IInv, RequestInv, RequestOK

\* Callbacks sent, lost, ignored, taken, or left to be sent again by a crash.
LEMMA CallbackFresh ==
    ASSUME IInv, AloneInv, FreshInv, OrdersApart, NEW p \in Pushes,
           \/ Lose(p)
           \/ \E w \in Workers : CallbackIgnored(w, p) \/ CallbackMatch(w, p)
           \/ \E r \in Results : Handset(p, r)
    PROVE  FreshInv'
  <1>1. UNCHANGED tables
    BY DEF Lose, CallbackIgnored, CallbackMatch, Handset
  <1>2. \A q \in Pushes : push'[q] = push[q] \/ push[q] \in {"unsent", "prompted"}
    BY PushesDecidedOnce DEF Lose, CallbackIgnored, CallbackMatch
  <1>3. CASE \/ Lose(p)
             \/ \E w \in Workers : CallbackIgnored(w, p) \/ CallbackMatch(w, p)
    <2>1. wire[p] = 1 /\ wire' = [wire EXCEPT ![p] = 0]
      BY <1>3 DEF Lose, CallbackIgnored, CallbackMatch, Arrives, FreshInv, OneCallback,
                  IInv, TypeOK
    <2>2. OneCallback'
      BY <1>1, <2>1 DEF FreshInv, OneCallback, IInv, TypeOK, tables
    <2>3. \A q \in Pushes : wire[q] = 0 => wire'[q] = 0
      BY <2>1 DEF IInv, TypeOK
    <2>4. \A x \in Workers : Calling(task[x]) => task[x].push \in Pushes
      BY DEF Calling, IInv, RequestInv, RequestOK
    <2>5. CASE Lose(p) \/ \E w \in Workers : CallbackIgnored(w, p)
      <3>1. \A x \in Workers : FreshRequest(task[x])'
        BY <1>1, <2>3, <2>4, <2>5
           DEF Lose, CallbackIgnored, FreshInv, FreshRequest, Calling, tables
      <3>2. QED
        BY <1>1, <1>2, <2>2, <3>1, UnwrittenFresh
    <2>6. ASSUME NEW w \in Workers, CallbackMatch(w, p) PROVE FreshInv'
      <3>1. payment[p].status = "PENDING"
        BY <2>1, <2>6 DEF CallbackMatch, Matches, FreshInv, OneCallback
      <3>2. task'[w].push = p /\ task'[w].pc = "matched"
            /\ \A x \in Workers \ {w} : task'[x] = task[x]
        BY <2>6 DEF CallbackMatch, Idle, IInv, TypeOK
      <3>3. wire'[p] = 0
        BY <2>1 DEF IInv, TypeOK
      <3>4. \A x \in Workers : FreshRequest(task[x])'
        BY <1>1, <2>3, <2>4, <3>1, <3>2, <3>3 DEF FreshInv, FreshRequest, Calling, tables
      <3>5. QED
        BY <1>1, <1>2, <2>2, <3>4, UnwrittenFresh
    <2>7. QED
      BY <1>3, <2>5, <2>6
  <1>4. CASE \E r \in Results : Handset(p, r)
    <2>1. /\ push[p] = "prompted" /\ UNCHANGED task
          /\ wire' = [wire EXCEPT ![p] = @ + 1]
      BY <1>4 DEF Handset
    <2>2. wire[p] = 0
      BY <2>1 DEF IInv, WireInv, Results, FreshInv, OneCallback
    <2>3. payment[p] # None /\ payment[p].known => payment[p].status = "PENDING"
      BY <2>1 DEF IInv, RecordInv, Results
    <2>4. OneCallback'
      BY <1>1, <2>1, <2>2, <2>3 DEF FreshInv, OneCallback, IInv, TypeOK, tables
    <2>5. \A x \in Workers : Calling(task[x]) => task[x].push \in Pushes \ {p}
      BY <2>1 DEF Calling, IInv, RequestInv, RequestOK, Results
    <2>6. \A x \in Workers : FreshRequest(task[x])'
      BY <1>1, <2>1, <2>5 DEF FreshInv, FreshRequest, Calling, tables, IInv, TypeOK
    <2>7. QED
      BY <1>1, <1>2, <2>4, <2>6, UnwrittenFresh
  <1>5. QED
    BY <1>3, <1>4

LEMMA CrashFresh ==
    ASSUME IInv, AloneInv, FreshInv, OrdersApart, NEW w \in Workers, Crash(w)
    PROVE  FreshInv'
  <1>1. /\ UNCHANGED tables
        /\ \A q \in Pushes : push'[q] = push[q] \/ push[q] \in {"unsent", "prompted"}
        /\ task' = [task EXCEPT ![w] = Idle]
    BY DEF Crash, EndTransaction
  <1>2. /\ Calling(task[w]) => task[w].push \in Pushes
        /\ \A x \in Workers : Calling(task[x]) => task[x].push \in Pushes
    BY DEF Calling, IInv, RequestInv, RequestOK
  <1>3. \A q \in Pushes : \/ wire'[q] = wire[q]
                          \/ /\ Calling(task[w]) /\ q = task[w].push
                             /\ wire'[q] = 1
    BY <1>2 DEF Crash, Calling, FreshInv, FreshRequest, IInv, TypeOK
  <1>4. OneCallback'
    BY <1>1, <1>3 DEF FreshInv, FreshRequest, OneCallback, tables
  <1>5. \A x \in Workers : FreshRequest(task[x])'
    <2> SUFFICES ASSUME NEW x \in Workers PROVE FreshRequest(task[x])'
      OBVIOUS
    <2>1. task'[x] = IF x = w THEN Idle ELSE task[x]
      BY <1>1 DEF IInv, TypeOK
    <2>2. CASE x = w
      BY <2>1, <2>2, FreshIdle DEF FreshRequest, Calling
    <2>3. CASE x # w
      <3>1. Calling(task[x]) => wire'[task[x].push] = wire[task[x].push]
        BY <1>2, <1>3, <2>3, CallsApart
      <3>2. QED
        BY <1>1, <2>1, <2>3, <3>1 DEF FreshInv, FreshRequest, Calling, tables
    <2>4. QED
      BY <2>2, <2>3
  <1>6. QED
    BY <1>1, <1>4, <1>5, UnwrittenFresh

\* The commits end their request, and leave the callbacks of other orders alone.
LEMMA CommitRequestsFresh ==
    ASSUME IInv, FreshInv, OrdersApart, NEW w \in Workers, EndTransaction(w),
           NEW p \in Pushes, task[w].push = p,
           \A q \in Pushes \ {p} : payment'[q] = payment[q] /\ wire'[q] = wire[q],
           payment[p] = None \/ Calling(task[w])
    PROVE  \A x \in Workers : FreshRequest(task[x])'
  <1> SUFFICES ASSUME NEW x \in Workers PROVE FreshRequest(task[x])'
    OBVIOUS
  <1>1. task'[x] = IF x = w THEN Idle ELSE task[x]
    BY EndTypes DEF IInv, TypeOK
  <1>2. CASE x = w
    BY <1>1, <1>2, FreshIdle DEF FreshRequest, Calling
  <1>3. CASE x # w
    <2>1. Calling(task[x]) => task[x].push \in Pushes /\ payment[task[x].push] # None
      BY DEF Calling, IInv, RequestInv, RequestOK
    <2>2. Calling(task[x]) => task[x].push # p
      BY <1>3, <2>1, CallsApart
    <2>3. QED
      BY <1>1, <1>3, <2>1, <2>2 DEF FreshInv, FreshRequest, Calling
  <1>4. QED
    BY <1>2, <1>3

LEMMA PayEndsFresh ==
    ASSUME IInv, AloneInv, FreshInv, OrdersApart, NEW w \in Workers,
           PayCommit(w) \/ PayFail(w) \/ PaySimulated(w)
    PROVE  FreshInv'
  <1>1. PICK outcome \in {"PENDING", "FAILED"}, known \in BOOLEAN : PayEnds(w, outcome, known)
    BY PayEndings
  <1> PICK o, p : o = task[w].order /\ p = task[w].push
    OBVIOUS
  <1>2. /\ o \in Orders /\ p \in Pushes /\ payment[p] = None
        /\ payment'[p] = [order |-> o, status |-> outcome, known |-> known]
        /\ \A q \in Pushes \ {p} : payment'[q] = payment[q]
        /\ \/ status' = status
           \/ /\ status[o] = "PAYMENT_FAILED"
              /\ status' = [status EXCEPT ![o] = "PAYMENT_PENDING"]
    BY <1>1, PayEndsRows
  <1>3. /\ task[w].seen = status[o] /\ EndTransaction(w) /\ status' = ReopenedStatus(w)
    BY <1>1 DEF PayEnds, AloneInv, AloneRequest, Sending
  <1>4. status'[o] # "PAYMENT_FAILED"
    BY <1>2, <1>3 DEF ReopenedStatus, Reopens, IInv, TypeOK
  <1>5. wire'[p] \in {0, 1} /\ \A q \in Pushes \ {p} : wire'[q] = wire[q]
    <2>1. CASE PaySimulated(w)
      <3>1. push[p] = "unsent" /\ wire' = [wire EXCEPT ![p] = @ + 1]
        BY <2>1 DEF PaySimulated, IInv, RequestInv, RequestOK
      <3>2. wire[p] = 0
        BY <1>2, <3>1 DEF IInv, WireInv, Results, FreshInv, OneCallback
      <3>3. QED
        BY <1>2, <3>1, <3>2 DEF IInv, TypeOK
    <2>2. CASE PayCommit(w) \/ PayFail(w)
      BY <1>2, <2>2 DEF PayCommit, PayFail, safaricom, FreshInv, OneCallback
    <2>3. QED
      BY <2>1, <2>2
  <1>6. OneCallback'
    BY <1>1, <1>2, <1>5 DEF FreshInv, OneCallback, PayEnds
  <1>7. \A x \in Workers : FreshRequest(task[x])'
    BY <1>2, <1>3, <1>5, CommitRequestsFresh
  <1>8. \A x \in Orders : FreshOrder(x)'
    <2> SUFFICES ASSUME NEW x \in Orders PROVE FreshOrder(x)'
      OBVIOUS
    <2>1. Settled(x)' <=> Settled(x)
      BY PaySettlesNothing
    <2>2. CASE x # o
      <3>1. status'[x] = status[x] /\ OpenPayments(x)' = OpenPayments(x)
        BY <1>2, <2>2 DEF OpenPayments, IInv, TypeOK
      <3>2. QED
        BY <2>1, <3>1 DEF FreshInv, FreshOrder
    <2>3. CASE x = o
      <3>1. \/ status'[o] = status[o]
            \/ status[o] = "PAYMENT_FAILED" /\ status'[o] = "PAYMENT_PENDING"
        BY <1>2 DEF IInv, TypeOK
      <3>2. QED
        BY <1>2, <1>4, <2>1, <2>3, <3>1 DEF FreshInv, FreshOrder
    <2>4. QED
      BY <2>2, <2>3
  <1>9. QED
    BY <1>6, <1>7, <1>8 DEF FreshInv

LEMMA CallbackCommitFresh ==
    ASSUME IInv, AloneInv, FreshInv, OrdersApart, NEW w \in Workers, CallbackCommit(w)
    PROVE  FreshInv'
  <1> PICK o, p : o = task[w].order /\ p = task[w].push
    OBVIOUS
  <1> DEFINE verdict == Verdict(push[p], status[o])
  <1>1. /\ o \in Orders /\ p \in Pushes /\ push[p] \in Results
        /\ payment[p] # None /\ payment[p].order = o
        /\ payment'[p] # None /\ payment'[p].order = o
        /\ payment'[p].status = Outcome(push[p])
        /\ \A q \in Pushes \ {p} : payment'[q] = payment[q]
        /\ status' = [status EXCEPT ![o] = verdict]
        /\ UNCHANGED push
        /\ Calling(task[w]) /\ EndTransaction(w)
    BY CallbackRows DEF Calling
  <1>2. wire' = wire /\ wire[p] = 0 /\ payment[p].status = "PENDING"
    BY <1>1 DEF CallbackCommit, safaricom, FreshInv, FreshRequest
  <1>3. OneCallback'
    BY <1>1, <1>2 DEF FreshInv, OneCallback
  <1>4. \A x \in Workers : FreshRequest(task[x])'
    BY <1>1, <1>2, CommitRequestsFresh
  <1>5. p \notin OpenPayments(o)' /\ OpenPayments(o) = {p}
    BY <1>1, <1>2, OutcomeIsClosed DEF OpenPayments, OPEN_STATUSES, AloneInv, OneOpen
  <1>6. \A x : x # o => (OpenPayments(x)' = OpenPayments(x) /\ (Settled(x)' <=> Settled(x)))
    BY <1>1 DEF OpenPayments, Settled
  <1>7. OpenPayments(o)' = {}
    BY <1>1, <1>5 DEF OpenPayments
  <1>8. Settled(o)' => Settled(o) \/ push[p] = "paid"
    BY <1>1 DEF Settled
  <1>9. status[o] # "PAYMENT_FAILED"
    BY <1>1, <1>5 DEF FreshInv, FreshOrder
  <1>10. /\ verdict # "CREATED"
         /\ push[p] = "paid" => verdict \notin {"PAYMENT_PENDING", "PAYMENT_FAILED"}
         /\ Settled(o) => verdict \notin {"PAYMENT_PENDING", "PAYMENT_FAILED"}
    <2>1. status[o] # "CREATED"
      BY <1>1 DEF FreshInv, FreshOrder
    <2>2. verdict = status[o] \/ verdict \in {"PAID", "PAYMENT_FAILED"}
      BY <1>1, VerdictMoves
    <2>3. push[p] = "paid" => verdict \notin {"PAYMENT_PENDING", "PAYMENT_FAILED"}
      BY <1>9, VerdictOnPaid DEF can_transition, ORDER_TRANSITIONS
    <2>4. Settled(o) => status[o] \notin {"PAYMENT_PENDING", "PAYMENT_FAILED"}
      BY <1>1 DEF FreshInv, FreshOrder
    <2>5. verdict = "PAYMENT_FAILED" => status[o] \in {"PAYMENT_PENDING", "PAYMENT_FAILED"}
      BY <1>1, VerdictMoves DEF can_transition, ORDER_TRANSITIONS
    <2>6. QED
      BY <2>1, <2>2, <2>3, <2>4, <2>5
  <1> HIDE DEF verdict
  <1>11. \A x \in Orders : FreshOrder(x)'
    <2> SUFFICES ASSUME NEW x \in Orders PROVE FreshOrder(x)'
      OBVIOUS
    <2>1. status'[x] = IF x = o THEN verdict ELSE status[x]
      BY <1>1 DEF IInv, TypeOK
    <2>2. CASE x = o
      BY <1>7, <1>8, <1>10, <2>1, <2>2 DEF FreshOrder
    <2>3. CASE x # o
      BY <1>6, <2>1, <2>3 DEF FreshInv, FreshOrder
    <2>4. QED
      BY <2>2, <2>3
  <1>12. QED
    BY <1>3, <1>4, <1>11 DEF FreshInv

LEMMA AdminFresh ==
    ASSUME IInv, AloneInv, FreshInv, OrdersApart, NEW w \in Workers, AdminCommit(w)
    PROVE  FreshInv'
  <1> PICK o, target : o = task[w].order /\ target = task[w].target
    OBVIOUS
  <1>1. /\ o \in Orders /\ can_transition(status[o], target)
        /\ target # "PAYMENT_FAILED" /\ status' = [status EXCEPT ![o] = target]
        /\ UNCHANGED <<payment, push, wire>> /\ EndTransaction(w)
    BY DEF AdminCommit, safaricom, IInv, RequestInv, RequestOK, AloneInv, AloneRequest,
           FreshInv, FreshRequest
  <1>2. OneCallback'
    BY <1>1 DEF FreshInv, OneCallback
  <1>3. \A x \in Workers : task'[x] = IF x = w THEN Idle ELSE task[x]
    BY <1>1, EndTypes DEF IInv, TypeOK
  <1>4. \A x \in Workers : FreshRequest(task[x])'
    BY <1>1, <1>3, FreshIdle DEF FreshInv, FreshRequest, Calling
  <1>5. \A x : OpenPayments(x)' = OpenPayments(x) /\ (Settled(x)' <=> Settled(x))
    BY <1>1 DEF OpenPayments, Settled
  <1>6. \A x \in Orders : status'[x] = IF x = o THEN target ELSE status[x]
    BY <1>1 DEF IInv, TypeOK
  <1>7. /\ target # "CREATED"
        /\ target = "PAYMENT_PENDING" => status[o] \in {"CREATED", "PAYMENT_FAILED"}
    BY <1>1 DEF can_transition, ORDER_TRANSITIONS
  <1>8. \A x \in Orders : FreshOrder(x)'
    BY <1>1, <1>5, <1>6, <1>7 DEF FreshInv, FreshOrder
  <1>9. QED
    BY <1>2, <1>4, <1>8 DEF FreshInv

LEMMA StillFresh == ASSUME FreshInv, UNCHANGED vars PROVE FreshInv'
  BY DEF vars, FreshInv, OneCallback, FreshRequest, Calling, FreshOrder, OpenPayments, Settled

LEMMA FreshStep ==
    NoSurprises /\ IInv /\ AloneInv /\ FreshInv /\ OrdersApart /\ [Next]_vars => FreshInv'
  <1> SUFFICES ASSUME NoSurprises, IInv, AloneInv, FreshInv, OrdersApart, [Next]_vars
               PROVE  FreshInv'
    OBVIOUS
  <1>1. ASSUME NEW w \in Workers, Request(w) \/ CallbackError(w) \/ Crash(w)
        PROVE  FreshInv'
    BY <1>1, ReadsFresh, CrashFresh DEF Request
  <1>2. ASSUME NEW w \in Workers, Step(w) PROVE FreshInv'
    BY <1>2, ReadsFresh, PayEndsFresh, CallbackCommitFresh, AdminFresh DEF Step
  <1>3. ASSUME NEW w \in Workers, NEW p \in Pushes, Callback(w, p) PROVE FreshInv'
    BY <1>3, CallbackFresh DEF Callback
  <1>4. ASSUME NEW p \in Pushes,
               Resend(p) \/ Lose(p) \/ \E r \in Results : Handset(p, r)
        PROVE  FreshInv'
    BY <1>4, CallbackFresh DEF Resend, NoSurprises
  <1>5. ASSUME Quiet \/ UNCHANGED vars PROVE FreshInv'
    BY <1>5, StillFresh DEF Quiet
  <1>6. QED
    BY <1>1, <1>2, <1>3, <1>4, <1>5 DEF Next

\* A request that asks for money read a status that may be paid for.
AskingInv ==
    \A w \in Workers :
        task[w].pc = "paying" \/ Sending(task[w]) => Payable(task[w].seen)

LEMMA AskingInit == Init => AskingInv
  BY DEF Init, AskingInv, Sending, Idle

LEMMA AskingStep == TypeOK /\ AskingInv /\ [Next]_vars => AskingInv'
  <1> SUFFICES ASSUME TypeOK, AskingInv, [Next]_vars PROVE AskingInv'
    OBVIOUS
  <1> DEFINE Asks(t) == t.pc = "paying" \/ Sending(t)
             Keeps(w) == Asks(task'[w]) => Payable(task'[w].seen)
  <1>1. task \in [Workers -> Task]
    BY DEF TypeOK
  <1>2. ASSUME NEW w \in Workers, NEW t, task' = [task EXCEPT ![w] = t],
               Asks(t) => Payable(t.seen)
        PROVE  AskingInv'
    <2>1. \A x \in Workers : task'[x] = IF x = w THEN t ELSE task[x]
      BY <1>1, <1>2
    <2>2. \A x \in Workers : Keeps(x)
      BY <1>2, <2>1 DEF AskingInv
    <2>3. QED
      BY <2>2 DEF AskingInv, Sending
  <1>3. ASSUME NEW w \in Workers, EndTransaction(w) PROVE AskingInv'
    <2>1. task' = [task EXCEPT ![w] = Idle] /\ ~Asks(Idle)
      BY <1>3 DEF EndTransaction, Idle, Sending
    <2> HIDE DEF Asks
    <2>2. QED
      BY <1>2, <2>1
  <1>4. ASSUME UNCHANGED task PROVE AskingInv'
    BY <1>4 DEF AskingInv, Sending
  <1>5. ASSUME NEW w \in Workers, NEW o \in Orders, PayStart(w, o) PROVE AskingInv'
    <2> DEFINE t == [Idle EXCEPT !.pc = "paying", !.order = o, !.seen = status[o]]
    <2>1. task' = [task EXCEPT ![w] = t] /\ Payable(t.seen)
      BY <1>5 DEF PayStart, Idle
    <2> HIDE DEF t, Asks
    <2>2. QED
      BY <1>2, <2>1
  <1>6. ASSUME NEW w \in Workers, NEW o \in Orders, NEW target \in OrderStatus,
               AdminStart(w, o, target)
        PROVE  AskingInv'
    <2> DEFINE t == [Idle EXCEPT !.pc = "moving", !.order = o, !.seen = status[o],
                                 !.target = target]
    <2>1. task' = [task EXCEPT ![w] = t] /\ ~Asks(t)
      BY <1>6 DEF AdminStart, Idle, Sending
    <2> HIDE DEF t, Asks
    <2>2. QED
      BY <1>2, <2>1
  <1>7. ASSUME NEW w \in Workers, NEW p \in Pushes, PayInsert(w, p) PROVE AskingInv'
    <2> DEFINE t == [task[w] EXCEPT !.pc = "pushing", !.push = p]
    <2>1. t.seen = task[w].seen
      BY <1>1 DEF Task
    <2>2. task' = [task EXCEPT ![w] = t] /\ Payable(t.seen)
      BY <1>7, <2>1 DEF PayInsert, AskingInv
    <2> HIDE DEF t, Asks
    <2>3. QED
      BY <1>2, <2>2
  <1>8. ASSUME NEW w \in Workers, PushAccepted(w) \/ PushFailed(w) PROVE AskingInv'
    <2>1. PICK pc \in {"accepted", "failed"} : task' = [task EXCEPT ![w].pc = pc]
      BY <1>8 DEF PushAccepted, PushFailed
    <2> DEFINE t == [task[w] EXCEPT !.pc = pc]
    <2>2. t.seen = task[w].seen
      BY <1>1 DEF Task
    <2>3. task' = [task EXCEPT ![w] = t] /\ Payable(t.seen)
      BY <1>8, <2>1, <2>2 DEF PushAccepted, PushFailed, AskingInv, Sending
    <2> HIDE DEF t, Asks
    <2>4. QED
      BY <1>2, <2>3
  <1>9. ASSUME NEW w \in Workers, NEW p \in Pushes, CallbackMatch(w, p) PROVE AskingInv'
    <2> DEFINE t == [Idle EXCEPT !.pc = "matched", !.order = payment[p].order,
                                 !.push = p, !.found = payment[p].status]
    <2>1. task' = [task EXCEPT ![w] = t] /\ ~Asks(t)
      BY <1>9 DEF CallbackMatch, Idle, Sending
    <2> HIDE DEF t, Asks
    <2>2. QED
      BY <1>2, <2>1
  <1>10. ASSUME NEW w \in Workers, CallbackReadOrder(w) PROVE AskingInv'
    <2> DEFINE t == [task[w] EXCEPT !.pc = "applying", !.seen = status[task[w].order]]
    <2>1. t.pc = "applying"
      BY <1>1 DEF Task
    <2>2. task' = [task EXCEPT ![w] = t] /\ ~Asks(t)
      BY <1>10, <2>1 DEF CallbackReadOrder, Sending
    <2> HIDE DEF t, Asks
    <2>3. QED
      BY <1>2, <2>2
  <1>11. ASSUME NEW w \in Workers, Step(w) \/ CallbackError(w) \/ Crash(w)
         PROVE  AskingInv'
    <2>1. \/ EndTransaction(w) \/ PushAccepted(w) \/ PushFailed(w)
          \/ CallbackReadOrder(w) \/ \E p \in Pushes : PayInsert(w, p)
      BY <1>11 DEF Step, PayRefuse, PayCommit, PayFail, PaySimulated, CallbackCommit,
         AdminCommit, CallbackError, Crash
    <2>2. QED
      BY <1>3, <1>7, <1>8, <1>10, <2>1
  <1>12. ASSUME NEW w \in Workers, NEW p \in Pushes, Callback(w, p) PROVE AskingInv'
    BY <1>12, <1>4, <1>9 DEF Callback, CallbackIgnored
  <1>13. ASSUME NEW p \in Pushes, Resend(p) \/ Lose(p) \/ \E r \in Results : Handset(p, r)
         PROVE  AskingInv'
    BY <1>13, <1>4 DEF Resend, Lose, Handset
  <1>14. ASSUME Quiet \/ UNCHANGED vars PROVE AskingInv'
    BY <1>14, <1>4 DEF Quiet, vars
  <1>15. QED
    BY <1>5, <1>6, <1>11, <1>12, <1>13, <1>14 DEF Next, Request

\* A payment the server knows of and the customer has made is either still open or
\* recorded, and then the order is past being asked for money.
LEMMA KnownPayersAreSpared ==
    ASSUME IInv, AloneInv, FreshInv, AskingInv, NEW w \in Workers,
           task[w].pc = "pushing", PaidByKnownPush(task[w].order)
    PROVE  FALSE
  <1> DEFINE o == task[w].order
  <1>1. /\ o \in Orders /\ OpenPayments(o) = {} /\ task[w].seen = status[o]
        /\ Payable(status[o])
    BY DEF IInv, RequestInv, RequestOK, AloneInv, AloneRequest, AskingInv, Sending
  <1>2. PICK p \in Pushes : /\ payment[p] # None /\ payment[p].order = o
                            /\ payment[p].known /\ push[p] = "paid"
    BY DEF PaidByKnownPush
  <1>3. payment[p].status # "PENDING"
    BY <1>1, <1>2 DEF OpenPayments, OPEN_STATUSES
  <1>4. payment[p].status = "SUCCESSFUL"
    BY <1>2, <1>3 DEF IInv, RecordInv, Outcome
  <1>5. Settled(o)
    BY <1>2, <1>4 DEF Settled
  <1>6. status[o] \notin {"CREATED", "PAYMENT_PENDING", "PAYMENT_FAILED"}
    BY <1>1, <1>5 DEF FreshInv, FreshOrder
  <1>7. QED
    BY <1>1, <1>6 DEF Payable, can_transition, ORDER_TRANSITIONS

\* Whoever has paid an order, by a push the server has the CheckoutRequestID of, is
\* not prompted for it again, wherever the callback is, as long as requests about one
\* order do not overlap, no callback comes twice and no admin sets PAYMENT_FAILED:
\* without the first or the second he can be (PayTwice.cfg, PayRepeat.cfg).
THEOREM KnownPayersNotPrompted ==
    ASSUME NoSurprises
    PROVE  Spec /\ []OrdersApart => KnownPayerNotPrompted
  <1>1. IInv /\ AloneInv /\ FreshInv /\ AskingInv =>
          \A w \in Workers : task[w].pc = "pushing" => ~PaidByKnownPush(task[w].order)
    BY KnownPayersAreSpared
  <1>2. IInv /\ AloneInv /\ FreshInv /\ AskingInv /\ [Next]_vars =>
          [\A w \in Workers :
             task[w].pc = "pushing" /\ push'[task[w].push] # push[task[w].push]
             => ~PaidByKnownPush(task[w].order)]_vars
    BY <1>1
  <1>3. IInv /\ AloneInv /\ FreshInv /\ OrdersApart /\ [Next]_vars => FreshInv'
    BY NoSurprises, FreshStep
  <1>4. IInv /\ AskingInv /\ [Next]_vars => AskingInv'
    BY AskingStep DEF IInv
  <1>5. QED
    BY <1>2, <1>3, <1>4, FreshInit, AskingInit, Invariance, AloneInvariance, PTL
       DEF Spec, KnownPayerNotPrompted

\* A server with one worker, as run PaySerial has it, is such a shop.
LEMMA OneWorkerApart ==
    ASSUME \A x, y \in Workers : x = y
    PROVE  Spec => []OrdersApart
  <1>1. OrdersApart
    BY DEF OrdersApart
  <1>2. QED
    BY <1>1, PTL

\* So with one worker everything above holds of every behaviour: one known
\* prompt at a time, units given back once, and the lifecycle followed.
THEOREM OneWorkerSuffices ==
    ASSUME \A x, y \in Workers : x = y
    PROVE  Spec => []OneKnownPrompt /\ []ReleasedOnce /\ FollowsLifecycle
  <1>1. Spec => []OrdersApart
    BY OneWorkerApart
  <1>2. QED
    BY <1>1, OnePromptAtATime, ReleasesOnce, OrdersFollowLifecycle, PTL
=============================================================================
