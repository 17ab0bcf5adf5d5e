---------------------------- MODULE ShelfProofs ----------------------------
(***************************************************************************)
(* Theorems about Inventory in a shop that cancels orders and corrects     *)
(* stock only while it serves nothing else: checkouts, price and status    *)
(* edits may still interleave in any number.  Then the ledger explains the *)
(* stock, units come back once, and every request is a step of Shelf.      *)
(***************************************************************************)
EXTENDS InventoryProofs

\* Nothing else is served while an order is moved or a stock is set: the
\* assumption every theorem of this module makes.
RestockingAlone == Traffic \cap {"status", "stock"} \subseteq Alone

Moving(w) == task[w].pc \in {"status", "releasing"}

Correcting(w) ==
    /\ task[w].pc = "editing"
    /\ \E v \in task[w].todo : task[w].edit.stock # task[w].seen[v].stock

Restocking(w) == Moving(w) \/ Correcting(w)

Buying(w) == task[w].pc \in {"locking", "checking"}

(***************************************************************************)
(* The inductive invariant, on top of IInv.                                *)
(***************************************************************************)

\* A request that restocks is the only one served.
AloneInv ==
    \A w \in Workers :
        /\ Moving(w) => "status" \in Alone
        /\ Correcting(w) => "stock" \in Alone
        /\ Restocking(w) => \A x \in Workers \ {w} : task[x].pc = "idle"

\* So what it read is still so when it commits.
FreshInv ==
    \A w \in Workers :
        /\ Moving(w) =>
              /\ can_transition(order[task[w].order].status, task[w].target)
              /\ task[w].items = order[task[w].order].items
        /\ task[w].pc = "releasing" =>
              /\ task[w].target = "CANCELLED"
              /\ \A v \in Lines(task[w].items) \ task[w].todo :
                    task[w].seen[v].stock = variant[v].stock
        /\ Correcting(w) =>
              \A v \in task[w].todo : task[w].seen[v].stock = variant[v].stock

\* The order a checkout will insert is not there yet, and is its own.
ReservedInv ==
    \A w \in Workers : Buying(w) =>
        /\ order[task[w].order] = None
        /\ \A x \in Workers \ {w} : Buying(x) => task[x].order # task[w].order

SerialInv == /\ AloneInv /\ FreshInv /\ ReservedInv
             /\ LedgerMatchesStock /\ ReleasedOnce

LEMMA InitSerial == Init => SerialInv
  <1> SUFFICES ASSUME Init PROVE SerialInv
    OBVIOUS
  <1> USE DEF Init, Idle
  <1>1. \A w \in Workers : task[w].pc = "idle"
    OBVIOUS
  <1>2. AloneInv /\ FreshInv /\ ReservedInv
    BY <1>1 DEF AloneInv, FreshInv, ReservedInv, Restocking, Moving, Correcting, Buying
  <1>3. LedgerMatchesStock /\ ReleasedOnce
    BY InventoryAssumption DEF LedgerMatchesStock, ReleasedOnce
  <1>4. QED
    BY <1>2, <1>3 DEF SerialInv

(***************************************************************************)
(* Who is being served.                                                    *)
(***************************************************************************)

LEMMA NobodyRestocks ==
    ASSUME AloneInv, NEW w \in Workers, NEW kind, Arrives(w, kind)
    PROVE  \A x \in Workers : ~Restocking(x)
  <1>1. \A x \in Workers, other \in Alone : ~Serving(x, other)
    BY DEF Arrives
  <1>2. ASSUME NEW x \in Workers, Moving(x) PROVE FALSE
    BY <1>1, <1>2 DEF AloneInv, Serving, Moving
  <1>3. ASSUME NEW x \in Workers, Correcting(x) PROVE FALSE
    BY <1>1, <1>3 DEF AloneInv, Serving, Correcting
  <1>4. QED
    BY <1>2, <1>3 DEF Restocking

\* A request of a kind that is served alone finds everybody idle.
LEMMA ArrivesAlone ==
    ASSUME RestockingAlone, NEW w \in Workers, NEW kind \in {"status", "stock"},
           Arrives(w, kind)
    PROVE  kind \in Alone /\ \A x \in Workers : task[x].pc = "idle"
  BY DEF Arrives, RestockingAlone

LEMMA OnlyRestocker ==
    ASSUME AloneInv, NEW w \in Workers, task[w].pc # "idle",
           NEW x \in Workers, Restocking(x)
    PROVE  x = w
  BY DEF AloneInv

\* A step after which nobody restocks has nothing to show of those who do.
LEMMA NoRestocker ==
    ASSUME \A x \in Workers : ~(Restocking(x)')
    PROVE  AloneInv' /\ FreshInv'
  BY DEF AloneInv, FreshInv, Restocking, Moving, Correcting

\* The end of a request: nobody else was restocking.
LEMMA EndSerial ==
    ASSUME IInv, AloneInv, ReservedInv, NEW w \in Workers, task[w].pc # "idle",
           EndTransaction(w),
           \A x \in Workers \ {w} : Buying(x) =>
               order'[task[x].order] = order[task[x].order]
    PROVE  AloneInv' /\ FreshInv' /\ ReservedInv'
  <1>1. /\ task'[w].pc = "idle"
        /\ \A x \in Workers \ {w} : task'[x] = task[x]
    BY EndTypes DEF Idle, IInv
  <1>2. \A x \in Workers : ~(Restocking(x)')
    BY <1>1, OnlyRestocker DEF Restocking, Moving, Correcting
  <1>3. ReservedInv'
    BY <1>1 DEF ReservedInv, Buying
  <1>4. QED
    BY <1>2, <1>3, NoRestocker

LEMMA RollbackSerial ==
    ASSUME IInv, SerialInv, NEW w \in Workers, task[w].pc # "idle", EndTransaction(w),
           UNCHANGED <<variant, ledger, order, released>>
    PROVE  SerialInv'
  <1>1. AloneInv' /\ FreshInv' /\ ReservedInv'
    BY EndSerial DEF SerialInv
  <1>2. QED
    BY <1>1 DEF SerialInv, LedgerMatchesStock, ReleasedOnce

(***************************************************************************)
(* The steps of a checkout.                                                *)
(***************************************************************************)

LEMMA CheckoutStartSerial ==
    ASSUME IInv, SerialInv, NEW w \in Workers, NEW o \in Orders, NEW cart \in ValidCarts,
           CheckoutStart(w, o, cart)
    PROVE  SerialInv'
  <1>1. /\ Arrives(w, "checkout") /\ Unused(o)
        /\ task'[w].pc = "locking" /\ task'[w].order = o
        /\ \A x \in Workers \ {w} : task'[x] = task[x]
        /\ UNCHANGED <<variant, ledger, order, released>>
    BY DEF CheckoutStart, Idle, IInv, TypeOK
  <1>2. \A x \in Workers : ~(Restocking(x)')
    BY <1>1, NobodyRestocks DEF SerialInv, Restocking, Moving, Correcting
  <1>3. ReservedInv'
    BY <1>1 DEF SerialInv, ReservedInv, Buying, Unused
  <1>4. QED
    BY <1>1, <1>2, <1>3, NoRestocker DEF SerialInv, LedgerMatchesStock, ReleasedOnce

\* A checkout under way: its reads and locks disturb nothing.
LEMMA BuyingSerial ==
    ASSUME IInv, SerialInv, NEW w \in Workers,
           Buying(w), Buying(w)', task'[w].order = task[w].order,
           \A x \in Workers \ {w} : task'[x] = task[x],
           UNCHANGED <<variant, ledger, order, released>>
    PROVE  SerialInv'
  <1>1. \A x \in Workers : ~(Restocking(x)')
    BY OnlyRestocker DEF SerialInv, Restocking, Moving, Correcting, Buying
  <1>2. ReservedInv'
    BY DEF SerialInv, ReservedInv, Buying
  <1>3. QED
    BY <1>1, <1>2, NoRestocker DEF SerialInv, LedgerMatchesStock, ReleasedOnce

LEMMA CheckoutReadsSerial ==
    ASSUME IInv, SerialInv, NEW w \in Workers,
           (\E v \in Variants : LockVariant(w, v)) \/ LoadProducts(w)
    PROVE  SerialInv'
  <1>1. task \in [Workers -> Task] /\ task[w] \in Task
    BY DEF IInv, TypeOK
  <1>2. CASE \E v \in Variants : LockVariant(w, v)
    <2>1. PICK v \in Variants : LockVariant(w, v)
      BY <1>2
    <2> DEFINE t == [task[w] EXCEPT !.todo = @ \ {v}, !.seen[v] = variant[v]]
    <2>2. task' = [task EXCEPT ![w] = t] /\ Buying(w)
      BY <1>1, <2>1 DEF LockVariant, Buying
    <2>3. t.pc = task[w].pc /\ t.order = task[w].order
      BY <1>1 DEF Task
    <2>4. QED
      BY <1>1, <2>1, <2>2, <2>3, BuyingSerial DEF LockVariant, Buying
  <1>3. CASE LoadProducts(w)
    BY <1>1, <1>3, BuyingSerial DEF LoadProducts, Buying, Task
  <1>4. QED
    BY <1>2, <1>3

\* A checkout's commit takes the same units from the stock and from the ledger.
LEMMA PlaceKeepsLedger ==
    ASSUME IInv, LedgerMatchesStock, NEW w \in Workers, CheckoutPlace(w)
    PROVE  LedgerMatchesStock'
  <1> DEFINE items == task[w].items
  <1>1. /\ task[w].pc = "checking"
        /\ \A v \in Lines(items) : Sellable(w, v)
        /\ variant' = [v \in Variants |->
               IF items[v] > 0
               THEN [variant[v] EXCEPT !.stock = task[w].seen[v].stock - items[v]]
               ELSE variant[v]]
        /\ ledger' = [v \in Variants |-> ledger[v] - items[v]]
    BY DEF CheckoutPlace
  <1>2. ASSUME NEW v \in Variants PROVE variant'[v].stock = ledger'[v]
    <2>1. /\ variant[v] \in VariantRow /\ items[v] \in Nat
          /\ variant[v].stock = ledger[v] /\ ledger[v] \in Int
          /\ items[v] > 0 => task[w].seen[v] = variant[v]
      BY <1>1, CheckedLines DEF IInv, TypeOK, LedgerMatchesStock
    <2>2. QED
      BY <1>1, <2>1 DEF VariantRow
  <1>3. QED
    BY <1>2 DEF LedgerMatchesStock

LEMMA CheckoutPlaceSerial ==
    ASSUME IInv, SerialInv, NEW w \in Workers, CheckoutPlace(w)
    PROVE  SerialInv'
  <1>1. /\ task[w].pc = "checking" /\ task[w].order \in Orders
        /\ order[task[w].order] = None
    BY DEF CheckoutPlace, IInv, TaskInv, SerialInv, ReservedInv, Buying
  <1>2. /\ EndTransaction(w) /\ UNCHANGED released
        /\ order'[task[w].order].status = "PAYMENT_PENDING"
        /\ \A o \in Orders \ {task[w].order} : order'[o] = order[o]
    BY <1>1 DEF CheckoutPlace, IInv, TypeOK
  <1>3. \A x \in Workers \ {w} : Buying(x) => order'[task[x].order] = order[task[x].order]
    <2>1. \A x \in Workers \ {w} : Buying(x) =>
             task[x].order # task[w].order /\ task[x].order \in Orders
      BY <1>1 DEF SerialInv, ReservedInv, Buying, IInv, TaskInv
    <2>2. QED
      BY <1>2, <2>1
  <1>4. AloneInv' /\ FreshInv' /\ ReservedInv'
    BY <1>1, <1>2, <1>3, EndSerial DEF SerialInv
  <1>5. LedgerMatchesStock'
    BY PlaceKeepsLedger DEF SerialInv
  <1>6. ReleasedOnce'
    <2>1. released[task[w].order] = 0
      BY <1>1 DEF SerialInv, ReleasedOnce
    <2>2. QED
      BY <1>1, <1>2, <2>1 DEF SerialInv, ReleasedOnce
  <1>7. QED
    BY <1>4, <1>5, <1>6 DEF SerialInv

(***************************************************************************)
(* The steps of a status change.                                           *)
(***************************************************************************)

LEMMA StatusStartSerial ==
    ASSUME RestockingAlone, IInv, SerialInv, NEW w \in Workers, NEW o \in Orders,
           NEW target \in OrderStatus, StatusStart(w, o, target)
    PROVE  SerialInv'
  <1> DEFINE t == [Idle EXCEPT !.pc = "status", !.order = o, !.target = target,
                               !.items = order[o].items]
  <1>1. /\ Arrives(w, "status")
        /\ can_transition(order[o].status, target)
        /\ task' = [task EXCEPT ![w] = t]
        /\ UNCHANGED <<variant, ledger, order, released>>
    BY DEF StatusStart
  <1>2. "status" \in Alone /\ \A x \in Workers : task[x].pc = "idle"
    BY <1>1, ArrivesAlone
  <1>3. t.pc = "status" /\ t.order = o /\ t.target = target /\ t.items = order[o].items
    BY DEF Idle
  <1>4. task'[w] = t /\ \A x \in Workers \ {w} : task'[x].pc = "idle"
    BY <1>1, <1>2 DEF IInv, TypeOK
  <1>5. AloneInv'
    BY <1>2, <1>3, <1>4 DEF AloneInv, Restocking, Moving, Correcting
  <1>6. FreshInv'
    BY ZenonT(40), <1>1, <1>3, <1>4 DEF FreshInv, Moving, Correcting
  <1>7. ReservedInv'
    BY <1>3, <1>4 DEF ReservedInv, Buying
  <1>8. QED
    BY <1>1, <1>5, <1>6, <1>7 DEF SerialInv, LedgerMatchesStock, ReleasedOnce

\* A status change under way writes no table.
LEMMA MovingSerial ==
    ASSUME IInv, SerialInv, NEW w \in Workers, NEW t,
           Moving(w), t.pc = "releasing", t.target = "CANCELLED",
           task[w].target = "CANCELLED",
           t.order = task[w].order, t.items = task[w].items,
           task' = [task EXCEPT ![w] = t],
           \A v \in Lines(t.items) \ t.todo : t.seen[v].stock = variant[v].stock,
           UNCHANGED <<variant, ledger, order, released>>
    PROVE  SerialInv'
  <1>1. task'[w] = t /\ \A x \in Workers \ {w} : task'[x] = task[x] /\ task[x].pc = "idle"
    BY DEF IInv, TypeOK, SerialInv, AloneInv, Restocking
  <1>2. AloneInv'
    BY <1>1 DEF SerialInv, AloneInv, Restocking, Moving, Correcting
  <1>3. FreshInv'
    BY <1>1 DEF SerialInv, FreshInv, Moving, Correcting
  <1>4. ReservedInv'
    BY <1>1 DEF ReservedInv, Buying
  <1>5. QED
    BY <1>2, <1>3, <1>4 DEF SerialInv, LedgerMatchesStock, ReleasedOnce

LEMMA CancelFlushSerial ==
    ASSUME IInv, SerialInv, NEW w \in Workers, CancelFlush(w)
    PROVE  SerialInv'
  <1> DEFINE t == [task[w] EXCEPT !.pc = "releasing", !.todo = Lines(task[w].items)]
  <1>1. /\ task[w] \in Task /\ Moving(w) /\ task[w].target = "CANCELLED"
        /\ task' = [task EXCEPT ![w] = t]
        /\ UNCHANGED <<variant, ledger, order, released>>
    BY DEF CancelFlush, Moving, IInv, TypeOK
  <1>2. /\ t.pc = "releasing" /\ t.target = "CANCELLED" /\ t.order = task[w].order
        /\ t.items = task[w].items /\ t.todo = Lines(t.items)
    BY <1>1 DEF Task
  <1>3. QED
    BY <1>1, <1>2, MovingSerial

LEMMA ReleaseReadSerial ==
    ASSUME IInv, SerialInv, NEW w \in Workers, NEW v \in Variants, ReleaseRead(w, v)
    PROVE  SerialInv'
  <1> DEFINE t == [task[w] EXCEPT !.todo = @ \ {v}, !.dirty = v, !.seen[v] = variant[v]]
  <1>1. /\ task[w] \in Task /\ task[w].pc = "releasing" /\ Moving(w)
        /\ task' = [task EXCEPT ![w] = t]
        /\ UNCHANGED <<variant, ledger, order, released>>
    BY DEF ReleaseRead, Moving, IInv, TypeOK
  <1>2. /\ task[w].target = "CANCELLED"
        /\ \A u \in Lines(task[w].items) \ task[w].todo :
              task[w].seen[u].stock = variant[u].stock
    BY <1>1 DEF SerialInv, FreshInv
  <1>3. /\ t.pc = "releasing" /\ t.target = "CANCELLED" /\ t.order = task[w].order
        /\ t.items = task[w].items /\ t.todo = task[w].todo \ {v}
        /\ t.seen = [task[w].seen EXCEPT ![v] = variant[v]]
    BY <1>1, <1>2 DEF Task
  <1>4. \A u \in Lines(t.items) \ t.todo : t.seen[u].stock = variant[u].stock
    <2>1. task[w].seen \in [Variants -> VariantRow \cup {None}]
      BY <1>1 DEF Task
    <2>2. QED
      BY <1>2, <1>3, <2>1, LinesType
  <1>5. QED
    BY <1>1, <1>2, <1>3, <1>4, MovingSerial

LEMMA ReleaseFlushSerial ==
    ASSUME IInv, SerialInv, NEW w \in Workers, ReleaseFlush(w)
    PROVE  SerialInv'
  <1> DEFINE t == [task[w] EXCEPT !.dirty = None]
  <1>1. /\ task[w] \in Task /\ task[w].pc = "releasing" /\ Moving(w)
        /\ task' = [task EXCEPT ![w] = t]
        /\ UNCHANGED <<variant, ledger, order, released>>
    BY DEF ReleaseFlush, Moving, IInv, TypeOK
  <1>2. /\ t.pc = "releasing" /\ t.target = task[w].target /\ t.order = task[w].order
        /\ t.items = task[w].items /\ t.todo = task[w].todo /\ t.seen = task[w].seen
    BY <1>1 DEF Task
  <1>3. /\ task[w].target = "CANCELLED"
        /\ \A v \in Lines(t.items) \ t.todo : t.seen[v].stock = variant[v].stock
    BY <1>1, <1>2 DEF SerialInv, FreshInv
  <1>4. QED
    BY <1>1, <1>2, <1>3, MovingSerial

\* Nothing leaves CANCELLED.
LEMMA CancelledIsTerminal == \A target : ~can_transition("CANCELLED", target)
  BY DEF can_transition, ORDER_TRANSITIONS

\* A commit that moves an order: nobody else is served.
LEMMA MoveEnds ==
    ASSUME IInv, SerialInv, NEW w \in Workers, Moving(w), EndTransaction(w)
    PROVE  AloneInv' /\ FreshInv' /\ ReservedInv'
  <1>1. \A x \in Workers \ {w} : ~Buying(x)
    BY DEF SerialInv, AloneInv, Restocking, Buying
  <1>2. task[w].pc # "idle"
    BY DEF Moving
  <1>3. QED
    BY <1>1, <1>2, EndSerial DEF SerialInv

LEMMA StatusCommitSerial ==
    ASSUME IInv, SerialInv, NEW w \in Workers, StatusCommit(w)
    PROVE  SerialInv'
  <1>1. /\ Moving(w) /\ task[w].order \in Orders /\ order[task[w].order] # None
        /\ task[w].target # "CANCELLED"
        /\ EndTransaction(w) /\ UNCHANGED <<variant, ledger, released>>
        /\ order' = [order EXCEPT ![task[w].order].status = task[w].target]
    BY DEF StatusCommit, Moving, IInv, TaskInv
  <1>2. AloneInv' /\ FreshInv' /\ ReservedInv'
    BY <1>1, MoveEnds
  <1>3. ReleasedOnce'
    <2>1. order[task[w].order].status # "CANCELLED"
      BY <1>1, CancelledIsTerminal DEF SerialInv, FreshInv
    <2>2. released[task[w].order] = 0
      BY <1>1, <2>1 DEF SerialInv, ReleasedOnce
    <2>3. order'[task[w].order].status = task[w].target
          /\ \A o \in Orders \ {task[w].order} : order'[o] = order[o]
      BY <1>1 DEF IInv, TypeOK, OrderRow
    <2>4. QED
      BY <1>1, <2>2, <2>3 DEF SerialInv, ReleasedOnce
  <1>4. QED
    BY <1>1, <1>2, <1>3 DEF SerialInv, LedgerMatchesStock

\* What a cancellation adds is what is on the shelf at its commit, plus its units.
LEMMA CancelRestocks ==
    ASSUME IInv, SerialInv, NEW w \in Workers, CancelCommit(w)
    PROVE  /\ task[w].items \in [Variants -> Nat]
           /\ variant' = [v \in Variants |->
                  [variant[v] EXCEPT !.stock = @ + task[w].items[v]]]
  <1> DEFINE items == task[w].items
  <1>1. /\ task[w].pc = "releasing" /\ task[w].todo = {}
        /\ variant' = [v \in Variants |->
               IF items[v] > 0
               THEN [variant[v] EXCEPT !.stock = task[w].seen[v].stock + items[v]]
               ELSE variant[v]]
    BY DEF CancelCommit
  <1>2. items \in [Variants -> Nat]
    BY CartType DEF IInv, TypeOK, Task
  <1>3. \A v \in Lines(items) : task[w].seen[v].stock = variant[v].stock
    BY <1>1 DEF SerialInv, FreshInv
  <1>4. ASSUME NEW v \in Variants
        PROVE  variant'[v] = [variant[v] EXCEPT !.stock = @ + items[v]]
    <2>1. variant[v] \in VariantRow /\ items[v] \in Nat
      BY <1>2 DEF IInv, TypeOK
    <2>2. CASE items[v] > 0
      BY <1>1, <1>3, <2>2 DEF Lines
    <2>3. CASE items[v] = 0
      BY <1>1, <2>1, <2>3 DEF VariantRow
    <2>4. QED
      BY <2>1, <2>2, <2>3
  <1>5. QED
    BY <1>1, <1>2, <1>4

LEMMA CancelCommitSerial ==
    ASSUME IInv, SerialInv, NEW w \in Workers, CancelCommit(w)
    PROVE  SerialInv'
  <1> DEFINE items == task[w].items
  <1>1. /\ Moving(w) /\ task[w].order \in Orders /\ order[task[w].order] # None
        /\ EndTransaction(w)
        /\ order' = [order EXCEPT ![task[w].order].status = "CANCELLED"]
        /\ released' = [released EXCEPT ![task[w].order] = @ + 1]
        /\ ledger' = [v \in Variants |-> ledger[v] + items[v]]
    BY DEF CancelCommit, Moving, IInv, TaskInv
  <1>2. AloneInv' /\ FreshInv' /\ ReservedInv'
    BY <1>1, MoveEnds
  <1>3. LedgerMatchesStock'
    <2>1. ASSUME NEW v \in Variants PROVE variant'[v].stock = ledger'[v]
      BY <1>1, CancelRestocks DEF IInv, TypeOK, VariantRow, SerialInv, LedgerMatchesStock
    <2>2. QED
      BY <2>1 DEF LedgerMatchesStock
  <1>4. ReleasedOnce'
    <2>1. order[task[w].order].status # "CANCELLED"
      BY <1>1, CancelledIsTerminal DEF SerialInv, FreshInv
    <2>2. released[task[w].order] = 0
      BY <1>1, <2>1 DEF SerialInv, ReleasedOnce
    <2>3. /\ order[task[w].order] \in OrderRow
          /\ order'[task[w].order] = [order[task[w].order] EXCEPT !.status = "CANCELLED"]
          /\ \A o \in Orders \ {task[w].order} : order'[o] = order[o]
          /\ released'[task[w].order] = 1
          /\ \A o \in Orders \ {task[w].order} : released'[o] = released[o]
      BY <1>1, <2>2 DEF IInv, TypeOK
    <2>4. order'[task[w].order] # None /\ order'[task[w].order].status = "CANCELLED"
      <3>1. order'[task[w].order] \in OrderRow
        BY <2>3 DEF OrderRow, OrderStatus
      <3>2. QED
        BY <2>3, <3>1, NoneAssumption DEF OrderRow
    <2>5. QED
      BY <2>3, <2>4 DEF SerialInv, ReleasedOnce
  <1>5. QED
    BY <1>2, <1>3, <1>4 DEF SerialInv

(***************************************************************************)
(* The catalog's requests.                                                 *)
(***************************************************************************)

LEMMA EditStartSerial ==
    ASSUME RestockingAlone, IInv, SerialInv, NEW w \in Workers, NEW v \in Variants,
           NEW edit \in Edits, EditStart(w, v, edit)
    PROVE  SerialInv'
  <1> DEFINE t == [Idle EXCEPT !.pc = "editing", !.todo = {v}, !.edit = edit,
                               !.seen = [Idle.seen EXCEPT ![v] = variant[v]]]
  <1>1. /\ edit \in VariantRow /\ variant[v] \in VariantRow
        /\ task' = [task EXCEPT ![w] = t]
        /\ UNCHANGED <<variant, ledger, order, released>>
        /\ task[w].pc = "idle" /\ \A x \in Workers : ~Restocking(x)
    <2>1. edit \in VariantRow /\ variant[v] \in VariantRow
      BY EditsType DEF IInv, TypeOK
    <2>2. \E kind : Arrives(w, kind)
      <3>1. CASE edit.stock # variant[v].stock
        BY <3>1 DEF EditStart
      <3>2. CASE edit.stock = variant[v].stock
        <4>1. [edit EXCEPT !.stock = variant[v].stock] = edit
          BY <2>1, <3>2 DEF VariantRow
        <4>2. QED
          BY <4>1 DEF EditStart
      <3>3. QED
        BY <3>1, <3>2
    <2>3. task[w].pc = "idle" /\ \A x \in Workers : ~Restocking(x)
      BY <2>2, NobodyRestocks DEF SerialInv, Arrives
    <2>4. QED
      BY <2>1, <2>3 DEF EditStart
  <1>2. /\ t.pc = "editing" /\ t.todo = {v} /\ t.edit = edit
        /\ t.seen[v] = variant[v]
    BY DEF Idle
  <1>3. task'[w] = t /\ \A x \in Workers \ {w} : task'[x] = task[x]
    BY <1>1 DEF IInv, TypeOK
  <1>4. \A x \in Workers \ {w} : ~(Restocking(x)')
    BY <1>1, <1>3 DEF Restocking, Moving, Correcting
  <1>5. Correcting(w)' => /\ "stock" \in Alone
                          /\ \A x \in Workers : task[x].pc = "idle"
    <2>1. Correcting(w)' => edit.stock # variant[v].stock
      BY <1>2, <1>3 DEF Correcting
    <2>2. QED
      BY <2>1, ArrivesAlone DEF EditStart
  <1>6. AloneInv'
    BY <1>2, <1>3, <1>4, <1>5 DEF AloneInv, Restocking, Moving, Correcting
  <1>7. FreshInv'
    BY <1>1, <1>2, <1>3, <1>4 DEF FreshInv, Restocking, Moving, Correcting
  <1>8. ReservedInv'
    BY <1>1, <1>2, <1>3 DEF SerialInv, ReservedInv, Buying
  <1>9. QED
    BY <1>1, <1>6, <1>7, <1>8 DEF SerialInv, LedgerMatchesStock, ReleasedOnce

LEMMA EditCommitSerial ==
    ASSUME IInv, SerialInv, NEW w \in Workers, NEW v \in Variants, EditCommit(w, v)
    PROVE  SerialInv'
  <1> DEFINE seen == task[w].seen[v]
             edit == task[w].edit
  <1>1. /\ task[w].pc = "editing" /\ v \in task[w].todo
        /\ EndTransaction(w) /\ UNCHANGED <<order, released>>
        /\ seen \in VariantRow /\ edit \in VariantRow
    BY DEF EditCommit, IInv, TaskInv, TypeOK, Task
  <1>2. AloneInv' /\ FreshInv' /\ ReservedInv'
    BY <1>1, EndSerial DEF SerialInv
  <1>3. /\ variant'[v].stock = IF edit.stock # seen.stock THEN edit.stock
                               ELSE variant[v].stock
        /\ ledger'[v] = ledger[v] + (edit.stock - seen.stock)
        /\ \A u \in Variants \ {v} : variant'[u] = variant[u] /\ ledger'[u] = ledger[u]
    BY DEF EditCommit, Delta, IInv, TypeOK, VariantRow
  <1>4. edit.stock # seen.stock => seen.stock = variant[v].stock
    BY <1>1 DEF SerialInv, FreshInv, Correcting
  <1>5. variant'[v].stock = ledger'[v]
    BY <1>1, <1>3, <1>4 DEF SerialInv, LedgerMatchesStock, IInv, TypeOK, VariantRow
  <1>6. QED
    BY <1>1, <1>2, <1>3, <1>5 DEF SerialInv, LedgerMatchesStock, ReleasedOnce

LEMMA ProductStatusSerial ==
    ASSUME SerialInv, NEW w \in Workers, NEW p \in Products,
           NEW status \in {"active", "archived"}, ProductStatus(w, p, status)
    PROVE  SerialInv'
  BY DEF ProductStatus, SerialInv, AloneInv, FreshInv, ReservedInv, LedgerMatchesStock,
         ReleasedOnce, Restocking, Moving, Correcting, Buying

(***************************************************************************)
(* The invariant holds in every reachable state.                           *)
(***************************************************************************)

LEMMA RollbackStep ==
    ASSUME IInv, SerialInv, NEW w \in Workers,
           CheckoutRefuse(w) \/ DeadlockVictim(w) \/ Crash(w)
    PROVE  SerialInv'
  <1>1. DeadlockVictim(w) => task[w].pc # "idle"
    BY DEF DeadlockVictim, Knot, Blocked, Wanted
  <1>2. QED
    BY <1>1, RollbackSerial DEF CheckoutRefuse, DeadlockVictim, Crash

LEMMA SerialStep ==
    ASSUME RestockingAlone, IInv, SerialInv, [Next]_vars
    PROVE  SerialInv'
  <1>1. CASE UNCHANGED vars
    BY <1>1 DEF vars, SerialInv, AloneInv, FreshInv, ReservedInv, LedgerMatchesStock,
                ReleasedOnce, Restocking, Moving, Correcting, Buying
  <1>2. ASSUME NEW w \in Workers, Arrival(w) PROVE SerialInv'
    BY <1>2, CheckoutStartSerial, StatusStartSerial, EditStartSerial, ProductStatusSerial
       DEF Arrival
  <1>3. ASSUME NEW w \in Workers, Step(w) PROVE SerialInv'
    BY <1>3, CheckoutReadsSerial, RollbackStep, CheckoutPlaceSerial, StatusCommitSerial,
       CancelFlushSerial, ReleaseReadSerial, ReleaseFlushSerial, CancelCommitSerial,
       EditCommitSerial
       DEF Step
  <1>4. QED
    BY <1>1, <1>2, <1>3, RollbackStep DEF Next, Quiet

THEOREM SerialInvariance ==
    ASSUME RestockingAlone
    PROVE  Spec => [](IInv /\ SerialInv)
  <1>1. Init => SerialInv
    BY InitSerial
  <1>2. IInv /\ SerialInv /\ [Next]_vars => SerialInv'
    BY SerialStep
  <1>3. QED
    BY <1>1, <1>2, Invariance, PTL DEF Spec

\* With orders cancelled and stock corrected only in quiet hours, the movements
\* of every variant sum to its stock, however many checkouts and other edits
\* interleave (_release_inventory, _adjust_stock, create_order).
THEOREM LedgerKept ==
    ASSUME RestockingAlone
    PROVE  Spec => []LedgerMatchesStock
  <1>1. SerialInv => LedgerMatchesStock
    BY DEF SerialInv
  <1>2. QED
    BY <1>1, SerialInvariance, PTL

\* Business rule 1, under the same assumption: no variant sells more units than
\* its movements put into it.
THEOREM NothingOversold ==
    ASSUME RestockingAlone
    PROVE  Spec => []NeverOversold
  <1>1. IInv /\ SerialInv => NeverOversold
    BY DEF IInv, TypeOK, VariantRow, SerialInv, LedgerMatchesStock, NeverOversold
  <1>2. QED
    BY <1>1, SerialInvariance, PTL

\* Business rule 6, under the same assumption: the units of an order come back
\* when it is cancelled, and once (_release_inventory).
THEOREM GivenBackOnce ==
    ASSUME RestockingAlone
    PROVE  Spec => []ReleasedOnce
  <1>1. SerialInv => ReleasedOnce
    BY DEF SerialInv
  <1>2. QED
    BY <1>1, SerialInvariance, PTL

(***************************************************************************)
(* Inventory implements Shelf: commits are its steps, the rest stutters.   *)
(***************************************************************************)

LEMMA PlaceSells ==
    ASSUME IInv, SerialInv, NEW w \in Workers, CheckoutPlace(w)
    PROVE  Shelf!Sell(task[w].order, task[w].items)
  <1> DEFINE items == task[w].items
             o == task[w].order
  <1>1. /\ task[w].pc = "checking" /\ o \in Orders /\ order[o] = None
        /\ items \in [Variants -> Nat]
        /\ \A v \in Lines(items) : Sellable(w, v)
        /\ variant' = [v \in Variants |->
               IF items[v] > 0
               THEN [variant[v] EXCEPT !.stock = task[w].seen[v].stock - items[v]]
               ELSE variant[v]]
        /\ order' = [order EXCEPT ![o] =
               [status |-> "PAYMENT_PENDING", items |-> items,
                unit_price |-> [v \in Variants |->
                   IF items[v] > 0 THEN task[w].seen[v].price ELSE 0]]]
    BY CartType DEF CheckoutPlace, IInv, TaskInv, TypeOK, Task, SerialInv, ReservedInv, Buying
  <1>2. \A v \in Lines(items) : /\ task[w].seen[v] = variant[v]
                                /\ variant[v].status = "active"
                                /\ variant[v].stock >= items[v]
    BY <1>1, CheckedLines DEF Lines
  <1>3. variant' = [v \in Variants |-> [variant[v] EXCEPT !.stock = @ - items[v]]]
    <2>1. ASSUME NEW v \in Variants
          PROVE  variant'[v] = [variant[v] EXCEPT !.stock = @ - items[v]]
      <3>1. variant[v] \in VariantRow /\ items[v] \in Nat
        BY <1>1 DEF IInv, TypeOK
      <3>2. CASE items[v] > 0
        BY <1>1, <1>2, <3>2 DEF Lines
      <3>3. CASE items[v] = 0
        BY <1>1, <3>1, <3>3 DEF VariantRow
      <3>4. QED
        BY <3>1, <3>2, <3>3
    <2>2. QED
      BY <1>1, <2>1
  <1>4. [v \in Variants |-> IF items[v] > 0 THEN task[w].seen[v].price ELSE 0]
         = [v \in Variants |-> IF items[v] > 0 THEN variant[v].price ELSE 0]
    BY <1>2 DEF Lines
  <1>5. QED
    BY <1>1, <1>2, <1>3, <1>4 DEF Shelf!Sell, Lines

\* Shelf reads the same status table.
LEMMA SameTable ==
    /\ Shelf!OrderStatus = OrderStatus
    /\ \A current, target :
          Shelf!can_transition(current, target) <=> can_transition(current, target)
  BY DEF Shelf!OrderStatus, OrderStatus, Shelf!can_transition, can_transition,
         Shelf!ORDER_TRANSITIONS, ORDER_TRANSITIONS

LEMMA StatusMoves ==
    ASSUME IInv, SerialInv, NEW w \in Workers, StatusCommit(w) \/ CancelCommit(w)
    PROVE  Shelf!Move(task[w].order, task[w].target)
  <1>1. /\ Moving(w) /\ order[task[w].order] # None
        /\ can_transition(order[task[w].order].status, task[w].target)
        /\ task[w].items = order[task[w].order].items
    BY DEF StatusCommit, CancelCommit, Moving, IInv, TaskInv, SerialInv, FreshInv
  <1>2. CASE StatusCommit(w)
    BY <1>1, <1>2, SameTable DEF StatusCommit, Shelf!Move
  <1>3. CASE CancelCommit(w)
    <2>1. task[w].target = "CANCELLED"
      BY <1>3 DEF CancelCommit, SerialInv, FreshInv
    <2>2. order' = [order EXCEPT ![task[w].order].status = "CANCELLED"]
      BY <1>3 DEF CancelCommit
    <2>3. QED
      BY <1>1, <1>3, <2>1, <2>2, CancelRestocks, SameTable DEF Shelf!Move
  <1>4. QED
    BY <1>2, <1>3

LEMMA EditEdits ==
    ASSUME IInv, NEW w \in Workers, NEW v \in Variants, EditCommit(w, v)
    PROVE  Shelf!Edit(v)
  BY DEF EditCommit, Shelf!Edit, IInv, TypeOK

LEMMA StepImplements ==
    ASSUME IInv, SerialInv, [Next]_vars
    PROVE  [Shelf!Next]_(Shelf!vars)
  <1>1. CASE UNCHANGED vars
    BY <1>1 DEF vars, Shelf!vars
  <1>2. ASSUME NEW w \in Workers, Arrival(w) PROVE UNCHANGED Shelf!vars
    BY <1>2 DEF Arrival, CheckoutStart, StatusStart, EditStart, ProductStatus, Shelf!vars
  <1>3. ASSUME NEW w \in Workers,
               \/ (\E v \in Variants : LockVariant(w, v) \/ ReleaseRead(w, v))
               \/ LoadProducts(w) \/ CheckoutRefuse(w) \/ CancelFlush(w)
               \/ ReleaseFlush(w) \/ DeadlockVictim(w) \/ Crash(w)
        PROVE  UNCHANGED Shelf!vars
    BY <1>3 DEF LockVariant, ReleaseRead, LoadProducts, CheckoutRefuse, CancelFlush,
                ReleaseFlush, DeadlockVictim, Crash, Shelf!vars
  <1>4. ASSUME NEW w \in Workers, CheckoutPlace(w) PROVE Shelf!Next
    <2>1. task[w].order \in Orders /\ task[w].items \in Cart
      BY <1>4 DEF CheckoutPlace, IInv, TaskInv, TypeOK, Task
    <2>2. QED
      BY <1>4, <2>1, PlaceSells DEF Shelf!Next
  <1>5. ASSUME NEW w \in Workers, StatusCommit(w) \/ CancelCommit(w) PROVE Shelf!Next
    <2>1. task[w].order \in Orders /\ task[w].target \in OrderStatus
      BY <1>5 DEF StatusCommit, CancelCommit, IInv, TaskInv, TypeOK, Task
    <2>2. QED
      BY <1>5, <2>1, StatusMoves, SameTable DEF Shelf!Next
  <1>6. ASSUME NEW w \in Workers, NEW v \in Variants, EditCommit(w, v) PROVE Shelf!Next
    BY <1>6, EditEdits DEF Shelf!Next
  <1>7. ASSUME NEW w \in Workers, Step(w) PROVE [Shelf!Next]_(Shelf!vars)
    BY <1>3, <1>4, <1>5, <1>6, <1>7 DEF Step
  <1>8. QED
    BY <1>1, <1>2, <1>3, <1>7 DEF Next, Quiet

\* Under the same assumption every request takes effect at once, at its commit,
\* on the shelf as it is at that moment; what happens before shows nowhere.
THEOREM ImplementsShelf ==
    ASSUME RestockingAlone
    PROVE  Spec => Atomic
  <1>1. Init => Shelf!Init
    BY InventoryAssumption DEF Init, Shelf!Init
  <1>2. IInv /\ SerialInv /\ [Next]_vars => [Shelf!Next]_(Shelf!vars)
    BY StepImplements
  <1>3. QED
    BY <1>1, <1>2, SerialInvariance, PTL DEF Spec, Atomic, Shelf!Spec
=============================================================================
