-------------------------- MODULE InventoryProofs --------------------------
(***************************************************************************)
(* Theorems about Inventory, for every number of variants, orders and      *)
(* workers, and every stock, price and quantity.                           *)
(***************************************************************************)
EXTENDS Inventory, TLAPS

(***************************************************************************)
(* The inductive invariant: what a request in flight knows and holds.      *)
(***************************************************************************)

\* A request carries what its handler goes on to use.
TaskInv ==
    \A w \in Workers :
        /\ task[w].pc \in {"locking", "checking", "status", "releasing"} =>
              task[w].order \in Orders
        /\ task[w].pc \in {"status", "releasing"} =>
              order[task[w].order] # None /\ task[w].target # None
        /\ task[w].pc = "checking" => task[w].todo = {}
        /\ task[w].pc = "editing" =>
              task[w].edit # None /\ \A v \in task[w].todo : task[w].seen[v] # None

\* A checkout holds every row it has read, and the row is as it read it; a
\* cancellation holds every row it has flushed.
LockInv ==
    \A w \in Workers : \A v \in Lines(task[w].items) \ task[w].todo :
        /\ task[w].pc \in {"locking", "checking"} =>
              lock[v] = w /\ task[w].seen[v] = variant[v]
        /\ task[w].pc = "releasing" =>
              task[w].seen[v] # None /\ (v # task[w].dirty => lock[v] = w)

IInv == TypeOK /\ TaskInv /\ LockInv

LEMMA IdleType == Idle \in Task
  BY InventoryAssumption DEF Idle, Task, Cart, NoItems

LEMMA LinesType == \A cart : Lines(cart) \subseteq Variants
  BY DEF Lines

LEMMA CartType == ASSUME NEW cart \in Cart PROVE cart \in [Variants -> Nat]
  <1>1. Quantities \cup {0} \subseteq Nat
    BY InventoryAssumption
  <1>2. QED
    BY <1>1 DEF Cart

LEMMA InitInv == Init => IInv
  <1> SUFFICES ASSUME Init PROVE IInv
    OBVIOUS
  <1> USE DEF Init
  <1>1. TypeOK
    BY IdleType, InventoryAssumption DEF TypeOK, VariantRow, Rows
  <1>2. TaskInv
    BY DEF TaskInv, Idle
  <1>3. LockInv
    BY DEF LockInv, Idle
  <1>4. QED
    BY <1>1, <1>2, <1>3 DEF IInv

(***************************************************************************)
(* The end of a transaction that wrote nothing.                            *)
(***************************************************************************)

LEMMA EndTypes ==
    ASSUME TypeOK, NEW w \in Workers, EndTransaction(w)
    PROVE  /\ lock' \in [Rows -> Workers \cup {None}]
           /\ task' \in [Workers -> Task]
           /\ task'[w] = Idle
           /\ \A x \in Workers \ {w} : task'[x] = task[x]
           /\ \A x \in Workers \ {w} : \A r \in Rows : lock[r] = x => lock'[r] = x
  <1>1. task \in [Workers -> Task] /\ lock \in [Rows -> Workers \cup {None}]
    BY DEF TypeOK
  <1>2. task' = [task EXCEPT ![w] = Idle] /\ lock' = ReleaseLocks(w)
    BY DEF EndTransaction
  <1>3. /\ task' \in [Workers -> Task] /\ task'[w] = Idle
        /\ \A x \in Workers \ {w} : task'[x] = task[x]
    BY <1>1, <1>2, IdleType
  <1>4. /\ lock' \in [Rows -> Workers \cup {None}]
        /\ \A x \in Workers \ {w} : \A r \in Rows : lock[r] = x => lock'[r] = x
    BY <1>1, <1>2 DEF ReleaseLocks
  <1>5. QED
    BY <1>3, <1>4

LEMMA RollbackInv ==
    ASSUME IInv, NEW w \in Workers, EndTransaction(w),
           UNCHANGED <<variant, product, ledger, order, released>>
    PROVE  IInv'
  <1> USE EndTypes DEF IInv
  <1>1. TypeOK'
    BY DEF TypeOK
  <1>2. TaskInv'
    BY DEF TaskInv, Idle
  <1>3. LockInv'
    BY LinesType DEF LockInv, Idle, Rows, TypeOK
  <1>4. QED
    BY <1>1, <1>2, <1>3

(***************************************************************************)
(* Each step of a checkout preserves the invariant.                        *)
(***************************************************************************)

LEMMA CheckoutStartInv ==
    ASSUME IInv, NEW w \in Workers, NEW o \in Orders, NEW cart \in ValidCarts,
           CheckoutStart(w, o, cart)
    PROVE  IInv'
  <1> USE DEF IInv
  <1> DEFINE t == [Idle EXCEPT !.pc = "locking", !.order = o, !.items = cart,
                               !.todo = Lines(cart)]
  <1>1. /\ task' = [task EXCEPT ![w] = t]
        /\ UNCHANGED <<variant, product, ledger, order, released, lock>>
    BY DEF CheckoutStart
  <1>2. t \in Task
    BY IdleType, LinesType DEF Task, Idle, ValidCarts
  <1>3. TypeOK'
    BY <1>1, <1>2 DEF TypeOK
  <1>4. TaskInv'
    BY <1>1 DEF TaskInv, TypeOK, Idle
  <1>5. LockInv'
    BY <1>1 DEF LockInv, TypeOK, Idle
  <1>6. QED
    BY <1>3, <1>4, <1>5

LEMMA LockVariantInv ==
    ASSUME IInv, NEW w \in Workers, NEW v \in Variants, LockVariant(w, v)
    PROVE  IInv'
  <1> USE DEF IInv
  <1>1. /\ task[w].pc = "locking" /\ v \in task[w].todo /\ lock[v] = None
        /\ lock' = [lock EXCEPT ![v] = w]
        /\ task' = [task EXCEPT ![w].todo = @ \ {v}, ![w].seen[v] = variant[v]]
        /\ UNCHANGED <<variant, product, ledger, order, released>>
    BY DEF LockVariant, Free
  <1> DEFINE t == [task[w] EXCEPT !.todo = @ \ {v}, !.seen[v] = variant[v]]
  <1>2. task[w] \in Task /\ task' = [task EXCEPT ![w] = t]
    BY <1>1 DEF TypeOK
  <1>3. t \in Task
    BY <1>2 DEF TypeOK, Task
  <1>4. TypeOK'
    BY <1>1, <1>2, <1>3 DEF TypeOK, Rows
  <1>5. TaskInv'
    BY <1>1 DEF TaskInv, TypeOK, Task
  <1>6. LockInv'
    BY <1>1, LinesType, InventoryAssumption DEF LockInv, TypeOK, Task, Rows
  <1>7. QED
    BY <1>4, <1>5, <1>6

LEMMA LoadProductsInv ==
    ASSUME IInv, NEW w \in Workers, LoadProducts(w)
    PROVE  IInv'
  <1> USE DEF IInv
  <1>1. /\ task[w].pc = "locking" /\ task[w].todo = {}
        /\ task' = [task EXCEPT ![w].pc = "checking",
                                ![w].listed = {v \in Lines(task[w].items) :
                                                 product[ProductOf[v]] = "active"}]
        /\ UNCHANGED <<variant, product, ledger, order, released, lock>>
    BY DEF LoadProducts
  <1> DEFINE listed == {v \in Lines(task[w].items) :
                            product[ProductOf[v]] = "active"}
             t == [task[w] EXCEPT !.pc = "checking", !.listed = listed]
  <1>2. /\ task[w] \in Task /\ task' = [task EXCEPT ![w] = t]
        /\ listed \in SUBSET Variants
    BY <1>1, LinesType DEF TypeOK
  <1>a. t \in Task
    BY <1>2 DEF Task
  <1>3. TypeOK'
    BY <1>1, <1>2, <1>a DEF TypeOK
  <1>4. TaskInv'
    BY <1>1 DEF TaskInv, TypeOK, Task
  <1>5. LockInv'
    BY <1>1 DEF LockInv, TypeOK, Task
  <1>6. QED
    BY <1>3, <1>4, <1>5

\* What a checkout about to commit knows of its lines.
LEMMA CheckedLines ==
    ASSUME IInv, NEW w \in Workers, task[w].pc = "checking",
           \A v \in Lines(task[w].items) : Sellable(w, v)
    PROVE  /\ task[w].order \in Orders
           /\ \A v \in Variants : task[w].items[v] \in Nat
           /\ \A v \in Variants : task[w].items[v] > 0 =>
                 /\ lock[v] = w
                 /\ task[w].seen[v] = variant[v]
                 /\ variant[v].status = "active"
                 /\ variant[v].stock >= task[w].items[v]
  <1>1. task[w] \in Task /\ task[w].order \in Orders /\ task[w].todo = {}
    BY DEF IInv, TypeOK, TaskInv
  <1>2. \A v \in Variants : task[w].items[v] \in Nat
    BY <1>1, CartType DEF Task
  <1>3. \A v \in Lines(task[w].items) : lock[v] = w /\ task[w].seen[v] = variant[v]
    BY <1>1 DEF IInv, LockInv
  <1>4. QED
    BY <1>1, <1>2, <1>3 DEF Lines, Sellable

\* A request whose worker is not w keeps what it holds when w rewrites rows
\* that w holds, or that nobody holds, and ends its transaction.
LEMMA WriteKeepsLockInv ==
    ASSUME IInv, NEW w \in Workers, EndTransaction(w),
           \A v \in Variants : lock[v] \in {None, w} \/ variant'[v] = variant[v]
    PROVE  LockInv'
  <1> USE DEF IInv
  <1>1. ASSUME NEW x \in Workers, NEW v \in Lines(task'[x].items) \ task'[x].todo
        PROVE  /\ task'[x].pc \in {"locking", "checking"} =>
                     lock'[v] = x /\ task'[x].seen[v] = variant'[v]
               /\ task'[x].pc = "releasing" =>
                     task'[x].seen[v] # None /\ (v # task'[x].dirty => lock'[v] = x)
    <2>1. CASE x = w
      BY <2>1, EndTypes DEF Idle
    <2>2. CASE x # w
      <3>1. /\ task'[x] = task[x] /\ v \in Variants /\ v \in Rows
            /\ lock[v] = x => lock'[v] = x
        BY <1>1, <2>2, EndTypes, LinesType DEF Rows
      <3>2. lock[v] = x => variant'[v] = variant[v]
        BY <2>2, <3>1, InventoryAssumption
      <3>3. QED
        BY <1>1, <3>1, <3>2 DEF LockInv
    <2>3. QED
      BY <2>1, <2>2
  <1>2. QED
    BY <1>1 DEF LockInv, Lines

LEMMA CheckoutPlaceInv ==
    ASSUME IInv, NEW w \in Workers, CheckoutPlace(w)
    PROVE  IInv'
  <1> USE DEF IInv
  <1> DEFINE items == task[w].items
             o == task[w].order
             row == [status |-> "PAYMENT_PENDING", items |-> items,
                     unit_price |-> [v \in Variants |->
                        IF items[v] > 0 THEN task[w].seen[v].price ELSE 0]]
             rewritten(v) ==
                 [variant[v] EXCEPT !.stock = task[w].seen[v].stock - items[v]]
  <1>1. /\ task[w].pc = "checking"
        /\ \A v \in Lines(items) : Sellable(w, v)
        /\ order' = [order EXCEPT ![o] = row]
        /\ variant' = [v \in Variants |->
                         IF items[v] > 0 THEN rewritten(v) ELSE variant[v]]
        /\ ledger' = [v \in Variants |-> ledger[v] - items[v]]
        /\ EndTransaction(w) /\ UNCHANGED <<product, released>>
    BY DEF CheckoutPlace
  <1>2. /\ o \in Orders /\ items \in Cart /\ items \in [Variants -> Nat]
        /\ \A v \in Variants : items[v] > 0 =>
              /\ lock[v] = w /\ task[w].seen[v] = variant[v]
              /\ variant[v].stock >= items[v]
    <2>1. items \in Cart
      BY DEF TypeOK, Task
    <2>2. QED
      BY <1>1, <2>1, CheckedLines, CartType
  <1>3. row \in OrderRow
    <2>1. \A v \in Variants : variant[v].price \in Nat
      BY DEF TypeOK, VariantRow
    <2>2. row.unit_price \in [Variants -> Nat]
      BY <1>2, <2>1
    <2>3. QED
      BY <1>2, <2>2 DEF OrderRow, OrderStatus
  <1>4. variant' \in [Variants -> VariantRow]
    <2>1. ASSUME NEW v \in Variants, items[v] > 0 PROVE rewritten(v) \in VariantRow
      <3>1. /\ variant[v] \in VariantRow /\ items[v] \in Nat
            /\ task[w].seen[v].stock = variant[v].stock
            /\ variant[v].stock >= items[v]
        BY <1>2, <2>1 DEF TypeOK
      <3>2. QED
        BY <3>1 DEF VariantRow
    <2>2. QED
      BY <1>1, <2>1 DEF TypeOK
  <1>5. ledger' \in [Variants -> Int] /\ order' \in [Orders -> OrderRow \cup {None}]
    BY <1>1, <1>2, <1>3 DEF TypeOK
  <1>6. TypeOK'
    BY <1>1, <1>4, <1>5, EndTypes DEF TypeOK
  <1>7. TaskInv'
    <2>1. \A p \in Orders : order[p] # None => order'[p] # None
      BY <1>1, <1>2, <1>3, NoneAssumption DEF TypeOK
    <2>2. QED
      BY <1>1, <2>1, EndTypes DEF TaskInv, Idle
  <1>8. LockInv'
    BY <1>1, <1>2, WriteKeepsLockInv
  <1>9. QED
    BY <1>6, <1>7, <1>8

(***************************************************************************)
(* Each step of update_status preserves the invariant.                     *)
(***************************************************************************)

LEMMA StatusStartInv ==
    ASSUME IInv, NEW w \in Workers, NEW o \in Orders, NEW target \in OrderStatus,
           StatusStart(w, o, target)
    PROVE  IInv'
  <1> USE DEF IInv
  <1> DEFINE t == [Idle EXCEPT !.pc = "status", !.order = o, !.target = target,
                               !.items = order[o].items]
  <1>1. /\ order[o] # None
        /\ task' = [task EXCEPT ![w] = t]
        /\ UNCHANGED <<variant, product, ledger, order, released, lock>>
    BY DEF StatusStart
  <1>2. t \in Task
    <2>1. order[o].items \in Cart
      BY <1>1 DEF TypeOK, OrderRow
    <2>2. QED
      BY <2>1, IdleType DEF Task, Idle
  <1>3. TypeOK'
    BY <1>1, <1>2 DEF TypeOK
  <1>4. TaskInv'
    BY <1>1, InventoryAssumption DEF TaskInv, TypeOK, Idle
  <1>5. LockInv'
    BY <1>1 DEF LockInv, TypeOK, Idle
  <1>6. QED
    BY <1>3, <1>4, <1>5

LEMMA StatusCommitInv ==
    ASSUME IInv, NEW w \in Workers, StatusCommit(w)
    PROVE  IInv'
  <1> USE DEF IInv
  <1> DEFINE o == task[w].order
             row == [order[o] EXCEPT !.status = task[w].target]
  <1>1. /\ order' = [order EXCEPT ![o] = row]
        /\ EndTransaction(w) /\ task[w].pc = "status"
        /\ UNCHANGED <<variant, product, ledger, released>>
    BY DEF StatusCommit, TypeOK
  <1>2. o \in Orders /\ order[o] \in OrderRow /\ task[w].target \in OrderStatus
    BY <1>1 DEF TaskInv, TypeOK, Task
  <1>3. row \in OrderRow
    BY <1>2 DEF OrderRow
  <1>4. TypeOK'
    BY <1>1, <1>3, EndTypes DEF TypeOK
  <1>5. TaskInv'
    <2>1. \A p \in Orders : order[p] # None => order'[p] # None
      BY <1>1, <1>2, <1>3, NoneAssumption DEF TypeOK
    <2>2. QED
      BY <1>1, <2>1, EndTypes DEF TaskInv, Idle
  <1>6. LockInv'
    BY <1>1, WriteKeepsLockInv
  <1>7. QED
    BY <1>4, <1>5, <1>6

LEMMA CancelFlushInv ==
    ASSUME IInv, NEW w \in Workers, CancelFlush(w)
    PROVE  IInv'
  <1> USE DEF IInv
  <1> DEFINE t == [task[w] EXCEPT !.pc = "releasing", !.todo = Lines(task[w].items)]
  <1>1. /\ task[w].pc = "status" /\ lock[task[w].order] = None
        /\ lock' = [lock EXCEPT ![task[w].order] = w]
        /\ task' = [task EXCEPT ![w] = t]
        /\ UNCHANGED <<variant, product, ledger, order, released>>
    BY DEF CancelFlush, Free, TypeOK
  <1>2. task[w] \in Task /\ task[w].order \in Orders
    BY <1>1 DEF TypeOK, TaskInv
  <1>3. t \in Task
    BY <1>2, LinesType DEF Task
  <1>4. TypeOK'
    BY <1>1, <1>2, <1>3 DEF TypeOK, Rows
  <1>5. TaskInv'
    BY <1>1 DEF TaskInv, TypeOK, Task
  <1>6. LockInv'
    BY <1>1, <1>2, LinesType, InventoryAssumption DEF LockInv, TypeOK, Task, Rows
  <1>7. QED
    BY <1>4, <1>5, <1>6

LEMMA ReleaseReadInv ==
    ASSUME IInv, NEW w \in Workers, NEW v \in Variants, ReleaseRead(w, v)
    PROVE  IInv'
  <1> USE DEF IInv
  <1> DEFINE t == [task[w] EXCEPT !.todo = @ \ {v}, !.dirty = v,
                                  !.seen[v] = variant[v]]
  <1>1. /\ task[w].pc = "releasing" /\ task[w].dirty = None
        /\ task' = [task EXCEPT ![w] = t]
        /\ UNCHANGED <<variant, product, ledger, order, released, lock>>
    BY DEF ReleaseRead, TypeOK
  <1>2. task[w] \in Task /\ variant[v] \in VariantRow /\ variant[v] # None
    BY <1>1, NoneAssumption DEF TypeOK
  <1>3. t \in Task
    BY <1>2 DEF Task
  <1>4. TypeOK'
    BY <1>1, <1>3 DEF TypeOK
  <1>5. TaskInv'
    BY <1>1 DEF TaskInv, TypeOK, Task
  <1>6. LockInv'
    BY <1>1, <1>2, LinesType, InventoryAssumption DEF LockInv, TypeOK, Task
  <1>7. QED
    BY <1>4, <1>5, <1>6

LEMMA ReleaseFlushInv ==
    ASSUME IInv, NEW w \in Workers, ReleaseFlush(w)
    PROVE  IInv'
  <1> USE DEF IInv
  <1> DEFINE t == [task[w] EXCEPT !.dirty = None]
  <1>1. /\ task[w].pc = "releasing" /\ task[w].dirty # None
        /\ lock[task[w].dirty] = None
        /\ lock' = [lock EXCEPT ![task[w].dirty] = w]
        /\ task' = [task EXCEPT ![w] = t]
        /\ UNCHANGED <<variant, product, ledger, order, released>>
    BY DEF ReleaseFlush, Free, TypeOK
  <1>2. task[w] \in Task /\ task[w].dirty \in Variants
    BY <1>1 DEF TypeOK, Task
  <1>3. t \in Task
    BY <1>2 DEF Task
  <1>4. TypeOK'
    BY <1>1, <1>2, <1>3 DEF TypeOK, Rows
  <1>5. TaskInv'
    BY <1>1 DEF TaskInv, TypeOK, Task
  <1>6. LockInv'
    BY <1>1, <1>2, LinesType, InventoryAssumption DEF LockInv, TypeOK, Task, Rows
  <1>7. QED
    BY <1>4, <1>5, <1>6

LEMMA CancelCommitInv ==
    ASSUME IInv, NEW w \in Workers, CancelCommit(w)
    PROVE  IInv'
  <1> USE DEF IInv
  <1> DEFINE items == task[w].items
             o == task[w].order
             row == [order[o] EXCEPT !.status = "CANCELLED"]
             restocked(v) ==
                 [variant[v] EXCEPT !.stock = task[w].seen[v].stock + items[v]]
  <1>1. /\ task[w].pc = "releasing" /\ task[w].dirty = None /\ task[w].todo = {}
        /\ order' = [order EXCEPT ![o] = row]
        /\ released' = [released EXCEPT ![o] = @ + 1]
        /\ variant' = [v \in Variants |->
                         IF items[v] > 0 THEN restocked(v) ELSE variant[v]]
        /\ ledger' = [v \in Variants |-> ledger[v] + items[v]]
        /\ EndTransaction(w) /\ UNCHANGED product
    BY DEF CancelCommit, TypeOK
  <1>2. /\ o \in Orders /\ order[o] \in OrderRow
        /\ items \in [Variants -> Nat]
        /\ task[w].seen \in [Variants -> VariantRow \cup {None}]
    <2>1. task[w] \in Task
      BY DEF TypeOK
    <2>2. QED
      BY <1>1, <2>1, CartType DEF TaskInv, TypeOK, Task
  <1>3. \A v \in Variants : items[v] > 0 =>
           lock[v] = w /\ task[w].seen[v] \in VariantRow
    BY <1>1, <1>2, InventoryAssumption DEF LockInv, Lines
  <1>4. row \in OrderRow
    BY <1>2 DEF OrderRow, OrderStatus
  <1>5. variant' \in [Variants -> VariantRow]
    <2>1. ASSUME NEW v \in Variants, items[v] > 0 PROVE restocked(v) \in VariantRow
      <3>1. variant[v] \in VariantRow /\ task[w].seen[v].stock \in Nat /\ items[v] \in Nat
        BY <1>2, <1>3, <2>1 DEF TypeOK, VariantRow
      <3>2. QED
        BY <3>1 DEF VariantRow
    <2>2. QED
      BY <1>1, <2>1 DEF TypeOK
  <1>6. /\ ledger' \in [Variants -> Int]
        /\ order' \in [Orders -> OrderRow \cup {None}]
        /\ released' \in [Orders -> Nat]
    BY <1>1, <1>2, <1>4 DEF TypeOK
  <1>7. TypeOK'
    BY <1>1, <1>5, <1>6, EndTypes DEF TypeOK
  <1>8. TaskInv'
    <2>1. \A p \in Orders : order[p] # None => order'[p] # None
      BY <1>1, <1>2, <1>4, NoneAssumption DEF TypeOK
    <2>2. QED
      BY <1>1, <2>1, EndTypes DEF TaskInv, Idle
  <1>9. LockInv'
    BY <1>1, <1>3, WriteKeepsLockInv
  <1>10. QED
    BY <1>7, <1>8, <1>9

(***************************************************************************)
(* The catalog's requests preserve the invariant.                          *)
(***************************************************************************)

LEMMA EditsType == TypeOK => Edits \subseteq VariantRow
  <1> SUFFICES ASSUME TypeOK PROVE Edits \subseteq VariantRow
    OBVIOUS
  <1>1. {variant[v].stock : v \in Variants} \subseteq Nat
    BY DEF TypeOK, VariantRow
  <1>2. Stocks \subseteq Nat /\ Prices \subseteq Nat
    BY InventoryAssumption
  <1>3. QED
    BY <1>1, <1>2 DEF Edits, VariantRow

LEMMA EditStartInv ==
    ASSUME IInv, NEW w \in Workers, NEW v \in Variants, NEW edit \in Edits,
           EditStart(w, v, edit)
    PROVE  IInv'
  <1> USE DEF IInv
  <1> DEFINE t == [Idle EXCEPT !.pc = "editing", !.todo = {v}, !.edit = edit,
                               !.seen = [Idle.seen EXCEPT ![v] = variant[v]]]
  <1>1. /\ task' = [task EXCEPT ![w] = t]
        /\ UNCHANGED <<variant, product, ledger, order, released, lock>>
    BY DEF EditStart
  <1>2. /\ variant[v] \in VariantRow /\ variant[v] # None
        /\ edit \in VariantRow /\ edit # None
    BY EditsType, NoneAssumption DEF TypeOK
  <1>3. t \in Task
    BY <1>2, IdleType DEF Task, Idle
  <1>4. TypeOK'
    BY <1>1, <1>3 DEF TypeOK
  <1>5. TaskInv'
    <2>1. t.pc = "editing" /\ t.edit # None /\ t.todo = {v} /\ t.seen[v] # None
      BY <1>2 DEF Idle
    <2>2. QED
      BY <1>1, <2>1 DEF TaskInv, TypeOK
  <1>6. LockInv'
    BY <1>1 DEF LockInv, TypeOK, Idle
  <1>7. QED
    BY <1>4, <1>5, <1>6

LEMMA EditCommitInv ==
    ASSUME IInv, NEW w \in Workers, NEW v \in Variants, EditCommit(w, v)
    PROVE  IInv'
  <1> USE DEF IInv
  <1> DEFINE seen == task[w].seen[v]
             edit == task[w].edit
             row == [variant[v] EXCEPT
                !.stock = IF edit.stock # seen.stock THEN edit.stock ELSE @,
                !.price = IF edit.price # seen.price THEN edit.price ELSE @,
                !.status = IF edit.status # seen.status THEN edit.status ELSE @]
  <1>1. /\ task[w].pc = "editing" /\ v \in task[w].todo /\ lock[v] = None
        /\ variant' = [variant EXCEPT ![v] = row]
        /\ ledger' = [ledger EXCEPT ![v] = @ + (edit.stock - seen.stock)]
        /\ EndTransaction(w) /\ UNCHANGED <<product, order, released>>
    BY DEF EditCommit, Free, Delta, TypeOK
  <1>2. seen \in VariantRow /\ edit \in VariantRow /\ variant[v] \in VariantRow
    BY <1>1 DEF TaskInv, TypeOK, Task
  <1>3. row \in VariantRow
    BY <1>2 DEF VariantRow
  <1>4. ledger[v] + (edit.stock - seen.stock) \in Int
    BY <1>2 DEF VariantRow, TypeOK
  <1>5. TypeOK'
    BY <1>1, <1>3, <1>4, EndTypes DEF TypeOK
  <1>6. TaskInv'
    BY <1>1, EndTypes DEF TaskInv, Idle
  <1>7. LockInv'
    BY <1>1, WriteKeepsLockInv DEF TypeOK
  <1>8. QED
    BY <1>5, <1>6, <1>7

LEMMA ProductStatusInv ==
    ASSUME IInv, NEW w \in Workers, NEW p \in Products,
           NEW status \in {"active", "archived"}, ProductStatus(w, p, status)
    PROVE  IInv'
  BY DEF ProductStatus, IInv, TypeOK, TaskInv, LockInv

(***************************************************************************)
(* The invariant holds in every reachable state.                           *)
(***************************************************************************)

LEMMA StepInv == IInv /\ [Next]_vars => IInv'
  <1> SUFFICES ASSUME IInv, [Next]_vars PROVE IInv'
    OBVIOUS
  <1>1. CASE UNCHANGED vars
    BY <1>1 DEF vars, IInv, TypeOK, TaskInv, LockInv
  <1>2. ASSUME NEW w \in Workers, Arrival(w) PROVE IInv'
    BY <1>2, CheckoutStartInv, StatusStartInv, EditStartInv, ProductStatusInv
       DEF Arrival
  <1>3. ASSUME NEW w \in Workers, CheckoutRefuse(w) \/ DeadlockVictim(w) \/ Crash(w)
        PROVE  IInv'
    BY <1>3, RollbackInv DEF CheckoutRefuse, DeadlockVictim, Crash
  <1>4. ASSUME NEW w \in Workers, Step(w) PROVE IInv'
    BY <1>3, <1>4, LockVariantInv, LoadProductsInv, CheckoutPlaceInv, StatusCommitInv,
       CancelFlushInv, ReleaseReadInv, ReleaseFlushInv, CancelCommitInv, EditCommitInv
       DEF Step
  <1>5. QED
    BY <1>1, <1>2, <1>3, <1>4 DEF Next, Quiet

THEOREM Invariance == Spec => []IInv
  <1>1. Init => IInv
    BY InitInv
  <1>2. IInv /\ [Next]_vars => IInv'
    BY StepInv
  <1>3. QED
    BY <1>1, <1>2, PTL DEF Spec

\* The tables keep their types under any traffic; the stock of a variant is
\* never negative, so no commit is refused by ck_variants_stock_non_negative.
THEOREM TypeCorrect == Spec => []TypeOK
  <1>1. IInv => TypeOK
    BY DEF IInv
  <1>2. QED
    BY <1>1, Invariance, PTL

\* Under any traffic the rows a checkout decides on are the current rows.
THEOREM ReadsCurrent == Spec => []LockedReadsCurrent
  <1>1. IInv => LockedReadsCurrent
    BY LinesType DEF IInv, TypeOK, TaskInv, LockInv, LockedReadsCurrent
  <1>2. QED
    BY <1>1, Invariance, PTL

(***************************************************************************)
(* Placing an order, under any traffic.                                    *)
(***************************************************************************)

\* Only a checkout's commit places an order; it reads stock, status and price
\* from rows it has locked, so it sells what is on the shelf as the shelf is.
LEMMA OnlyCheckoutPlaces ==
    ASSUME IInv, [Next]_vars, NEW o \in Orders, order[o] = None, order'[o] # None
    PROVE  \E w \in Workers : CheckoutPlace(w) /\ o = task[w].order
  <1>1. \/ \E w \in Workers : CheckoutPlace(w) \/ StatusCommit(w) \/ CancelCommit(w)
        \/ UNCHANGED order
    <2>1. \A w \in Workers : Arrival(w) => UNCHANGED order
      BY DEF Arrival, CheckoutStart, StatusStart, EditStart, ProductStatus
    <2>2. \A w \in Workers : Step(w) =>
             \/ CheckoutPlace(w) \/ StatusCommit(w) \/ CancelCommit(w)
             \/ UNCHANGED order
      BY ZenonT(40) DEF Step, LockVariant, LoadProducts, CheckoutRefuse, CancelFlush, ReleaseRead,
             ReleaseFlush, EditCommit
    <2>3. \A w \in Workers : DeadlockVictim(w) \/ Crash(w) => UNCHANGED order
      BY DEF DeadlockVictim, Crash
    <2>4. QED
      BY <2>1, <2>2, <2>3 DEF Next, Quiet, vars
  <1>2. ASSUME NEW w \in Workers, StatusCommit(w) \/ CancelCommit(w) PROVE FALSE
    <2>1. task[w].order # o
      BY <1>2 DEF StatusCommit, CancelCommit, IInv, TaskInv
    <2>2. order'[o] = order[o]
      BY <1>2, <2>1 DEF StatusCommit, CancelCommit, IInv, TypeOK
    <2>3. QED
      BY <2>2
  <1>3. ASSUME NEW w \in Workers, CheckoutPlace(w) PROVE o = task[w].order
    BY <1>3 DEF CheckoutPlace, IInv, TypeOK
  <1>4. QED
    BY <1>1, <1>2, <1>3

LEMMA PlaceSellsFromTheShelf ==
    ASSUME IInv, NEW w \in Workers, CheckoutPlace(w)
    PROVE  LET o == task[w].order IN
           /\ order'[o].items = task[w].items
           /\ \A v \in Lines(task[w].items) :
                 /\ variant[v].status = "active"
                 /\ variant[v].stock >= task[w].items[v]
                 /\ variant'[v].stock = variant[v].stock - task[w].items[v]
                 /\ order'[o].unit_price[v] = variant[v].price
  <1> DEFINE items == task[w].items
             row == [status |-> "PAYMENT_PENDING", items |-> items,
                     unit_price |-> [v \in Variants |->
                        IF items[v] > 0 THEN task[w].seen[v].price ELSE 0]]
  <1>1. /\ task[w].pc = "checking"
        /\ \A v \in Lines(items) : Sellable(w, v)
        /\ order' = [order EXCEPT ![task[w].order] = row]
        /\ variant' = [v \in Variants |->
               IF items[v] > 0
               THEN [variant[v] EXCEPT !.stock = task[w].seen[v].stock - items[v]]
               ELSE variant[v]]
    BY DEF CheckoutPlace
  <1>2. /\ task[w].order \in Orders
        /\ \A v \in Lines(items) : /\ v \in Variants /\ items[v] > 0
                                   /\ task[w].seen[v] = variant[v]
                                   /\ variant[v].status = "active"
                                   /\ variant[v].stock >= items[v]
                                   /\ variant[v] \in VariantRow
    BY <1>1, CheckedLines DEF Lines, IInv, TypeOK
  <1>3. order'[task[w].order] = row
    BY <1>1, <1>2 DEF IInv, TypeOK
  <1>4. ASSUME NEW v \in Lines(items)
        PROVE  /\ variant'[v].stock = variant[v].stock - items[v]
               /\ row.unit_price[v] = variant[v].price
    BY <1>1, <1>2 DEF VariantRow
  <1>5. QED
    BY <1>2, <1>3, <1>4

THEOREM SellsFromTheShelf == Spec => SoldFromTheShelf
  <1> DEFINE Sold == \A o \in Orders : order[o] = None /\ order'[o] # None =>
         \A v \in Lines(order'[o].items) :
             /\ variant[v].status = "active"
             /\ variant[v].stock >= order'[o].items[v]
             /\ variant'[v].stock = variant[v].stock - order'[o].items[v]
             /\ order'[o].unit_price[v] = variant[v].price
  <1>1. IInv /\ [Next]_vars => Sold
    BY OnlyCheckoutPlaces, PlaceSellsFromTheShelf
  <1>2. IInv /\ [Next]_vars => [Sold]_vars
    BY <1>1
  <1>3. QED
    BY <1>2, Invariance, PTL DEF Spec, SoldFromTheShelf
=============================================================================
