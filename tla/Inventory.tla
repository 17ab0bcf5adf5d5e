----------------------------- MODULE Inventory -----------------------------
(***************************************************************************)
(* Stock and its ledger under concurrent requests: POST /api/orders        *)
(* (blueprints/checkout.py), PATCH /api/admin/orders/<id>/status           *)
(* (blueprints/admin_orders.py), PATCH /api/admin/variants/<id> and        *)
(* archiving a product (blueprints/admin_catalog.py).                      *)
(*                                                                         *)
(* Each request is one database transaction at READ COMMITTED run by one   *)
(* gunicorn thread (a worker).  A plain SELECT sees the committed rows and *)
(* never waits; SELECT ... FOR UPDATE and the UPDATE a flush emits take    *)
(* the row's lock and wait for its holder; the ORM writes the absolute     *)
(* value of the columns it saw change.  What a transaction has flushed is  *)
(* invisible to the others until its commit, so the tables change only in  *)
(* the commit actions.                                                     *)
(***************************************************************************)
EXTENDS Integers, FiniteSets, OrderStates

CONSTANTS
    Variants,     \* the product variants
    Orders,       \* the ids orders may get: a bound on the orders placed
    Workers,      \* the threads that serve requests
    Products,
    ProductOf,    \* the product of each variant
    Prices,       \* the prices an admin may set
    Quantities,   \* the quantities a cart line may ask for
    Stocks,       \* the stock an admin may set
    OpeningStock, \* the stock of every variant at the start
    MaxStock,     \* a bound on the stock and on the drift of the ledger
    Traffic,      \* the requests that arrive
    Alone,        \* the requests the shop makes only while no other is served
    None

\* The kinds of request: placing an order, moving an order's status, setting a
\* variant's stock, editing its price or status, archiving a product.
Kinds == {"checkout", "status", "stock", "edit", "product"}

ASSUME InventoryAssumption ==
    /\ ProductOf \in [Variants -> Products]
    /\ Prices \subseteq Nat /\ Prices # {}
    /\ Quantities \subseteq Nat \ {0}
    /\ Stocks \subseteq Nat /\ OpeningStock \in Nat /\ MaxStock \in Nat
    /\ Traffic \subseteq Kinds /\ Alone \subseteq Kinds
    /\ Variants \cap Orders = {}
    /\ None \notin Variants \cup Orders \cup Workers \cup OrderStatus

VARIABLES
    variant,   \* product_variants: stock, price and status of each row
    product,   \* products.status
    ledger,    \* SUM(inventory_movements.delta) of each variant
    order,     \* orders and their order_items, None before the insert
    released,  \* how many times the order's units were given back
    lock,      \* the transaction holding each row's lock
    task       \* what each worker is doing

vars == <<variant, product, ledger, order, released, lock, task>>

Rows == Variants \cup Orders
VariantRow == [stock : Nat, price : Nat, status : {"active", "inactive"}]

\* A validated cart: the quantity asked of each variant, 0 for one not in it.
Cart == [Variants -> Quantities \cup {0}]
Lines(cart) == {v \in Variants : cart[v] > 0}
ValidCarts == {cart \in Cart : Lines(cart) # {}}
NoItems == [v \in Variants |-> 0]

OrderRow == [status : OrderStatus, items : Cart, unit_price : [Variants -> Nat]]

\* None stands for an absent row and is no row itself.
ASSUME NoneAssumption == None \notin VariantRow /\ None \notin OrderRow

\* The state of a request.  seen: the variant rows the session has loaded;
\* listed: the lines whose product was read as active; todo: the rows still to
\* lock or to read; dirty: the variant changed in the session, not yet flushed.
Task == [pc : {"idle", "locking", "checking", "status", "releasing", "editing"},
         order : Orders \cup {None}, items : Cart,
         target : OrderStatus \cup {None}, edit : VariantRow \cup {None},
         todo : SUBSET Variants, dirty : Variants \cup {None},
         seen : [Variants -> VariantRow \cup {None}], listed : SUBSET Variants]

Idle == [pc |-> "idle", order |-> None, items |-> NoItems, target |-> None,
         edit |-> None, todo |-> {}, dirty |-> None,
         seen |-> [v \in Variants |-> None], listed |-> {}]

Init ==
    /\ \E price \in Prices :
          variant = [v \in Variants |->
                      [stock |-> OpeningStock, price |-> price, status |-> "active"]]
    /\ product = [p \in Products |-> "active"]
    /\ ledger = [v \in Variants |-> OpeningStock]
    /\ order = [o \in Orders |-> None]
    /\ released = [o \in Orders |-> 0]
    /\ lock = [r \in Rows |-> None]
    /\ task = [w \in Workers |-> Idle]

-----------------------------------------------------------------------------
(* The database: row locks, and the end of a transaction.                   *)

Free(r) == lock[r] = None

\* What is left of a lock table when a worker's transaction ends.
ReleaseLocks(w) == [r \in Rows |-> IF lock[r] = w THEN None ELSE lock[r]]

EndTransaction(w) ==
    /\ lock' = ReleaseLocks(w)
    /\ task' = [task EXCEPT ![w] = Idle]

\* The rows whose lock the worker's current statement is asking for.
Wanted(w) ==
    CASE task[w].pc = "locking" -> task[w].todo
      [] task[w].pc = "status" -> {task[w].order}
      [] task[w].pc = "releasing" /\ task[w].dirty # None -> {task[w].dirty}
      [] task[w].pc = "editing" -> task[w].todo
      [] OTHER -> {}

Blocked(w) == Wanted(w) # {} /\ \A r \in Wanted(w) : ~Free(r)

\* A set of workers each waiting only for members of the set.
Knot(D) ==
    /\ D # {}
    /\ \A w \in D : Blocked(w) /\ \A r \in Wanted(w) : lock[r] \in D

\* PostgreSQL aborts one transaction of a waits-for cycle.
DeadlockVictim(w) ==
    /\ \E D \in SUBSET Workers :
          w \in D /\ Knot(D) /\ \A E \in SUBSET D : Knot(E) => E = D
    /\ EndTransaction(w)
    /\ UNCHANGED <<variant, product, ledger, order, released>>

\* The worker dies or times out before its commit: the database rolls back.
Crash(w) ==
    /\ task[w].pc # "idle"
    /\ EndTransaction(w)
    /\ UNCHANGED <<variant, product, ledger, order, released>>

\* The bound on a run: requests stop arriving when a figure leaves it.
WithinBounds ==
    /\ \A v \in Variants :
          variant[v].stock <= MaxStock /\ ledger[v] \in (-MaxStock)..MaxStock
    /\ \A o \in Orders : released[o] <= 1

\* Mutant: the movement records the new quantity instead of the change.
DeltaAbsolute(seen, edit) == edit.stock

\* _adjust_stock: the movement records the difference from the stock read.
Delta(seen, edit) == edit.stock - seen.stock

\* Worker w is serving a request of the kind.
Serving(w, kind) ==
    CASE kind = "checkout" -> task[w].pc \in {"locking", "checking"}
      [] kind = "status" -> task[w].pc \in {"status", "releasing"}
      [] kind \in {"stock", "edit"} ->
            /\ task[w].pc = "editing"
            /\ \E v \in task[w].todo :
                  (kind = "stock") = (task[w].edit.stock # task[w].seen[v].stock)
      [] OTHER -> FALSE

\* A request of the kind reaches an idle worker.
Arrives(w, kind) ==
    /\ kind \in Traffic /\ task[w].pc = "idle" /\ WithinBounds
    /\ kind \in Alone => \A x \in Workers : task[x].pc = "idle"
    /\ \A x \in Workers, other \in Alone : ~Serving(x, other)

-----------------------------------------------------------------------------
(* create_order: POST /api/orders.                                          *)

\* An order id no transaction has taken: Orders bounds how many are placed.
Unused(o) == order[o] = None /\ \A w \in Workers : task[w].order # o

\* The request body has been validated; the locking SELECT starts.
CheckoutStart(w, o, cart) ==
    /\ Arrives(w, "checkout") /\ Unused(o)
    /\ task' = [task EXCEPT ![w] = [Idle EXCEPT !.pc = "locking", !.order = o,
                                     !.items = cart, !.todo = Lines(cart)]]
    /\ UNCHANGED <<variant, product, ledger, order, released, lock>>

\* Mutant: a plain SELECT, without FOR UPDATE.
LockVariantPlain(w, v) ==
    /\ task[w].pc = "locking" /\ v \in task[w].todo
    /\ task' = [task EXCEPT ![w].todo = @ \ {v}, ![w].seen[v] = variant[v]]
    /\ UNCHANGED <<variant, product, ledger, order, released, lock>>

\* SELECT ... FOR UPDATE has no ORDER BY: the rows are locked in any order,
\* and each is read once its lock is held.
LockVariant(w, v) ==
    /\ task[w].pc = "locking" /\ v \in task[w].todo
    /\ Free(v)
    /\ lock' = [lock EXCEPT ![v] = w]
    /\ task' = [task EXCEPT ![w].todo = @ \ {v}, ![w].seen[v] = variant[v]]
    /\ UNCHANGED <<variant, product, ledger, order, released>>

\* selectinload(ProductVariant.product): a second SELECT, which locks nothing.
LoadProducts(w) ==
    /\ task[w].pc = "locking" /\ task[w].todo = {}
    /\ task' = [task EXCEPT ![w].pc = "checking",
                            ![w].listed = {v \in Lines(task[w].items) :
                                             product[ProductOf[v]] = "active"}]
    /\ UNCHANGED <<variant, product, ledger, order, released, lock>>

\* Mutant: the stock is not compared with the quantity.
SellableUnchecked(w, v) ==
    v \in task[w].listed /\ task[w].seen[v].status = "active"

\* The line can be sold, by the rows the transaction read.
Sellable(w, v) ==
    /\ v \in task[w].listed
    /\ task[w].seen[v].status = "active"
    /\ task[w].seen[v].stock >= task[w].items[v]

\* Mutant: the error is answered without ending the transaction.
CheckoutRefuseLeak(w) ==
    /\ task[w].pc = "checking"
    /\ \E v \in Lines(task[w].items) : ~Sellable(w, v)
    /\ task' = [task EXCEPT ![w] = Idle]
    /\ UNCHANGED <<variant, product, ledger, order, released, lock>>

\* PRODUCT_UNAVAILABLE or PRODUCT_OUT_OF_STOCK: the error rolls back.
CheckoutRefuse(w) ==
    /\ task[w].pc = "checking"
    /\ \E v \in Lines(task[w].items) : ~Sellable(w, v)
    /\ EndTransaction(w)
    /\ UNCHANGED <<variant, product, ledger, order, released>>

\* The order, its lines, the new stock and the SALE movements, in one commit.
CheckoutPlace(w) ==
    LET items == task[w].items
        Sold(v) == items[v] > 0
    IN  /\ task[w].pc = "checking"
        /\ \A v \in Lines(items) : Sellable(w, v)
        /\ order' = [order EXCEPT ![task[w].order] =
               [status |-> "PAYMENT_PENDING", items |-> items,
                unit_price |-> [v \in Variants |->
                                  IF Sold(v) THEN task[w].seen[v].price ELSE 0]]]
        /\ variant' = [v \in Variants |->
               IF Sold(v)
               THEN [variant[v] EXCEPT !.stock = task[w].seen[v].stock - items[v]]
               ELSE variant[v]]
        /\ ledger' = [v \in Variants |-> ledger[v] - items[v]]
        /\ EndTransaction(w)
        /\ UNCHANGED <<product, released>>

-----------------------------------------------------------------------------
(* update_status: PATCH /api/admin/orders/<id>/status.                      *)

\* Mutant: the requested move is not checked against the table.
StatusStartUnchecked(w, o, target) ==
    /\ Arrives(w, "status")
    /\ order[o] # None /\ target # "PAID"
    /\ task' = [task EXCEPT ![w] =
          [Idle EXCEPT !.pc = "status", !.order = o, !.target = target,
                       !.items = order[o].items]]
    /\ UNCHANGED <<variant, product, ledger, order, released, lock>>

\* The order is read, without a lock, and the requested move is checked
\* against what was read; PAID is refused, and asking for the status the order
\* has changes nothing.
StatusStart(w, o, target) ==
    /\ Arrives(w, "status")
    /\ order[o] # None
    /\ can_transition(order[o].status, target) /\ target # "PAID"
    /\ task' = [task EXCEPT ![w] =
          [Idle EXCEPT !.pc = "status", !.order = o, !.target = target,
                       !.items = order[o].items]]
    /\ UNCHANGED <<variant, product, ledger, order, released, lock>>

\* Any other target writes the one row and commits.
StatusCommit(w) ==
    /\ task[w].pc = "status" /\ task[w].target # "CANCELLED"
    /\ Free(task[w].order)
    /\ order' = [order EXCEPT ![task[w].order].status = task[w].target]
    /\ EndTransaction(w)
    /\ UNCHANGED <<variant, product, ledger, released>>

\* _release_inventory: its first session.get flushes the order's new status,
\* which takes the lock of the order's row.
CancelFlush(w) ==
    /\ task[w].pc = "status" /\ task[w].target = "CANCELLED"
    /\ Free(task[w].order)
    /\ lock' = [lock EXCEPT ![task[w].order] = w]
    /\ task' = [task EXCEPT ![w].pc = "releasing",
                            ![w].todo = Lines(task[w].items)]
    /\ UNCHANGED <<variant, product, ledger, order, released>>

\* session.get reads the next line's variant without a lock; the units are
\* added to what was read.
ReleaseRead(w, v) ==
    /\ task[w].pc = "releasing" /\ task[w].dirty = None
    /\ v \in task[w].todo
    /\ task' = [task EXCEPT ![w].todo = @ \ {v}, ![w].dirty = v,
                            ![w].seen[v] = variant[v]]
    /\ UNCHANGED <<variant, product, ledger, order, released, lock>>

\* The next session.get, or the commit, flushes that UPDATE.
ReleaseFlush(w) ==
    /\ task[w].pc = "releasing" /\ task[w].dirty # None
    /\ Free(task[w].dirty)
    /\ lock' = [lock EXCEPT ![task[w].dirty] = w]
    /\ task' = [task EXCEPT ![w].dirty = None]
    /\ UNCHANGED <<variant, product, ledger, order, released>>

CancelCommit(w) ==
    LET items == task[w].items IN
    /\ task[w].pc = "releasing" /\ task[w].dirty = None /\ task[w].todo = {}
    /\ order' = [order EXCEPT ![task[w].order].status = "CANCELLED"]
    /\ released' = [released EXCEPT ![task[w].order] = @ + 1]
    /\ variant' = [v \in Variants |->
           IF items[v] > 0
           THEN [variant[v] EXCEPT !.stock = task[w].seen[v].stock + items[v]]
           ELSE variant[v]]
    /\ ledger' = [v \in Variants |-> ledger[v] + items[v]]
    /\ EndTransaction(w)
    /\ UNCHANGED product

-----------------------------------------------------------------------------
(* The catalog: update_variant, delete_variant, update_product and          *)
(* delete_product.                                                          *)

\* The variant is read without a lock; edit is the row as the request wants it.
EditStart(w, v, edit) ==
    /\ edit.stock # variant[v].stock => Arrives(w, "stock")
    /\ [edit EXCEPT !.stock = variant[v].stock] # variant[v] => Arrives(w, "edit")
    /\ edit # variant[v]
    /\ task' = [task EXCEPT ![w] =
          [Idle EXCEPT !.pc = "editing", !.todo = {v}, !.edit = edit,
                       !.seen = [Idle.seen EXCEPT ![v] = variant[v]]]]
    /\ UNCHANGED <<variant, product, ledger, order, released, lock>>

\* The UPDATE sets the columns that differ from what was read.
EditCommit(w, v) ==
    LET seen == task[w].seen[v]
        edit == task[w].edit
    IN  /\ task[w].pc = "editing" /\ v \in task[w].todo
        /\ Free(v)
        /\ variant' = [variant EXCEPT
               ![v].stock = IF edit.stock # seen.stock THEN edit.stock ELSE @,
               ![v].price = IF edit.price # seen.price THEN edit.price ELSE @,
               ![v].status = IF edit.status # seen.status THEN edit.status ELSE @]
        /\ ledger' = [ledger EXCEPT ![v] = @ + Delta(seen, edit)]
        /\ EndTransaction(w)
        /\ UNCHANGED <<product, order, released>>

\* Archiving a product, or putting it back on sale: one UPDATE of its own row.
ProductStatus(w, p, status) ==
    /\ Arrives(w, "product") /\ status # product[p]
    /\ product' = [product EXCEPT ![p] = status]
    /\ UNCHANGED <<variant, ledger, order, released, lock, task>>

-----------------------------------------------------------------------------

\* The rows an admin may ask for.
Edits == [stock : Stocks \cup {variant[v].stock : v \in Variants},
          price : Prices, status : {"active", "inactive"}]

\* The next step of the request a worker is serving.
Step(w) ==
    \/ \E v \in Variants : LockVariant(w, v)
    \/ LoadProducts(w) \/ CheckoutRefuse(w) \/ CheckoutPlace(w)
    \/ StatusCommit(w) \/ CancelFlush(w)
    \/ \E v \in Variants : ReleaseRead(w, v)
    \/ ReleaseFlush(w) \/ CancelCommit(w)
    \/ \E v \in Variants : EditCommit(w, v)

Arrival(w) ==
    \/ \E o \in Orders, cart \in ValidCarts : CheckoutStart(w, o, cart)
    \/ \E o \in Orders, target \in OrderStatus : StatusStart(w, o, target)
    \/ \E v \in Variants, edit \in Edits : EditStart(w, v, edit)
    \/ \E p \in Products, status \in {"active", "archived"} :
          ProductStatus(w, p, status)

\* Every request has been served: the shop waits, perhaps for ever.
Quiet == (\A w \in Workers : task[w].pc = "idle") /\ UNCHANGED vars

Next ==
    \/ \E w \in Workers : Arrival(w) \/ Step(w) \/ DeadlockVictim(w) \/ Crash(w)
    \/ Quiet

Spec == Init /\ [][Next]_vars

\* A worker keeps executing; PostgreSQL grants a lock in the order it was asked
\* for, so a request waiting for locks that come free again and again gets them;
\* the deadlock detector runs.  Nothing makes a request arrive or a worker die.
Fairness == \A w \in Workers : SF_vars(Step(w)) /\ WF_vars(DeadlockVictim(w))

FairSpec == Spec /\ Fairness

-----------------------------------------------------------------------------
(* What the component promises.                                             *)

\* The tables and the requests keep their shape; in particular no commit meets
\* ck_variants_stock_non_negative.
TypeOK ==
    /\ variant \in [Variants -> VariantRow]
    /\ product \in [Products -> {"active", "archived"}]
    /\ ledger \in [Variants -> Int]
    /\ order \in [Orders -> OrderRow \cup {None}]
    /\ released \in [Orders -> Nat]
    /\ lock \in [Rows -> Workers \cup {None}]
    /\ task \in [Workers -> Task]

\* "The movements still sum to the quantity on hand": the ledger explains the
\* stock of every variant (_release_inventory, _adjust_stock, create_variant).
LedgerMatchesStock == \A v \in Variants : variant[v].stock = ledger[v]

\* Business rule 1: no variant ever has more units leave the shop than its
\* movements ever put into it.
NeverOversold == \A v \in Variants : ledger[v] >= 0

\* A cancelled order's units are back exactly once, and only a cancelled
\* order's are (business rule 6).
ReleasedOnce ==
    \A o \in Orders : released[o] =
        IF order[o] # None /\ order[o].status = "CANCELLED" THEN 1 ELSE 0

\* A checkout past its locking SELECT holds the current rows: the stock it
\* checks and the price it charges cannot move under it.
LockedReadsCurrent ==
    \A w \in Workers : task[w].pc = "checking" =>
        \A v \in Lines(task[w].items) :
            lock[v] = w /\ task[w].seen[v] = variant[v]

\* Placing an order takes units that are on hand, of variants on sale at that
\* moment, at the price in force at that moment (business rules 1 and 2).
SoldFromTheShelf ==
    [][\A o \in Orders : order[o] = None /\ order'[o] # None =>
         \A v \in Lines(order'[o].items) :
             /\ variant[v].status = "active"
             /\ variant[v].stock >= order'[o].items[v]
             /\ variant'[v].stock = variant[v].stock - order'[o].items[v]
             /\ order'[o].unit_price[v] = variant[v].price]_vars

\* Every request ends, whatever locks it meets: answered, refused, or rolled
\* back as the victim of a deadlock.
EveryRequestEnds ==
    \A w \in Workers : task[w].pc # "idle" ~> task[w].pc = "idle"

\* The requests take effect one at a time, as if each ran alone.
Shelf == INSTANCE Shelf

Atomic == Shelf!Spec
=============================================================================
