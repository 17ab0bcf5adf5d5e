# kingdom-server, specified

TLA+ specifications of the Kingdom storefront server (`src/app`): a Flask
application served by gunicorn threads over one PostgreSQL database, with
M-Pesa payments through Safaricom's Daraja API. The modules model the parts of
it whose correctness depends on what happens *between* requests: stock under
concurrent checkouts and admin edits; the life of an order from "Pay" to a
recorded payment; sign-in, lockout, tokens and their revocation; the rate
limiter and the two caches of a process; and the catalog under concurrent
admins. TLC checks small instances; TLAPS proves every safety property of
the passing runs, for every number of orders, variants, pushes, accounts and threads.

    tlc -workers 2 -config InvQuiet.cfg MCInventory     # one run
    tlapm InventoryProofs.tla                           # one proof module

`PROJECT.json` lists the runs with their properties, the mutation of the model
each property is known to catch, the source lines behind every definition, the
hazards and the theorems.

## 1. The system

A request is one thread of one gunicorn worker process (`gunicorn.conf.py`: two
processes of four threads) running one SQLAlchemy session, that is one
PostgreSQL transaction at READ COMMITTED. Requests share nothing but the
database's rows, two small per-process caches, and Safaricom. Every component
below therefore interacts with the others through rows: orders are inserted by
the checkout and moved by the admin, by the pay endpoint and by the callback;
stock is written by the checkout, by cancellation and by the catalog admin.

| component | state | operations | what makes it correct |
|---|---|---|---|
| Stock and its ledger (`models/catalog.py`, `models/inventory.py`, writers in `checkout.py`, `admin_orders.py`, `admin_catalog.py`) | `product_variants`, `inventory_movements` | sale, release on cancellation, stock adjustment, price and status edits, archiving | movements sum to the stock; no unit sold twice; units of a cancelled order return once |
| Checkout (`blueprints/checkout.py`) | `orders`, `order_items` | `create_order`, confirmation page | all or nothing; units on hand, at the price in force |
| Order lifecycle (`models/order.py`, `admin_orders.update_status`) | `orders.status`, `paid_at` | the moves of `ORDER_TRANSITIONS` | only legal moves; PAID only through a payment; CANCELLED is terminal |
| Payments (`services/payments.py`, `blueprints/payments.py`) | `payments` | `initiate`, `apply_callback`, simulator, polling | one prompt the server knows of at a time; a row says what Safaricom said; an order is paid iff it was |
| Daraja client (`services/mpesa.py`) | access-token cache, behind a lock | `stk_push`, `parse_callback`, `access_token` | a token is used only while valid; amounts are compared as reported |
| Sign-in and accounts (`models/base.py`, `customer.py`, `admin.py`, `account.py`, `admin_auth.py`, `admin_customers.py`, `cli.create-admin`) | failure count, `locked_until`, `is_active`, `orders.customer_id` | register, login, claim an order, activate and deactivate | lockout after N failures; an order is claimed by one customer; a deactivated account is refused |
| Tokens (`authz.py`, `jwt_callbacks.py`, `models/token.py`, `cli.prune-security-tables`) | `token_blocklist` | issue, refresh, log out, check, prune | a revoked token never works again, pruning included; an actor uses its own routes |
| Rate limiter (`services/rate_limit.py`) | `rate_limit_counters`, on its own connection | `hit`, `reset`, prune | at most the limit is served per window; counts survive rollbacks; fails open |
| Catalog administration (`admin_catalog.py`) | categories, products, images, variants | create, edit, archive, delete | rows keep what they refer to; one primary image; a sale price below the base price; unique slugs; nothing ordered is deleted |
| Storefront catalog (`blueprints/catalog.py`) | facet cache per process, behind a lock | listings, `_facets` | bounded; never older than its time to live |
| Development data (`cli.seed-dev`) | the same tables | reset, insert what is missing, sample orders | the data is whole or absent; the keys hold whatever admins do meanwhile |
| Audit log, validation, serialisation, media, middleware, configuration | audit rows only | | no state the others depend on |

The behaviours that are hard to test, each at its line, are the `hazards` of
`PROJECT.json`. The main families:

- **Reads that are not locked.** Only `create_order` uses `SELECT ... FOR UPDATE`.
  Everything else reads, decides, and writes an absolute value at the commit, so
  whatever was committed in between is overwritten.
- **Locks without an order.** The locking SELECT has no `ORDER BY`, and a
  cancellation locks rows line by line: transactions can wait for each other.
- **Messages.** A callback can be lost, repeated, delayed beyond the next attempt,
  or overtake the commit of the row it names; Daraja's answer to a push can be lost
  although the handset was prompted.
- **Time.** The limiter, both caches, the lockout and the tokens read the clock in
  one step and act on the reading later: a window closes, an entry or a token
  lapses, a blocklist row is pruned in between.
- **Decisions long before the commit.** The catalog's handlers count references and
  look slugs up, then write; what refers to a row may appear in between, and only
  the constraints of the database have the last word.
- **Failures between steps.** A worker dies, or the database fails, while a push
  is out or a callback is being applied; every callback is answered 200, so a
  failed one does not come again.

## 2. Modules

| module | what it is |
|---|---|
| `OrderStates` | the status tables of orders and payments, `can_transition`, `OPEN_STATUSES`, the results Daraja reports |
| `Inventory` | the stock tables under concurrent requests, one action per database step |
| `Shelf` | what `Inventory` promises: requests that happen at once |
| `Payments` | pay requests, Safaricom, callbacks and the admin's status changes |
| `OrderLifecycle` | what `Payments` promises of an order |
| `Clock` | what the time-dependent parts share: the clock, the threads, the load |
| `RateLimiter` | the windows of `rate_limit_counters`, their locks and pruning |
| `FacetCache` | the filter options of listings, cached per process |
| `TokenCache` | Safaricom's bearer token, cached per process |
| `Accounts` | rows of admins and customers, lockout, tokens, the blocklist, claims of orders |
| `Catalog` | categories, products, variants, images, what orders and movements refer to |
| `MCInventory`, `MCPayments`, `MCClock`, `MCCatalog` | the instances TLC checks; `MCClock` composes the four modules over `Clock` |
| `InventoryProofs`, `ShelfProofs` | theorems about stock |
| `PaymentsProofs`, `PaymentsSerialProofs` | theorems about payments: with any overlap of requests, and where those about one order do not overlap |
| `AccountsProofs`, `SessionsProofs` | theorems about accounts and tokens |
| `ClockProofs` | theorems about the limiter, the two caches and the composition in `MCClock` |
| `CatalogProofs` | theorems about the catalog |

### The database

`Inventory` and `Payments` treat the database alike. The tables are variables and hold
what is *committed*; a request's session (the rows it has read, what it has
changed but not committed) is in `task[w]`; row locks are in `lock`. `Accounts`
and `Catalog` are coarser in one respect: a request that holds no lock across a
later read makes its flush and its commit one step. A plain
SELECT is a read of the tables. `FOR UPDATE`, and the UPDATE that a flush emits,
need the row's lock and wait for its holder. The tables change only in commit
actions, and `EndTransaction` drops the locks. The ORM's UPDATE sets the columns
that the session saw change, to absolute values, which is why `CheckoutPlace`,
`CancelCommit` and `EditCommit` write `seen` plus or minus a quantity, not the
current stock. Autoflush is where it is in the code: the first query after a
change emits the UPDATE, so `CancelFlush` locks the order row before any variant
is read, and `PayInsert` locks a reopened order before it looks at the payments.

### `Inventory`

| code | actions |
|---|---|
| `create_order` | `CheckoutStart` (cart parsed), `LockVariant` per row in any order, `LoadProducts` (the unlocked second SELECT of `selectinload`), `CheckoutRefuse`, `CheckoutPlace` |
| `update_status`, `_release_inventory` | `StatusStart`, `StatusCommit`; for CANCELLED `CancelFlush`, then `ReleaseRead`/`ReleaseFlush` per line, `CancelCommit` |
| `update_variant`, `delete_variant` (of an ordered variant: deactivation), `_adjust_stock` | `EditStart`, `EditCommit` |
| `update_product`, `delete_product` (archiving) | `ProductStatus` |
| PostgreSQL, gunicorn | `DeadlockVictim`, `Crash` |

`ledger[v]` is the sum of the movements of `v` and `released[o]` counts the
committed releases of `o`'s units. Every order is placed with at least one line;
`Orders` bounds how many. `create_order`'s totals, numbers and tokens are not in
the state. `PAID` is refused as an admin's target, as in the code.

`Traffic` says which requests arrive, `Alone` which of them the shop makes only
while no other request is served. With `Alone = {}` everything interleaves with
everything.

### `Payments`

| code | actions |
|---|---|
| `pay`, `initiate` | `PayStart` (unlocked read of the order), `PayRefuse` / `PayInsert` (`open_payment_for`), `PushAccepted` / `PushFailed`, `PayCommit` / `PayFail` |
| `_schedule_simulated_callback` | `PaySimulated`: commit, then a callback that reports "paid" |
| Safaricom and the network | `Handset`, `Resend`, `Lose` |
| `mpesa_callback`, `apply_callback` | `CallbackIgnored`, `CallbackMatch`, `CallbackReadOrder`, `CallbackCommit`, `CallbackError` |
| `update_status` | `AdminStart`, `AdminCommit` |
| a worker killed or restarted | `Crash` |

A pay request keeps its transaction open across the call to Daraja: the push is
on the handset before its row is committed, the root of several hazards.
`push[p]` is Safaricom's own record of push `p` and `wire[p]` the number of its
callbacks under way. `known` says whether the row carries the
`CheckoutRequestID` a callback is matched by. Amounts matter in one way, so the
result of a push is "paid" (ResultCode 0 and the amount asked for), "short"
(ResultCode 0, another amount) or one of the failures. `Faults` says which of
the environment's faults may happen.

### `RateLimiter`, `FacetCache`, `TokenCache`

| code | actions |
|---|---|
| `limit`, `hit` | `HitStart` (the clock is read), `Upsert` (takes the row's lock), `HitCommit` (deletes the bucket's closed windows, waits for their locks, commits, answers), `HitError` (rollback; the request passes uncounted) |
| `prune-security-tables` | `PruneCounters`, and `PruneTokens` of `Accounts` |
| `list_products`, `_facets`, `_compute_facets` | `FacetsStart`, `FacetsHit` / `FacetsMiss`, `ComputeOptions`, `ComputePrices` (two SELECTs), `FacetsStore`, `FacetsError` |
| a commit of the catalog admin | `CatalogChange` |
| `stk_push`, `access_token` | `TokenStart`, `TokenReuse` / `TokenMiss`, `TokenIssued` / `TokenFailed`, `TokenKeep`, `TokenUsed` |

A listing's facets are, in the state, the number of catalog changes each of the two
SELECTs saw. `Trimmed` drops the oldest entries and leaves open which of two of
one age goes. `passed` counts the requests that were counted and let through.

### `Accounts`

| code | actions |
|---|---|
| `register`, `create-admin` | `RegisterStart`, `RegisterCommit`; `CreateAdmin` |
| both `login` handlers | `LoginStart` (the row is read, the lock looked at), `LoginWrong`, `LoginInactive`, `LoginDone` |
| `jwt_required`, `is_revoked`, `require_actor`, the guards of `authz.py` | `Decode`, `Verify` / `Refuse`, `LoadAccount` |
| `refresh`, `logout` | `Refresh`, `Logout` |
| `claim_order`, `update_customer` | `ClaimRead`, `ClaimCommit`; `ActivationRead`, `ActivationCommit` |
| a killed thread, a failed database | `SessionCrash` |

A token's `jti` is its place in `issued`; it carries, as history, whose password
began its session and when. Reading the token, asking the blocklist and
loading the account are three steps, as they are in the code; a token may expire, be
revoked or be pruned between them. A password is right or wrong.

### `Catalog`

| code | actions |
|---|---|
| categories | `CategoryCreate`/`CategoryInsert`, `CategoryUpdate`/`CategoryWrite`, `CategoryDelete`/`CategoryRemove` |
| products | `ProductCreate`/`ProductInsert`, `ProductUpdateRead`/`ProductWrite`, `ProductArchiveRead`/`ProductArchive`, `ProductDelete`/`ProductRemove` |
| variants | `VariantCreate`/`VariantInsert`, `VariantUpdateRead`, `VariantDelete` (deactivates an ordered one), `VariantWrite`, `VariantRemove` |
| `create_order`, of a variant | `OrderLock`, `OrderPlace` |
| images | `ImageCreate`, `ImageCreateFlush`, `ImageInsert`; `ImageUpdateRead`, `ImageUpdateFlush`, `ImageWrite`; `ImageDelete`, `ImageDeleteFlush`, `ImageRemove` |
| `seed-dev` | `SeedReset` (`--reset`), `SeedStart` (the look-ups), `SeedInsert`, `SeedOrders` |
| failures | `Crash` |

The first action of a pair is everything the handler reads and checks, the second
its write and commit, where foreign keys and unique indexes decide. Images have
a third, because the image itself is flushed before the other primaries, or the
replacement, are read. The UPDATE sets the columns named by the request whose
value differs from the row as it was read (`Applied`). An id, once `Gone`, is
not used again. Which remaining image has the lowest position is left open.

## 3. Runs

Each property has a mutation of the model (a dropped guard, an unlocked read, a
missing reset) under which TLC refutes it with the same configuration.

| run | instance | what it shows |
|---|---|---|
| `InvQuiet` | 3 workers, 2 variants of 1 product, 2 orders, stock 0..2, all traffic, admins restock alone | `LedgerMatchesStock`, `NeverOversold`, `ReleasedOnce`, and that the handlers implement `Shelf` (`Atomic`) |
| `InvTraffic` | 2 workers, 1 variant, 2 orders, 2 prices, all traffic at once | `TypeOK` (with the CHECK that stock is not negative), `LockedReadsCurrent`, `SoldFromTheShelf` |
| `InvLiveness` | 2 workers, 2 variants, 2 orders, checkouts and status changes, fair | `EveryRequestEnds`, through deadlocks |
| `InvLostCancel` | 2 workers, 1 variant, 2 orders | refuted: a cancellation overwrites a concurrent sale |
| `PayTraffic` | 2 workers, 1 order, 2 pushes, every status an admin may ask for, all faults | `TypeOK`, `PaidMeansCharged`, `RecordedResult` |
| `PaySerial` | 1 worker, 2 orders, 3 pushes (1 simulated), all faults but repeats | `OneKnownPrompt`, `KnownPayerNotPrompted`, `ReleasedOnce`, `FollowsLifecycle` |
| `PayLiveness` | 2 workers, 1 order, 2 pushes, rejected pushes, fair | `ResultsRecorded`, `PromptsEnd` |
| `PayRepeat` | 1 worker, 1 order, 2 pushes, repeats | refuted: a repeated callback moves an order |
| `PayTwice` | 2 workers, 1 order, 2 pushes | refuted: two taps, two prompts |
| `ClockTraffic` | 2 threads, 4 instants; windows, times to live and lockout of 2, 1 request a window; 1 admin, 1 customer of the same id, 1 id to register, 1 guest order; bearer tokens that live 0, 1 or 3 | `AllowanceKept`; `ChangeWithinTheMinute`, `CacheBounded`; `ReusedTokenHasMargin`; `SessionsAreEarned`, `SessionsEnd`, `RevokedStaysOut`, `GuessesAreSlow`, `ClaimsStick` |
| `CatTraffic` | 2 workers, 2 categories, products, variants, options, slugs and prices, 4 images | `KeysHold`, `OrderedKept`, `SaleBelowBase`, `OnePrimary`, `PrimaryKept` |
| `CatDelete` | the same, variants and orders only | refuted: a variant that was stocked and never sold cannot be deleted |

**Bounds.** The hazards are conflicts between two requests, so two workers already
show each of them; the third in `InvQuiet` lets a request start while two others
hold and wait for locks. Two variants are what a deadlock and a partly
reserved cart need; two orders let one be cancelled while the other is placed,
with one unit to fight over. Two pushes are an attempt and a retry, one repeat of a callback is
the shortest unreliable delivery. `MaxStock`, `MaxResends`, `PushesLeft` and
`MaxReleases` only stop an environment that could go on for ever; the theorems
below do not depend on their values. In `ClockTraffic` four instants
are two windows, or a lockout and what follows it; the shortest token life is one
instant, so that tokens lapse between two steps of a request; three tokens are a
pair and a renewed one, and two sign-ins at once may make four; `MaxWrong` leaves room for a wrong password after a lockout.
In `CatTraffic` two of everything are what a conflict over a slug, a category or
a primary image needs; ids run out, because a deleted row's is not used again. Two
images would not show two additions to a product that has one to clear, hence four.
Both runs choose one of several loads at the start (`MCLoads`): each
brings together the requests that touch the same rows, and two requests that share
neither a row nor a clock cannot disturb each other. Workers, orders and, within a mode, pushes are
interchangeable, and so are threads, scopes of listings and the ids and options of
the catalog, so their permutations are used as symmetry, in safety runs only.

**Fairness.** A thread goes on executing the request it serves, and PostgreSQL
grants a row lock in the order it was asked for, so a request that finds the row
locked now and then still gets it: strong fairness of `Step(w)`. The deadlock
detector runs every `deadlock_timeout`: weak fairness of `DeadlockVictim`. A
callback on its way is delivered, and a prompt is answered or expires after about
a minute on Safaricom's side: fairness of `Callback` and `Handset`. No fairness is
assumed of customers, admins, crashes or faults. `PayLiveness` leaves out the
faults after which nothing can happen (a callback lost, dropped because it was
early, or failed in the database).

**What the passing runs assume, and what happens without.** Four assumptions are
about the environment and not guaranteed by the code:

- `Alone = {"status", "stock"}` in `InvQuiet`: an admin cancels an order or sets a
  stock while no other request is served. With `Alone = {}` TLC finds, in a few
  steps, the cancellation that overwrites a sale (`InvLostCancel`), two stock
  edits whose movements do not add up, two admins who cancel one order
  and return its units twice, and a stock edit that puts a sold unit back on sale
  (`NeverOversold` fails). All come from `_release_inventory`, `_adjust_stock`
  and `update_status` reading without a lock. `InvTraffic` keeps `Alone = {}`: what
  a checkout itself takes and charges survives any traffic.
- `PaySerial` serves one request at a time, has no repeated callbacks, and its
  admins do not set PAYMENT_FAILED. With two workers a status decided on an
  unlocked read takes an order out of CANCELLED, and two prompts go out
  (`PayTwice`); with repeats an order is knocked back (`PayRepeat`). With
  "early" among the faults of `PayLiveness` a callback that overtakes the commit
  is dropped and its payment stays PENDING, which locks the customer out.
  `PayTraffic` has none of these restrictions: `PaidMeansCharged` does not need them.

- `Serial = {"login", "claim", "prune"}` in `ClockTraffic`. Without "claim" two
  customers who hold one confirmation token claim its order at once and the last
  commit wins, although `claim_order` means to refuse rather than reassign.
  Without "login" concurrent wrong passwords each add one to the count they read, so
  the lockout counts fewer than were made, and a slow one may even lower the count.
  Without "prune" a request stalled between `jwt_required` and the blocklist look-up
  across the expiry of its token passes, if the job has deleted the row by then.
- `Serial = {"product", "image"}` in `CatTraffic`. Without "product" two edits, one of each
  price of a product, are each valid alone and leave a sale price above the base price. Without
  "image" two requests leave a product with two primary images, or with none. Even alone
  an admin who unsets `is_primary`, or adds the first image with it unset, leaves none:
  `PrimaryKept` says that nothing else does, `_clear_other_primaries` and
  `delete_image` included.

**What the properties do not say.** `AllowanceKept` bounds the requests that were
counted: the limiter fails open by design. After a window has closed its row may be pruned, so
requests that read the clock inside it and are slow to count start again from one;
the property grants one each. `ReusedTokenHasMargin` grants a token whose
lifetime is shorter than the floor of 30 seconds what the code grants it, its use past
its lapse; `TokenIssued` leaves out the 3599 s `access_token` assumes when Daraja's answer
has no usable `expires_in` (`mpesa.py:190-193`). `OneKnownPrompt` and `KnownPayerNotPrompted` speak of the prompts
the server knows. When the answer of `stk_push` is lost its row is committed FAILED, and when the
request dies there is no row: the handset may show a prompt either way, the order stays payable, and
the customer may be prompted, and pay, once more. Both faults occur in `PaySerial`; the
code has no means to exclude the second prompt, so no property does. No handler
deactivates an admin, so `LoginInactive` stands for an admin deactivated in the database and
never concerns one in `ClockTraffic`. All machines have one clock. An order linked to an account at checkout
(`current_customer`) is not one of `Orders`, which are the guest orders.

**Findings.** The four refuted properties are statements of the code's own
comments, docstrings and tests; `PROJECT.json` quotes them with their lines.

## 4. Proofs

The theorems hold for all values of the constants that satisfy the modules'
named assumptions (`InventoryAssumption`, `PaymentsAssumption`, which only give the
constants their types, and `NoneAssumption`; those of the later modules are listed below).

- `InventoryProofs`. `IInv` is `TypeOK`, `TaskInv` (a request carries what its
  handler uses next) and `LockInv`: a checkout holds every row it has read, the
  row is as it read it, and a cancellation holds every row it has flushed.
  `LockInv` is what makes the properties inductive: that stock never goes negative
  follows because the stock `CheckoutPlace` subtracts from is the stock
  `Sellable` compared. It gives `TypeCorrect`, `ReadsCurrent` and, as an action property,
  `SellsFromTheShelf`, under every interleaving.
- `ShelfProofs`, under `RestockingAlone` (the condition of `InvQuiet`, stated over
  the constants). `SerialInv` adds to `IInv` that a restocking request is the only
  one served (`AloneInv`), so what it read is still current (`FreshInv`), that
  checkouts reserve different orders (`ReservedInv`), and the two ledger properties.
  It gives `LedgerKept`, `NothingOversold`, `GivenBackOnce` and the refinement
  `ImplementsShelf`: initial states map to initial states of `Shelf`, each commit
  to one of its steps, and every other step to a stutter.
- `PaymentsProofs`. `IInv` is `TypeOK`, `RequestInv` (what each stage of a handler
  relies on, in particular that an admin's move into a paid status started from
  one), `OwnRowInv` (no two requests insert one row), `WireInv` (a callback reports
  a decision), `RecordInv` (a touched row holds the outcome of its push) and
  `PaidMeansCharged` itself. The argument is that a recorded payment in full is
  never taken back (`SettledStays`), so a status written over another can be wrong
  in many ways but never say "paid" without money. It gives `TypeCorrect`,
  `PaidOnlyIfCharged` and `RecordsResult` with any number of workers and all faults.
- `PaymentsSerialProofs`. No lock keeps two requests about one order apart, so these
  theorems carry a condition on the behaviour, `[]OrdersApart`: requests about the *same*
  order do not overlap. Requests about different orders may, with any number of workers,
  and Safaricom, the network and crashes do as they like. `AloneInv` adds to `IInv` that a
  request's reading of its order still holds, that a sending request found no open payment,
  and that a row without its `CheckoutRequestID` is a failed one. It gives
  `OnePromptAtATime`, `ReleasesOnce` and the refinement `OrdersFollowLifecycle`, in which only
  the commits show. `KnownPayersNotPrompted` also assumes `NoSurprises` (no callback is repeated,
  no admin sets PAYMENT_FAILED). It covers every push whose `CheckoutRequestID` is in its row,
  its callback early, lost or failed included: such a row is recorded and has moved its order
  out of the payable statuses (`FreshInv`, how far each push's one callback has come), where a
  request that asks for money has read it to be payable (`AskingInv`), or it is still open,
  where a request that sends found no open payment (`AloneInv`). `PayRepeat` and `PayTwice` show that the first condition and `OrdersApart`
  are needed. `OneWorkerSuffices` discharges `OrdersApart` for the one worker of `PaySerial`.
- `ClockProofs`, for the parts over the clock. `KeptInv`: a kept token is used until, at the
  latest, its lapse less the margin, or the floor after it was asked for; the reading of the
  clock that `TokenKeep` counts from is older than the token, which is why a slow fetch does
  no harm (`ReuseIsSafe`). `DatedInv` dates every cache entry and every computation under way:
  what was committed before its stamp it has seen. `FacetsStore` keeps that because the
  stamp is the time read *before* the SELECTs, trimming because it only removes
  (`ChangesReach`; `CacheStaysBounded` from the cardinality of what `Trimmed` leaves).
  `LimiterInv`: a call that has counted holds the lock of its row and knows its count
  (`CountingInv`), so the row of an open window has counted all that passed (`OpenInv`); once
  the window is closed its row may go, but the calls that read the clock in it are a fixed
  set that only shrinks, and each passes at most once (`ClosedInv`). It gives
  `AllowanceIsKept`. `PartsApart` proves that `MCClock`'s composition implements the
  specification of each part, so every theorem about one holds of all of them
  together; `ClockworkTypeCorrect` is one.
- `AccountsProofs`. `AccountInv` is the types, `TokenOK` (a token's person is the one
  who gave the password; a refresh token does not outlive a refresh token's life
  from then) and `RequestOK`: what a request relies on at each stage, in particular
  that a decoded token agrees with the route's person on the id and a verified one on the
  actor too. That is what a refresh needs to name the right person. It gives
  `SessionsEarned` and `SessionsExpire` with no assumption on the traffic.
- `SessionsProofs` strengthens `AccountInv` three times, each under the
  condition of `ClockTraffic` it needs, stated as membership of `Serial`. `ClaimInv`: one
  claim at a time, and one about to commit holds the order's owner as it is, so
  `ClaimsKept`. `RevokedInv`: a revoked token that the blocklist has lost is expired and no
  request that has still to ask carries it, so `RevokedIsRefused`. `GuessInv`: the failure count is
  the wrong passwords in a row, from `MaxFailed` on the lock runs a lockout from the last, and
  the sign-in under way holds both as they are, so `GuessingIsSlow`.

- `CatalogProofs`. Here nothing is locked while a handler decides, so `CatalogInv` says nothing
  of what was decided. It is the types of the tables and of what each handler carries
  (`Tables`, `Requests`), what the locks of a flushed request keep from being deleted
  (`Locks`), that no two requests have flushed one image (`Apart`), `KeysHold`, and that what
  was ordered is there. Each commit is then judged by what it checks itself: the foreign keys
  and unique indexes of the database. That is why `KeysAreKept` and `OrdersKeepVariants` hold under
  every interleaving. `PriceInv` and `PhotoInv` are for what no constraint
  protects, under the condition of `CatTraffic` stated as membership of `Serial`: with
  products edited one at a time, the row an edit was checked against is the row it changes,
  unless it was deleted (`FreshPrices`, whence `SalesStayBelow`); with images edited one at
  a time, the other primaries a request has found are all there are, and the image chosen
  to succeed a deleted primary is still there (`FreshImage`, whence `OnePrimaryEach`
  and the action property `PrimaryIsKept`). Deletions of products, orders and the loading of
  development data interleave freely with both.

The assumptions of these modules (`ClockAssumption`, `TokenAssumption`, `FacetAssumption`,
`AccountAssumption`, `AccountNoneAssumption`, `CatalogAssumption`, `RowAssumption`) type
their constants, make the threads of a process finitely many, and keep `None`, `Gone` and
`MISSING` apart from ids, rows and values.

Only model-checked are the liveness properties: `EveryRequestEnds`, `ResultsRecorded` and
`PromptsEnd` need fairness and ENABLED, which are beyond this prover. The four refuted
properties have, of course, no theorem. `ledger` is a running sum, so no
induction over data is needed; such inductions and recursive operators are out of the
prover's reach too.

## 5. Not modelled

Serialisation, validation, middleware, media signatures, migrations and configuration:
pure or start-up code whose results are the inputs the actions quantify over.
M-Pesa receipts: Safaricom gives each payment its own, so the unique index never
rejects an honest callback and that branch of `apply_callback` has no step. The
audit log: written in the same commit as the change it describes, read by no
handler. (`_clear_other_primaries` and the replacement in `delete_image` write no row
for the other images they change.) Totals, fees, order numbers and confirmation
tokens, and the conversions of `parse_callback`: see below. Read-only endpoints need no
action, except the listing, which fills a cache. SQLite, which the tests use,
serialises writers; the models are of PostgreSQL, which the server runs on.

Of the modelled parts: profile edits, `last_login_at`, password hashing, roles of
admins, `rate_limit.reset` (nothing calls it), more than one limit at a time; names,
SKUs, positions and sources of the catalog, and the prices of variants (those
are in `Inventory`). `seed-dev` is modelled as far as rows and references go: the SKUs it
generates, which fail a second run after a product's slug was edited, and the stock it
seeds, which gets no movement of its own, are left out.

## 6. Plan

Done: stock, payments, what depends on the clock, the catalog, and the theorems of §4,
which cover every safety property of the passing runs. Next, in this order:

1. Pure functions as operators: the amount a push asks for (rounded up), the one
   `parse_callback` compares (truncated), order totals and delivery fee, checked against
   reference definitions over bounded inputs, with lemmas for what needs no induction.
2. Orders linked to a signed-in customer at checkout, in `Accounts`; the stock of the
   development data, in `Inventory`.
