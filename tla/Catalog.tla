------------------------------ MODULE Catalog ------------------------------
(***************************************************************************)
(* The catalog under concurrent admins (blueprints/admin_catalog.py):      *)
(* categories, products, variants and images, what they refer to, and the  *)
(* order lines and stock movements that refer to them (models/catalog.py,  *)
(* order.py, inventory.py).  Checkouts are there as far as they lock a     *)
(* variant and refer to it; module Inventory has the rest of them.         *)
(*                                                                         *)
(* A request reads rows without locks, decides, and writes the columns it  *)
(* changed at the commit, where the database enforces foreign keys and     *)
(* unique indexes.  A failed constraint answers 409 and an UPDATE of a row *)
(* that is gone answers 500: both roll everything back.  Names, prices of  *)
(* variants, positions and sources of images are not in the state.         *)
(***************************************************************************)
EXTENDS Integers, FiniteSets, Functions

CONSTANTS
    Workers,     \* the threads that serve requests
    Categories, Products, Variants, Images,   \* the ids rows may get: bounds
    MaxSlug,     \* slugs are numbers: 1 a generated stem, then its suffixes
    MaxPrice,    \* a bound on the prices asked for
    Options,     \* the sizes and colours of variants
    Seeded,      \* the slugs of the development data: of products, each in the
                 \* category of that slug
    Loads,       \* the loads to consider: what requests arrive together
    Serial,      \* the kinds of request the admins make one at a time
    None,        \* an id not used yet, an absent value
    Gone,        \* a deleted row; its id is never used again
    MISSING      \* a field a request does not name

ASSUME CatalogAssumption ==
    /\ MaxSlug \in Nat \ {0} /\ MaxPrice \in Nat \ {0}
    /\ Options # {} /\ Seeded \subseteq 1..MaxSlug
    /\ None # Gone /\ MISSING \notin BOOLEAN
    /\ None \notin Categories \cup Products \cup Variants \cup Images

Slugs == 1..MaxSlug
Prices == 0..MaxPrice
ProductStatus == {"draft", "active", "archived"}
VariantStatus == {"active", "inactive"}

VARIABLES
    category, product, variant, image,   \* the tables
    ordered,     \* the variants that order lines refer to
    load,        \* the requests that arrive
    edit         \* the request each worker is serving

catalogVars == <<category, product, variant, image, ordered, load, edit>>

CategoryRow == [slug : Slugs]
ProductRow == [category : Categories, slug : Slugs, base_price : Prices,
               sale_price : Prices \cup {None}, status : ProductStatus]
\* moved: an inventory movement refers to the variant.
VariantRow == [product : Products, option : Options, status : VariantStatus,
               moved : BOOLEAN]
ImageRow == [product : Products, is_primary : BOOLEAN]

\* The marks of ids without a row are no rows.
ASSUME RowAssumption ==
    {None, Gone} \cap (CategoryRow \cup ProductRow \cup VariantRow \cup ImageRow) = {}

\* The columns a PATCH of a product names.
ProductUpdate == [category : Categories \cup {MISSING}, slug : Slugs \cup {MISSING},
                  base_price : Prices \cup {MISSING},
                  sale_price : Prices \cup {None, MISSING},
                  status : ProductStatus \cup {MISSING}]
NoUpdate == [category |-> MISSING, slug |-> MISSING, base_price |-> MISSING,
             sale_price |-> MISSING, status |-> MISSING]
VariantUpdate == [option : Options \cup {MISSING}, status : VariantStatus \cup {MISSING},
                  moved : {TRUE, MISSING}]

\* A request: the handler, the row it is about, that row as it was read, what
\* it asks for, and the other images it changes.  "flushed" means that it has
\* written rows which its commit has still to publish.
Idle == [pc |-> "idle", op |-> None, id |-> None, seen |-> None, to |-> None,
         others |-> {}]

Live(table) == {r \in DOMAIN table : table[r] \notin {None, Gone}}
Unused(table) == {r \in DOMAIN table : table[r] = None}

Ops == {"category.create", "category.update", "category.delete",
        "product.create", "product.update", "product.archive", "product.delete",
        "variant.create", "variant.update", "variant.deactivate", "variant.delete",
        "image.create", "image.update", "image.delete", "order", "seed", "seed.orders"}

\* The kind of request each handler serves.
Kind(op) ==
    CASE op \in {"category.create", "category.update", "category.delete"} -> "category"
      [] op \in {"product.create", "product.update", "product.archive"} -> "product"
      [] op = "product.delete" -> "purge"
      [] op \in {"variant.create", "variant.update", "variant.deactivate",
                 "variant.delete"} -> "variant"
      [] op \in {"image.create", "image.update", "image.delete"} -> "image"
      [] op = "order" -> "order"
      [] op \in {"seed", "seed.orders"} -> "seed"
      [] OTHER -> "none"

\* A request of the kind reaches an idle worker.
Reaches(w, kind) ==
    /\ kind \in load /\ edit[w].pc = "idle"
    /\ kind \in Serial => \A x \in Workers : Kind(edit[x].op) # kind

\* The handler has read what it decides on, and goes on to write.
Decided(w, op, id, seen, to) ==
    /\ edit' = [edit EXCEPT ![w] = [Idle EXCEPT !.pc = "decided", !.op = op,
                                      !.id = id, !.seen = seen, !.to = to]]
    /\ UNCHANGED <<category, product, variant, image, ordered, load>>

At(w, pc, op) == edit[w].pc = pc /\ edit[w].op = op
Answer(w) == edit' = [edit EXCEPT ![w] = Idle]

VariantsOf(p) == {v \in Live(variant) : variant[v].product = p}
ImagesOf(p) == {i \in Live(image) : image[i].product = p}

-----------------------------------------------------------------------------
(* Locks and constraints of the database.                                   *)

\* A checkout holds the lock of the variant it is buying until it commits.
VariantFree(w, v) == \A x \in Workers \ {w} : ~(At(x, "flushed", "order") /\ edit[x].id = v)

\* An image that a request has written is locked until it commits.
ImagesFree(w, is) ==
    \A x \in Workers \ {w} :
        At(x, "flushed", "image.update") \/ At(x, "flushed", "image.delete")
        => edit[x].id \notin is

\* Deleting a product waits for whoever has written a row that belongs to it,
\* the insertion of an image, which locks its product's key, included.
ProductFree(w, p) ==
    /\ \A v \in VariantsOf(p) : VariantFree(w, v)
    /\ ImagesFree(w, ImagesOf(p))
    /\ \A x \in Workers \ {w} : ~(At(x, "flushed", "image.create") /\ edit[x].id = p)

\* The unique slug of a table, as a request sees it and as the index has it.
SlugFree(table, slug, exclude) ==
    \A r \in Live(table) \ {exclude} : table[r].slug # slug

\* uq_variant_product_size_color.
OptionFree(p, option, exclude) ==
    \A v \in VariantsOf(p) \ {exclude} : variant[v].option # option

\* Mutant: order lines and movements let their variant go.
ReferencedNever(v) == FALSE

\* order_items and inventory_movements refer to variants, ON DELETE RESTRICT.
Referenced(v) == v \in ordered \/ variant[v].moved

\* Mutant: products may lose their category.
InUseNever(c) == FALSE

\* products.category_id, ON DELETE RESTRICT.
InUse(c) == \E p \in Live(product) : product[p].category = c

\* apply_changes: the columns an edit names and whose value differs from what
\* the session read; an UPDATE sets those and no other.
Changes(seen, to) == {c \in DOMAIN to : to[c] # MISSING /\ to[c] # seen[c]}

\* Mutant: a column the edit does not name is assigned too.
AppliedWhole(row, seen, to) ==
    [c \in DOMAIN row |-> IF c \in DOMAIN to THEN to[c] ELSE row[c]]

Applied(row, seen, to) ==
    [c \in DOMAIN row |-> IF c \in Changes(seen, to) THEN to[c] ELSE row[c]]

-----------------------------------------------------------------------------
(* Categories.                                                              *)

\* create_category, update_category: the slug is looked up (_require_free_slug).
CategoryCreate(w, slug) ==
    /\ Reaches(w, "category") /\ Unused(category) # {}
    /\ SlugFree(category, slug, None)
    /\ Decided(w, "category.create", None, None, [slug |-> slug])

CategoryUpdate(w, c, slug) ==
    /\ Reaches(w, "category") /\ c \in Live(category)
    /\ SlugFree(category, slug, c)
    /\ Decided(w, "category.update", c, category[c], [slug |-> slug])

\* delete_category: refused while products are counted in it.
CategoryDelete(w, c) ==
    /\ Reaches(w, "category") /\ c \in Live(category)
    /\ \A p \in Live(product) : product[p].category # c
    /\ Decided(w, "category.delete", c, category[c], None)

\* The commits.  The unique slug and the foreign key have the last word.
CategoryInsert(w, c) ==
    /\ At(w, "decided", "category.create") /\ c \in Unused(category)
    /\ category' = IF SlugFree(category, edit[w].to.slug, None)
                   THEN [category EXCEPT ![c] = edit[w].to] ELSE category
    /\ Answer(w)
    /\ UNCHANGED <<product, variant, image, ordered, load>>

CategoryWrite(w) ==
    LET c == edit[w].id
        row == Applied(category[c], edit[w].seen, edit[w].to)
    IN  /\ At(w, "decided", "category.update")
        /\ category' = IF c \in Live(category) /\ SlugFree(category, row.slug, c)
                       THEN [category EXCEPT ![c] = row] ELSE category
        /\ Answer(w)
        /\ UNCHANGED <<product, variant, image, ordered, load>>

CategoryRemove(w) ==
    LET c == edit[w].id IN
    /\ At(w, "decided", "category.delete")
    /\ category' = IF InUse(c) THEN category ELSE [category EXCEPT ![c] = Gone]
    /\ Answer(w)
    /\ UNCHANGED <<product, variant, image, ordered, load>>

-----------------------------------------------------------------------------
(* Products.                                                                *)

\* _unique_slug: the first suffix of a generated slug that is free.
UniqueSlug == CHOOSE s \in Slugs : /\ SlugFree(product, s, None)
                                   /\ \A t \in 1..(s - 1) : ~SlugFree(product, t, None)

Priced(row) == row.sale_price # None => row.sale_price < row.base_price

\* create_product.  A slug the admin typed is taken as it is or refused.
ProductCreate(w, row, typed) ==
    /\ Reaches(w, "product") /\ Unused(product) # {}
    /\ row.category \in Live(category) /\ Priced(row)
    /\ \E s \in Slugs : SlugFree(product, s, None)
    /\ IF typed THEN SlugFree(product, row.slug, None) ELSE row.slug = UniqueSlug
    /\ Decided(w, "product.create", None, None, row)

\* The INSERT: the category's key is locked and must exist, the slug be free.
ProductInsert(w, p) ==
    LET row == edit[w].to IN
    /\ At(w, "decided", "product.create") /\ p \in Unused(product)
    /\ product' = IF row.category \in Live(category) /\ SlugFree(product, row.slug, None)
                  THEN [product EXCEPT ![p] = row] ELSE product
    /\ Answer(w)
    /\ UNCHANGED <<category, variant, image, ordered, load>>

\* Mutant: the prices are compared only if the request names both.
BelowBaseNamed(row, to) == MISSING \notin {to.base_price, to.sale_price} => Priced(to)

\* The prices are compared as they will be, as far as the row read says.
BelowBase(row, to) ==
    LET effective(column) == IF to[column] = MISSING THEN row[column] ELSE to[column]
    IN  Priced([base_price |-> effective("base_price"),
                sale_price |-> effective("sale_price")])

\* update_product: the checks, all against what is read here.
ProductUpdateRead(w, p, to) ==
    /\ Reaches(w, "product") /\ p \in Live(product)
    /\ to.slug # MISSING => SlugFree(product, to.slug, p)
    /\ to.category # MISSING => to.category \in Live(category)
    /\ BelowBase(product[p], to)
    /\ Decided(w, "product.update", p, product[p], to)

\* The UPDATE of the changed columns; the row may be gone, the slug taken, the
\* category deleted.
ProductWrite(w) ==
    LET p == edit[w].id
        row == Applied(product[p], edit[w].seen, edit[w].to)
    IN  /\ At(w, "decided", "product.update")
        /\ product' = IF /\ p \in Live(product)
                         /\ SlugFree(product, row.slug, p)
                         /\ row.category \in Live(category)
                      THEN [product EXCEPT ![p] = row] ELSE product
        /\ Answer(w)
        /\ UNCHANGED <<category, variant, image, ordered, load>>

\* delete_product archives a product that is not archived yet ...
ProductArchiveRead(w, p) ==
    /\ Reaches(w, "product") /\ p \in Live(product) /\ product[p].status # "archived"
    /\ Decided(w, "product.archive", p, product[p], [status |-> "archived"])

ProductArchive(w) ==
    LET p == edit[w].id IN
    /\ At(w, "decided", "product.archive")
    /\ product' = IF p \in Live(product)
                  THEN [product EXCEPT ![p] = Applied(@, edit[w].seen, edit[w].to)]
                  ELSE product
    /\ Answer(w)
    /\ UNCHANGED <<category, variant, image, ordered, load>>

\* ... and, for a superadmin who asks, deletes one that no order line refers to.
ProductDelete(w, p) ==
    /\ Reaches(w, "purge") /\ p \in Live(product)
    /\ VariantsOf(p) \cap ordered = {}
    /\ Decided(w, "product.delete", p, product[p], None)

\* The DELETE takes the variants and images along, unless a variant is kept.
ProductRemove(w) ==
    LET p == edit[w].id
        kept == \E v \in VariantsOf(p) : Referenced(v)
    IN  /\ At(w, "decided", "product.delete") /\ ProductFree(w, p)
        /\ product' = IF kept THEN product ELSE [product EXCEPT ![p] = Gone]
        /\ variant' = [v \in Variants |->
               IF v \in VariantsOf(p) /\ ~kept THEN Gone ELSE variant[v]]
        /\ image' = [i \in Images |->
               IF i \in ImagesOf(p) /\ ~kept THEN Gone ELSE image[i]]
        /\ Answer(w)
        /\ UNCHANGED <<category, ordered, load>>

-----------------------------------------------------------------------------
(* Variants, and the checkouts that buy them.                               *)

\* create_variant, with or without opening stock, whose movement refers to it.
VariantCreate(w, row) ==
    /\ Reaches(w, "variant") /\ Unused(variant) # {}
    /\ row.product \in Live(product) /\ OptionFree(row.product, row.option, None)
    /\ Decided(w, "variant.create", None, None, row)

VariantInsert(w, v) ==
    LET row == edit[w].to IN
    /\ At(w, "decided", "variant.create") /\ v \in Unused(variant)
    /\ variant' = IF row.product \in Live(product) /\ OptionFree(row.product, row.option, None)
                  THEN [variant EXCEPT ![v] = row] ELSE variant
    /\ Answer(w)
    /\ UNCHANGED <<category, product, image, ordered, load>>

\* update_variant: nothing is checked of the size and colour it asks for.
VariantUpdateRead(w, v, to) ==
    /\ Reaches(w, "variant") /\ v \in Live(variant)
    /\ Decided(w, "variant.update", v, variant[v], to)

\* delete_variant deactivates a variant that order lines refer to.
VariantDelete(w, v) ==
    /\ Reaches(w, "variant") /\ v \in Live(variant)
    /\ IF v \in ordered
       THEN Decided(w, "variant.deactivate", v, variant[v], [status |-> "inactive"])
       ELSE Decided(w, "variant.delete", v, variant[v], None)

\* The UPDATE of either; the index refuses a size and colour there already is.
VariantWrite(w) ==
    LET v == edit[w].id
        row == Applied(variant[v], edit[w].seen, edit[w].to)
    IN  /\ At(w, "decided", "variant.update") \/ At(w, "decided", "variant.deactivate")
        /\ VariantFree(w, v)
        /\ variant' = IF v \in Live(variant) /\ OptionFree(row.product, row.option, v)
                      THEN [variant EXCEPT ![v] = row] ELSE variant
        /\ Answer(w)
        /\ UNCHANGED <<category, product, image, ordered, load>>

VariantRemove(w) ==
    LET v == edit[w].id IN
    /\ At(w, "decided", "variant.delete") /\ VariantFree(w, v)
    /\ variant' = IF v \in Live(variant) /\ Referenced(v) THEN variant
                  ELSE [variant EXCEPT ![v] = Gone]
    /\ Answer(w)
    /\ UNCHANGED <<category, product, image, ordered, load>>

\* create_order: the variant is locked and read, then its product is read.
OrderLock(w, v) ==
    /\ Reaches(w, "order") /\ v \in Live(variant) /\ VariantFree(w, v)
    /\ variant[v].status = "active" /\ product[variant[v].product].status = "active"
    /\ edit' = [edit EXCEPT ![w] = [Idle EXCEPT !.pc = "flushed", !.op = "order",
                                                !.id = v, !.seen = variant[v]]]
    /\ UNCHANGED <<category, product, variant, image, ordered, load>>

\* The order line and the movement of the sale.
OrderPlace(w) ==
    LET v == edit[w].id IN
    /\ At(w, "flushed", "order")
    /\ ordered' = ordered \cup {v}
    /\ variant' = [variant EXCEPT ![v].moved = TRUE]
    /\ Answer(w)
    /\ UNCHANGED <<category, product, image, load>>

-----------------------------------------------------------------------------
(* Images.                                                                  *)

\* The image is written, the others to change have been read.  A row that is
\* gone by now fails the request.
Flushed(w, there, others) ==
    /\ IF there THEN edit' = [edit EXCEPT ![w].pc = "flushed", ![w].others = others]
                ELSE Answer(w)
    /\ UNCHANGED <<category, product, variant, image, ordered, load>>

\* The commit, with the UPDATE of the others; it fails if one of them is gone.
ImageCommit(w, written, primary) ==
    LET others == edit[w].others IN
    /\ ImagesFree(w, others)
    /\ image' = IF others \subseteq Live(image)
                THEN [i \in Images |->
                        IF i \in others THEN [image[i] EXCEPT !.is_primary = primary]
                                        ELSE written[i]]
                ELSE image
    /\ Answer(w)
    /\ UNCHANGED <<category, product, variant, ordered, load>>

\* Mutant: whichever image was the primary one stays one.
OtherPrimariesNone(p, keep) == {}

\* _clear_other_primaries: the committed primaries of a product.
OtherPrimaries(p, keep) == {i \in ImagesOf(p) \ {keep} : image[i].is_primary}

\* add_image: the first image is the primary one unless told otherwise.
ImageCreate(w, p, is_primary) ==
    LET primary == IF is_primary = MISSING THEN ImagesOf(p) = {} ELSE is_primary IN
    /\ Reaches(w, "image") /\ p \in Live(product) /\ Unused(image) # {}
    /\ Decided(w, "image.create", p, is_primary, [product |-> p, is_primary |-> primary])

ImageCreateFlush(w) ==
    LET p == edit[w].id IN
    /\ At(w, "decided", "image.create")
    /\ Flushed(w, p \in Live(product),
               IF edit[w].to.is_primary THEN OtherPrimaries(p, None) ELSE {})

ImageInsert(w, i) ==
    /\ At(w, "flushed", "image.create") /\ i \in Unused(image)
    /\ ImageCommit(w, [image EXCEPT ![i] = edit[w].to], FALSE)

\* update_image may set or unset is_primary; other says that the request changes
\* another column.  One that changes nothing commits nothing.
ImageUpdateRead(w, i, to) ==
    /\ Reaches(w, "image") /\ i \in Live(image)
    /\ to.other \/ to.is_primary \notin {MISSING, image[i].is_primary}
    /\ Decided(w, "image.update", i, image[i], to)

ImageUpdateFlush(w) ==
    LET i == edit[w].id IN
    /\ At(w, "decided", "image.update") /\ ImagesFree(w, {i})
    /\ Flushed(w, i \in Live(image), IF edit[w].to.is_primary = TRUE
                                     THEN OtherPrimaries(edit[w].seen.product, i) ELSE {})

ImageWrite(w) ==
    LET i == edit[w].id
        to == [is_primary |-> edit[w].to.is_primary]
    IN  /\ At(w, "flushed", "image.update")
        /\ ImageCommit(w, [image EXCEPT ![i] = Applied(@, edit[w].seen, to)], FALSE)

\* Mutant: nothing takes the place of a primary image.
ReplacementsNone(i, row) == {{}}

\* The image that takes a deleted primary's place, the first by position; empty
\* if there is none, or if it is a primary one itself.
Replacements(i, row) ==
    LET rest == ImagesOf(row.product) \ {i} IN
    IF row.is_primary /\ rest # {}
    THEN {{r} \ OtherPrimaries(row.product, i) : r \in rest}
    ELSE {{}}

\* delete_image: the DELETE is flushed, then the replacement is read.
ImageDelete(w, i) ==
    /\ Reaches(w, "image") /\ i \in Live(image)
    /\ Decided(w, "image.delete", i, image[i], None)

ImageDeleteFlush(w) ==
    LET i == edit[w].id IN
    /\ At(w, "decided", "image.delete") /\ ImagesFree(w, {i})
    /\ \E others \in Replacements(i, edit[w].seen) : Flushed(w, TRUE, others)

ImageRemove(w) ==
    /\ At(w, "flushed", "image.delete")
    /\ ImageCommit(w, [image EXCEPT ![edit[w].id] = Gone], TRUE)

-----------------------------------------------------------------------------
(* seed-dev, on a development database.  Each of its commits is all or       *)
(* nothing; a failed one ends the command.                                  *)

\* seed-dev --reset: every row of the catalog and of the orders is deleted; it
\* waits for whoever has written one.
SeedReset(w) ==
    LET emptied(table) == [r \in DOMAIN table |-> IF table[r] = None THEN None ELSE Gone]
    IN  /\ Reaches(w, "seed")
        /\ \A x \in Workers : edit[x].pc # "flushed"
        /\ category' = emptied(category) /\ product' = emptied(product)
        /\ variant' = emptied(variant) /\ image' = emptied(image)
        /\ ordered' = {}
        /\ UNCHANGED <<load, edit>>

\* The categories of the data are looked up by slug, then its products.
SeedStart(w) ==
    LET found(table, s) == {r \in Live(table) : table[r].slug = s}
    IN  /\ Reaches(w, "seed")
        /\ Decided(w, "seed", None, [s \in Seeded |-> found(category, s)],
                   {s \in Seeded : found(product, s) = {}})

\* The table with new rows under the ids given to the keys of the data.
Filled(table, ids, Row(_)) ==
    [r \in DOMAIN table |->
        IF \E k \in DOMAIN ids : ids[k] = r
        THEN Row(CHOOSE k \in DOMAIN ids : ids[k] = r) ELSE table[r]]

SeededProduct(s, c) ==
    [category |-> c, slug |-> s, base_price |-> MaxPrice, sale_price |-> None,
     status |-> "active"]
SeededVariant(p, option) ==
    [product |-> p, option |-> option, status |-> "active", moved |-> FALSE]

\* The missing ones are inserted, each product with a variant of every option and
\* two images, the first of them the primary one.  Someone else's insertion of a
\* slug, or deletion of a category, fails all of it.
SeedInsert(w) ==
    LET found == edit[w].seen
        absent == edit[w].to
        missing == {s \in Seeded : found[s] = {}}
        possible == /\ \A s \in missing : SlugFree(category, s, None)
                    /\ \A s \in absent :
                          SlugFree(product, s, None) /\ found[s] \subseteq Live(category)
    IN  /\ At(w, "decided", "seed")
        /\ IF possible
           THEN \E cs \in Injection(missing, Unused(category)),
                   ps \in Injection(absent, Unused(product)),
                   vs \in Injection(absent \X Options, Unused(variant)),
                   is \in Injection(absent \X BOOLEAN, Unused(image)) :
                LET CategoryOf(s) ==
                      IF s \in missing THEN cs[s] ELSE CHOOSE c \in found[s] : TRUE
                IN  /\ category' = Filled(category, cs, LAMBDA s : [slug |-> s])
                    /\ product' = Filled(product, ps,
                                         LAMBDA s : SeededProduct(s, CategoryOf(s)))
                    /\ variant' = Filled(variant, vs,
                                         LAMBDA k : SeededVariant(ps[k[1]], k[2]))
                    /\ image' = Filled(image, is, LAMBDA k :
                                       [product |-> ps[k[1]], is_primary |-> k[2]])
                    /\ edit' = [edit EXCEPT ![w].op = "seed.orders", ![w].seen = None,
                                            ![w].to = None]
           ELSE Answer(w) /\ UNCHANGED <<category, product, variant, image>>
        /\ UNCHANGED <<ordered, load>>

\* _seed_orders: unless there are orders, some of the variants are ordered, each
\* with the movement of its sale.
SeedOrders(w) ==
    /\ At(w, "decided", "seed.orders")
    /\ \E sold \in SUBSET Live(variant) :
          /\ ordered # {} => sold = {}
          /\ \A v \in sold : VariantFree(w, v)
          /\ ordered' = ordered \cup sold
          /\ variant' = [v \in Variants |->
                IF v \in sold THEN [variant[v] EXCEPT !.moved = TRUE] ELSE variant[v]]
    /\ Answer(w)
    /\ UNCHANGED <<category, product, image, load>>

-----------------------------------------------------------------------------

\* A worker dies, the database fails, or a lost deadlock rolls a request back.
Crash(w) ==
    /\ edit[w].pc # "idle"
    /\ Answer(w)
    /\ UNCHANGED <<category, product, variant, image, ordered, load>>

\* What an admin may ask for, as far as the load goes: the values of a column
\* that the load varies, and the one value otherwise.
Asked(column, values, default) == IF column \in load THEN values ELSE {default}

NewProducts ==
    [category : Categories, slug : Slugs,
     base_price : Asked("price", Prices, MaxPrice),
     sale_price : Asked("price", Prices \cup {None}, None),
     status : Asked("publish", ProductStatus, "active")]

\* One PATCH names the prices, the category, the slug or the status.
Updates ==
    [category : {MISSING}, slug : {MISSING}, status : {MISSING},
     base_price : Asked("price", Prices \cup {MISSING}, MISSING),
     sale_price : Asked("price", Prices \cup {None, MISSING}, MISSING)]
    \cup {[NoUpdate EXCEPT !.category = c] : c \in Asked("move", Categories, MISSING)}
    \cup {[NoUpdate EXCEPT !.slug = s] : s \in Asked("slug", Slugs, MISSING)}
    \cup {[NoUpdate EXCEPT !.status = s] : s \in Asked("publish", ProductStatus, MISSING)}

NewVariants ==
    [product : Products, option : Options, status : VariantStatus, moved : BOOLEAN]

ImageUpdate == [is_primary : BOOLEAN \cup {MISSING}, other : BOOLEAN]

CategoryStep(w) ==
    \/ \E s \in Slugs : CategoryCreate(w, s)
    \/ \E c \in Categories, s \in Slugs : CategoryUpdate(w, c, s)
    \/ \E c \in Categories : CategoryDelete(w, c)
    \/ \E c \in Categories : CategoryInsert(w, c)
    \/ CategoryWrite(w) \/ CategoryRemove(w)

ProductStep(w) ==
    \/ \E row \in NewProducts, typed \in BOOLEAN : ProductCreate(w, row, typed)
    \/ \E p \in Products, to \in Updates \ {NoUpdate} : ProductUpdateRead(w, p, to)
    \/ \E p \in Products : ProductArchiveRead(w, p)
    \/ \E p \in Products : ProductDelete(w, p)
    \/ \E p \in Products : ProductInsert(w, p)
    \/ ProductWrite(w) \/ ProductArchive(w) \/ ProductRemove(w)

VariantStep(w) ==
    \/ \E row \in NewVariants : VariantCreate(w, row)
    \/ \E v \in Variants, to \in VariantUpdate : VariantUpdateRead(w, v, to)
    \/ \E v \in Variants : VariantDelete(w, v)
    \/ \E v \in Variants : VariantInsert(w, v)
    \/ VariantWrite(w) \/ VariantRemove(w)
    \/ \E v \in Variants : OrderLock(w, v)
    \/ OrderPlace(w)

ImageStep(w) ==
    \/ \E p \in Products, primary \in BOOLEAN \cup {MISSING} : ImageCreate(w, p, primary)
    \/ ImageCreateFlush(w)
    \/ \E i \in Images : ImageInsert(w, i)
    \/ \E i \in Images, to \in ImageUpdate : ImageUpdateRead(w, i, to)
    \/ ImageUpdateFlush(w) \/ ImageWrite(w)
    \/ \E i \in Images : ImageDelete(w, i)
    \/ ImageDeleteFlush(w) \/ ImageRemove(w)

SeedStep(w) == SeedReset(w) \/ SeedStart(w) \/ SeedInsert(w) \/ SeedOrders(w)

\* The shop starts with one category, one active product and nothing in it.
CatalogInit ==
    /\ \E c \in Categories, p \in Products :
          /\ category = [x \in Categories |-> IF x = c THEN [slug |-> 1] ELSE None]
          /\ product = [x \in Products |-> IF x # p THEN None ELSE
                          [category |-> c, slug |-> 1, base_price |-> MaxPrice,
                           sale_price |-> None, status |-> "active"]]
    /\ variant = [v \in Variants |-> None]
    /\ image = [i \in Images |-> None]
    /\ ordered = {}
    /\ load \in Loads
    /\ edit = [w \in Workers |-> Idle]

CatalogNext ==
    \E w \in Workers :
        CategoryStep(w) \/ ProductStep(w) \/ VariantStep(w) \/ ImageStep(w)
        \/ SeedStep(w) \/ Crash(w)

CatalogSpec == CatalogInit /\ [][CatalogNext]_catalogVars

-----------------------------------------------------------------------------

\* The types of the tables and of the rows that requests carry.
CatalogTypeOK ==
    /\ category \in [Categories -> CategoryRow \cup {None, Gone}]
    /\ product \in [Products -> ProductRow \cup {None, Gone}]
    /\ variant \in [Variants -> VariantRow \cup {None, Gone}]
    /\ image \in [Images -> ImageRow \cup {None, Gone}]
    /\ ordered \subseteq Variants
    /\ load \in Loads
    /\ \A w \in Workers :
          /\ edit[w].pc \in {"idle", "decided", "flushed"}
          /\ edit[w].op \in Ops \cup {None}
          /\ edit[w].others \subseteq Images

\* Every product is in a category and every variant and image belongs to a product,
\* though the handlers check it long before they commit (delete_category,
\* create_variant, update_product, add_image), and no two rows share a unique key.
KeysHold ==
    /\ \A p \in Live(product) : product[p].category \in Live(category)
    /\ \A v \in Live(variant) : variant[v].product \in Live(product)
    /\ \A i \in Live(image) : image[i].product \in Live(product)
    /\ \A p, q \in Live(product) : product[p].slug = product[q].slug => p = q
    /\ \A c, d \in Live(category) : category[c].slug = category[d].slug => c = d
    /\ \A v \in Live(variant) : OptionFree(variant[v].product, variant[v].option, v)

\* What was ever ordered keeps its variant and its product, whichever deletion
\* was decided before the order was placed (delete_variant, delete_product:
\* "order history must stay intact").
OrderedKept ==
    \A v \in ordered : v \in Live(variant) /\ variant[v].product \in Live(product)

\* A sale price is below the base price, whichever of the two was changed last
\* (create_product, update_product); edits of products being made one at a time.
SaleBelowBase == \A p \in Live(product) : Priced(product[p])

\* No product has two primary images (_clear_other_primaries); the images being
\* edited one at a time.
OnePrimary ==
    \A i, j \in Live(image) :
        image[i].product = image[j].product /\ image[i].is_primary /\ image[j].is_primary
        => i = j

Leaderless(p) == ImagesOf(p) # {} /\ \A i \in ImagesOf(p) : ~image[i].is_primary

\* An admin's request that unsets is_primary, or adds an image that has it unset.
Unsets(w) ==
    \/ edit[w].op = "image.create" /\ edit[w].seen = FALSE
    \/ edit[w].op = "image.update" /\ edit[w].to.is_primary = FALSE

\* A product comes to have photographs but no primary one only if an admin asked
\* for that: by adding the first and by deleting any it keeps one (add_image,
\* delete_image); the images being edited one at a time.
PrimaryKept ==
    [][\A p \in Products : ~Leaderless(p) /\ Leaderless(p)' =>
          \E w \in Workers : Unsets(w) /\ edit'[w].pc = "idle"]_catalogVars

\* A variant that no order refers to is deleted when an admin asks for it
\* (delete_variant, "sold variants are deactivated, never deleted").
UnsoldIsDeleted ==
    [][\A w \in Workers : VariantRemove(w) /\ edit[w].id \notin ordered =>
          variant'[edit[w].id] = Gone]_catalogVars
=============================================================================
