---------------------------- MODULE CatalogProofs ----------------------------
(***************************************************************************)
(* Theorems about the catalog under concurrent admins, for every number of *)
(* workers, categories, products, variants and images: the tables and the  *)
(* requests keep their shape, what refers to a row keeps it, and the       *)
(* unique indexes hold, whatever requests arrive and however their commits *)
(* interleave; and, where the admins edit products or images one at a      *)
(* time, the prices stay in order and no product has two primary images.   *)
(***************************************************************************)
EXTENDS Catalog, TLAPS

\* The worker serves a request to the handler.
Serves(r, op) == r.pc # "idle" /\ r.op = op

\* What a request has read and what it asks for, by its handler.
RequestOK(r) ==
    /\ r = [pc |-> r.pc, op |-> r.op, id |-> r.id, seen |-> r.seen, to |-> r.to,
            others |-> r.others]
    /\ r.pc \in {"idle", "decided", "flushed"} /\ r.op \in Ops \cup {None}
    /\ r.others \subseteq Images
    /\ Serves(r, "category.create") => r.to \in CategoryRow
    /\ Serves(r, "category.update") =>
          r.id \in Categories /\ r.seen \in CategoryRow /\ r.to \in CategoryRow
    /\ Serves(r, "category.delete") => r.id \in Categories
    /\ Serves(r, "product.create") => r.to \in ProductRow
    /\ Serves(r, "product.update") =>
          r.id \in Products /\ r.seen \in ProductRow /\ r.to \in ProductUpdate
    /\ Serves(r, "product.archive") =>
          r.id \in Products /\ r.seen \in ProductRow /\ r.to = [status |-> "archived"]
    /\ Serves(r, "product.delete") => r.id \in Products
    /\ Serves(r, "variant.create") => r.to \in VariantRow
    /\ Serves(r, "variant.update") =>
          r.id \in Variants /\ r.seen \in VariantRow /\ r.to \in VariantUpdate
    /\ Serves(r, "variant.deactivate") =>
          r.id \in Variants /\ r.seen \in VariantRow /\ r.to = [status |-> "inactive"]
    /\ Serves(r, "variant.delete") => r.id \in Variants
    /\ Serves(r, "image.create") =>
          r.id \in Products /\ r.to \in ImageRow /\ r.to.product = r.id
    /\ Serves(r, "image.update") =>
          r.id \in Images /\ r.seen \in ImageRow /\ r.to \in ImageUpdate
    /\ Serves(r, "image.delete") => r.id \in Images /\ r.seen \in ImageRow
    /\ Serves(r, "order") => r.id \in Variants
    /\ Serves(r, "seed") => r.seen \in [Seeded -> SUBSET Categories] /\ r.to \subseteq Seeded

Requests ==
    /\ edit = [w \in Workers |-> edit[w]]
    /\ \A w \in Workers : RequestOK(edit[w])

Tables ==
    /\ category \in [Categories -> CategoryRow \cup {None, Gone}]
    /\ product \in [Products -> ProductRow \cup {None, Gone}]
    /\ variant \in [Variants -> VariantRow \cup {None, Gone}]
    /\ image \in [Images -> ImageRow \cup {None, Gone}]
    /\ load \in Loads

\* What the locks of a request that has written keep from being deleted.
Held(r) ==
    /\ r.pc = "flushed" /\ r.op = "order" => r.id \in Live(variant)
    /\ r.pc = "flushed" /\ r.op = "image.create" => r.id \in Live(product)
    /\ r.pc = "flushed" /\ r.op = "image.update" => r.id \in Live(image)

Locks == \A w \in Workers : Held(edit[w])

\* No two requests have written the same image.
WritesImage(r) == r.pc = "flushed" /\ r.op \in {"image.update", "image.delete"}

Apart ==
    \A x, y \in Workers :
        WritesImage(edit[x]) /\ WritesImage(edit[y]) /\ edit[x].id = edit[y].id => x = y

OrderedLive == ordered \subseteq Live(variant)

CatalogInv == Requests /\ Tables /\ Locks /\ Apart /\ KeysHold /\ OrderedLive

-----------------------------------------------------------------------------
(* The rows and the requests.                                               *)

LEMMA RowsAreRows ==
    /\ None \notin CategoryRow \cup ProductRow \cup VariantRow \cup ImageRow
    /\ Gone \notin CategoryRow \cup ProductRow \cup VariantRow \cup ImageRow
BY RowAssumption

LEMMA LiveRows ==
    ASSUME Tables
    PROVE  /\ Live(category) = {c \in Categories : category[c] \in CategoryRow}
           /\ Live(product) = {p \in Products : product[p] \in ProductRow}
           /\ Live(variant) = {v \in Variants : variant[v] \in VariantRow}
           /\ Live(image) = {i \in Images : image[i] \in ImageRow}
           /\ DOMAIN category = Categories /\ DOMAIN product = Products
           /\ DOMAIN variant = Variants /\ DOMAIN image = Images
BY RowsAreRows DEF Tables, Live

\* An edit of a row sets the columns it names, if they differ from what was read.
LEMMA AppliedColumn ==
    ASSUME NEW row, NEW seen, NEW to
    PROVE  /\ DOMAIN Applied(row, seen, to) = DOMAIN row
           /\ \A c \in DOMAIN row :
                 Applied(row, seen, to)[c] =
                     IF c \in DOMAIN to /\ to[c] # MISSING /\ to[c] # seen[c]
                     THEN to[c] ELSE row[c]
BY DEF Applied, Changes

LEMMA AppliedCategory ==
    ASSUME NEW row \in CategoryRow, NEW seen, NEW to \in CategoryRow
    PROVE  Applied(row, seen, to) \in CategoryRow
<1>1. DOMAIN row = {"slug"} /\ row.slug \in Slugs /\ to.slug \in Slugs BY DEF CategoryRow
<1>2. Applied(row, seen, to).slug \in Slugs BY <1>1, AppliedColumn
<1>3. Applied(row, seen, to) = [c \in {"slug"} |-> Applied(row, seen, to)[c]]
    BY <1>1 DEF Applied
<1> QED BY <1>2, <1>3 DEF CategoryRow

LEMMA ProductColumns ==
    ASSUME NEW row \in ProductRow
    PROVE  /\ DOMAIN row = {"category", "slug", "base_price", "sale_price", "status"}
           /\ row.category \in Categories /\ row.slug \in Slugs
           /\ row.base_price \in Prices /\ row.sale_price \in Prices \cup {None}
           /\ row.status \in ProductStatus
BY DEF ProductRow

LEMMA AppliedProduct ==
    ASSUME NEW row \in ProductRow, NEW seen, NEW to \in ProductUpdate
    PROVE  Applied(row, seen, to) \in ProductRow
<1> DEFINE new == Applied(row, seen, to)
<1>1. DOMAIN to = {"category", "slug", "base_price", "sale_price", "status"}
      /\ to.category \in Categories \cup {MISSING} /\ to.slug \in Slugs \cup {MISSING}
      /\ to.base_price \in Prices \cup {MISSING}
      /\ to.sale_price \in Prices \cup {None, MISSING}
      /\ to.status \in ProductStatus \cup {MISSING}
    BY DEF ProductUpdate
<1>2. new = [c \in DOMAIN row |-> new[c]] BY DEF Applied
<1>3. new.category \in Categories /\ new.slug \in Slugs
    BY <1>1, ProductColumns, AppliedColumn
<1>4. new.base_price \in Prices /\ new.sale_price \in Prices \cup {None}
    BY <1>1, ProductColumns, AppliedColumn
<1>5. new.status \in ProductStatus BY <1>1, ProductColumns, AppliedColumn
<1> HIDE DEF new
<1>6. new \in ProductRow
    BY <1>2, <1>3, <1>4, <1>5, ProductColumns DEF ProductRow
<1> QED BY <1>6 DEF new

\* Archiving changes the status and nothing else.
LEMMA AppliedArchive ==
    ASSUME NEW row \in ProductRow, NEW seen
    PROVE  LET new == Applied(row, seen, [status |-> "archived"]) IN
           /\ new \in ProductRow
           /\ new.category = row.category /\ new.slug = row.slug
           /\ new.base_price = row.base_price /\ new.sale_price = row.sale_price
<1> DEFINE to == [status |-> "archived"]
           new == Applied(row, seen, to)
<1>1. DOMAIN to = {"status"} /\ to.status = "archived" OBVIOUS
<1>2. new = [c \in DOMAIN row |-> new[c]] BY DEF Applied
<1> HIDE DEF to
<1>3. /\ new.category = row.category /\ new.slug = row.slug
      /\ new.base_price = row.base_price /\ new.sale_price = row.sale_price
    BY <1>1, ProductColumns, AppliedColumn
<1>4. new.status \in ProductStatus
    BY <1>1, ProductColumns, AppliedColumn DEF ProductStatus
<1> HIDE DEF new
<1>5. new \in ProductRow
    BY <1>2, <1>3, <1>4, ProductColumns DEF ProductRow
<1> QED BY <1>3, <1>5 DEF new, to

LEMMA VariantColumns ==
    ASSUME NEW row \in VariantRow
    PROVE  /\ DOMAIN row = {"product", "option", "status", "moved"}
           /\ row.product \in Products /\ row.option \in Options
           /\ row.status \in VariantStatus /\ row.moved \in BOOLEAN
BY DEF VariantRow

\* An edit leaves a variant with its product, and deactivation with its option too.
LEMMA AppliedVariant ==
    ASSUME NEW row \in VariantRow, NEW seen,
           NEW to \in VariantUpdate \cup {[status |-> "inactive"]}
    PROVE  /\ Applied(row, seen, to) \in VariantRow
           /\ Applied(row, seen, to).product = row.product
<1> DEFINE new == Applied(row, seen, to)
<1>1. /\ DOMAIN to \subseteq {"option", "status", "moved"}
      /\ "option" \in DOMAIN to => to.option \in Options \cup {MISSING}
      /\ "status" \in DOMAIN to => to.status \in VariantStatus \cup {MISSING}
      /\ "moved" \in DOMAIN to => to.moved \in {TRUE, MISSING}
    <2>1. CASE to \in VariantUpdate
        BY <2>1 DEF VariantUpdate
    <2>2. CASE to = [status |-> "inactive"]
        <3>1. DOMAIN to = {"status"} /\ to.status = "inactive" BY <2>2
        <3> QED BY <3>1 DEF VariantStatus
    <2> QED BY <2>1, <2>2
<1>2. new = [c \in DOMAIN row |-> new[c]] BY DEF Applied
<1>3. new.product = row.product BY <1>1, VariantColumns, AppliedColumn
<1>4. new.option \in Options BY <1>1, VariantColumns, AppliedColumn
<1>5. new.status \in VariantStatus BY <1>1, VariantColumns, AppliedColumn
<1>6. new.moved \in BOOLEAN
    <2>1. CASE "moved" \in DOMAIN to /\ to.moved # MISSING
        <3>1. to.moved = TRUE BY <1>1, <2>1
        <3>2. new.moved = to.moved \/ new.moved = row.moved
            BY VariantColumns, AppliedColumn
        <3> QED BY <3>1, <3>2, VariantColumns
    <2>2. CASE ~("moved" \in DOMAIN to /\ to.moved # MISSING)
        <3>1. new.moved = row.moved BY <2>2, VariantColumns, AppliedColumn
        <3> QED BY <3>1, VariantColumns
    <2> QED BY <2>1, <2>2
<1> HIDE DEF new
<1>7. new \in VariantRow
    BY <1>2, <1>3, <1>4, <1>5, <1>6, VariantColumns DEF VariantRow
<1> QED BY <1>3, <1>7 DEF new

\* An edit of an image leaves it with its product.
LEMMA AppliedImage ==
    ASSUME NEW row \in ImageRow, NEW seen, NEW primary \in BOOLEAN \cup {MISSING}
    PROVE  LET new == Applied(row, seen, [is_primary |-> primary]) IN
           /\ new \in ImageRow /\ new.product = row.product
           /\ new.is_primary = IF primary # MISSING /\ primary # seen.is_primary
                               THEN primary ELSE row.is_primary
<1> DEFINE to == [is_primary |-> primary]
           new == Applied(row, seen, to)
<1>1. DOMAIN to = {"is_primary"} /\ to.is_primary = primary OBVIOUS
<1>2. new = [c \in DOMAIN row |-> new[c]] BY DEF Applied
<1>3. /\ DOMAIN row = {"product", "is_primary"} /\ row.product \in Products
      /\ row.is_primary \in BOOLEAN
    BY DEF ImageRow
<1> HIDE DEF to
<1>4. new.product = row.product BY <1>1, <1>3, AppliedColumn
<1>5. new.is_primary = IF primary # MISSING /\ primary # seen.is_primary
                       THEN primary ELSE row.is_primary
    BY <1>1, <1>3, AppliedColumn
<1>6. new.is_primary \in BOOLEAN BY <1>3, <1>5
<1> HIDE DEF new
<1>7. new \in ImageRow BY <1>2, <1>3, <1>4, <1>6 DEF ImageRow
<1> QED BY <1>4, <1>5, <1>7 DEF new, to

-----------------------------------------------------------------------------
(* What a step leaves behind.                                               *)

LEMMA IdleOK == RequestOK(Idle) /\ Idle.pc = "idle"
BY DEF RequestOK, Idle, Serves

Columns == {"pc", "op", "id", "seen", "to", "others"}

LEMMA RequestIs ==
    ASSUME NEW a, a = [c \in DOMAIN a |-> a[c]], DOMAIN a = Columns
    PROVE  a = [pc |-> a.pc, op |-> a.op, id |-> a.id, seen |-> a.seen, to |-> a.to,
                others |-> a.others]
<1> DEFINE b == [pc |-> a.pc, op |-> a.op, id |-> a.id, seen |-> a.seen, to |-> a.to,
                 others |-> a.others]
<1>1. /\ DOMAIN b = Columns /\ b = [c \in DOMAIN b |-> b[c]]
      /\ b.pc = a.pc /\ b.op = a.op /\ b.id = a.id /\ b.seen = a.seen /\ b.to = a.to
      /\ b.others = a.others
    BY DEF Columns
<1> HIDE DEF b
<1>2. \A c \in Columns : a[c] = b[c] BY <1>1 DEF Columns
<1>3. a = b BY <1>1, <1>2
<1> QED BY <1>3 DEF b

LEMMA RequestColumns ==
    ASSUME NEW old, RequestOK(old)
    PROVE  DOMAIN old = Columns /\ old = [c \in DOMAIN old |-> old[c]]
<1> DEFINE o == [pc |-> old.pc, op |-> old.op, id |-> old.id, seen |-> old.seen,
                 to |-> old.to, others |-> old.others]
<1>1. DOMAIN o = Columns /\ o = [c \in DOMAIN o |-> o[c]] BY DEF Columns
<1>2. o = old BY DEF RequestOK
<1> QED BY <1>1, <1>2

LEMMA InitCatalogInv == CatalogInit => CatalogInv
<1> SUFFICES ASSUME CatalogInit PROVE CatalogInv
    OBVIOUS
<1>1. PICK c \in Categories, p \in Products :
          /\ category = [x \in Categories |-> IF x = c THEN [slug |-> 1] ELSE None]
          /\ product = [x \in Products |-> IF x # p THEN None ELSE
                          [category |-> c, slug |-> 1, base_price |-> MaxPrice,
                           sale_price |-> None, status |-> "active"]]
    BY DEF CatalogInit
<1>2. /\ variant = [v \in Variants |-> None] /\ image = [i \in Images |-> None]
      /\ ordered = {} /\ load \in Loads /\ edit = [w \in Workers |-> Idle]
    BY DEF CatalogInit
<1>3. 1 \in Slugs /\ MaxPrice \in Prices
    BY CatalogAssumption DEF Slugs, Prices
<1>4. Tables
    <2>1. [slug |-> 1] \in CategoryRow BY <1>3 DEF CategoryRow
    <2>2. [category |-> c, slug |-> 1, base_price |-> MaxPrice, sale_price |-> None,
           status |-> "active"] \in ProductRow
        BY <1>3 DEF ProductRow, ProductStatus
    <2> QED BY <1>1, <1>2, <2>1, <2>2 DEF Tables
<1>5. Requests BY <1>2, IdleOK DEF Requests
<1>6. Locks /\ Apart
    <2>1. \A w \in Workers : edit[w].pc = "idle" BY <1>2, IdleOK
    <2> QED BY <2>1 DEF Locks, Apart, Held, WritesImage
<1>7. KeysHold
    <2>1. /\ Live(category) = {c} /\ Live(product) = {p}
          /\ Live(variant) = {} /\ Live(image) = {}
        <3>1. [slug |-> 1] \in CategoryRow BY <1>3 DEF CategoryRow
        <3>2. [category |-> c, slug |-> 1, base_price |-> MaxPrice, sale_price |-> None,
               status |-> "active"] \in ProductRow
            BY <1>3 DEF ProductRow, ProductStatus
        <3> QED BY <1>1, <1>2, <3>1, <3>2, RowsAreRows DEF Live
    <2>2. product[p].category = c BY <1>1
    <2> QED BY <2>1, <2>2 DEF KeysHold
<1>8. OrderedLive BY <1>2 DEF OrderedLive
<1> QED BY <1>4, <1>5, <1>6, <1>7, <1>8 DEF CatalogInv

\* A worker's request comes to another point, and the others' stay where they are.
LEMMA RequestsKept ==
    ASSUME Requests, NEW w \in Workers, NEW r, RequestOK(r),
           edit' = [edit EXCEPT ![w] = r]
    PROVE  /\ Requests' /\ edit'[w] = r
           /\ \A x \in Workers \ {w} : edit'[x] = edit[x]
<1>1. edit'[w] = r /\ \A x \in Workers \ {w} : edit'[x] = edit[x]
    BY DEF Requests
<1>2. edit' = [x \in Workers |-> edit'[x]] BY DEF Requests
<1>3. \A x \in Workers : RequestOK(edit'[x]) BY <1>1 DEF Requests
<1> QED BY <1>1, <1>2, <1>3 DEF Requests

\* A step that writes nothing.
LEMMA Asks ==
    ASSUME CatalogInv, NEW w \in Workers, NEW r, RequestOK(r), Held(r),
           edit' = [edit EXCEPT ![w] = r],
           UNCHANGED <<category, product, variant, image, ordered, load>>,
           WritesImage(r) => \A x \in Workers \ {w} :
                                 WritesImage(edit[x]) => edit[x].id # r.id
    PROVE  CatalogInv'
<1>1. /\ Requests' /\ edit'[w] = r
      /\ \A x \in Workers \ {w} : edit'[x] = edit[x]
    BY RequestsKept DEF CatalogInv
<1>2. Tables' BY DEF CatalogInv, Tables
<1>3. Locks'
    <2>1. \A q : Held(q)' <=> Held(q) BY DEF Held, Live
    <2>2. \A x \in Workers : Held(edit'[x]) BY <1>1 DEF CatalogInv, Locks
    <2> QED BY <2>1, <2>2 DEF Locks, Held, Live
<1>4. Apart' BY <1>1 DEF CatalogInv, Apart, WritesImage
<1>5. KeysHold' BY DEF CatalogInv, KeysHold, Live, OptionFree, VariantsOf
<1>6. OrderedLive' BY DEF CatalogInv, OrderedLive, Live
<1> QED BY <1>1, <1>2, <1>3, <1>4, <1>5, <1>6 DEF CatalogInv

\* A step that writes, and ends the request or goes on with one that holds nothing:
\* what the others hold must stay.
LEMMA Writes ==
    ASSUME CatalogInv, NEW w \in Workers, NEW r, RequestOK(r), r.pc # "flushed",
           edit' = [edit EXCEPT ![w] = r],
           Tables', KeysHold', OrderedLive',
           \A x \in Workers \ {w} :
               /\ At(x, "flushed", "order") => edit[x].id \in Live(variant)'
               /\ At(x, "flushed", "image.create") => edit[x].id \in Live(product)'
               /\ At(x, "flushed", "image.update") => edit[x].id \in Live(image)'
    PROVE  CatalogInv'
<1>1. /\ Requests' /\ edit'[w] = r
      /\ \A x \in Workers \ {w} : edit'[x] = edit[x]
    BY RequestsKept DEF CatalogInv
<1>2. Locks' BY <1>1 DEF Locks, Held, At
<1>3. Apart' BY <1>1 DEF CatalogInv, Apart, WritesImage
<1> QED BY <1>1, <1>2, <1>3 DEF CatalogInv

\* A request that ends without having written anything.
LEMMA Fails ==
    ASSUME CatalogInv, NEW w \in Workers, Answer(w),
           UNCHANGED <<category, product, variant, image, ordered, load>>
    PROVE  CatalogInv'
BY IdleOK, Asks DEF Answer, Held, WritesImage

\* A request that has decided, with what it is to remember.
Decision(op, id, seen, to) ==
    [pc |-> "decided", op |-> op, id |-> id, seen |-> seen, to |-> to, others |-> {}]

LEMMA DecisionOK ==
    ASSUME NEW op \in Ops, NEW id, NEW seen, NEW to,
           LET r == Decision(op, id, seen, to) IN
           /\ Serves(r, "category.create") => to \in CategoryRow
           /\ Serves(r, "category.update") =>
                 id \in Categories /\ seen \in CategoryRow /\ to \in CategoryRow
           /\ Serves(r, "category.delete") => id \in Categories
           /\ Serves(r, "product.create") => to \in ProductRow
           /\ Serves(r, "product.update") =>
                 id \in Products /\ seen \in ProductRow /\ to \in ProductUpdate
           /\ Serves(r, "product.archive") =>
                 id \in Products /\ seen \in ProductRow /\ to = [status |-> "archived"]
           /\ Serves(r, "product.delete") => id \in Products
           /\ Serves(r, "variant.create") => to \in VariantRow
           /\ Serves(r, "variant.update") =>
                 id \in Variants /\ seen \in VariantRow /\ to \in VariantUpdate
           /\ Serves(r, "variant.deactivate") =>
                 id \in Variants /\ seen \in VariantRow /\ to = [status |-> "inactive"]
           /\ Serves(r, "variant.delete") => id \in Variants
           /\ Serves(r, "image.create") =>
                 id \in Products /\ to \in ImageRow /\ to.product = id
           /\ Serves(r, "image.update") =>
                 id \in Images /\ seen \in ImageRow /\ to \in ImageUpdate
           /\ Serves(r, "image.delete") => id \in Images /\ seen \in ImageRow
           /\ Serves(r, "order") => id \in Variants
           /\ Serves(r, "seed") => seen \in [Seeded -> SUBSET Categories] /\ to \subseteq Seeded
    PROVE  RequestOK(Decision(op, id, seen, to))
BY DEF RequestOK, Decision

LEMMA Decides ==
    ASSUME CatalogInv, NEW w \in Workers, NEW op, NEW id, NEW seen, NEW to,
           Decided(w, op, id, seen, to), RequestOK(Decision(op, id, seen, to))
    PROVE  CatalogInv'
<1> DEFINE r == [Idle EXCEPT !.pc = "decided", !.op = op, !.id = id, !.seen = seen, !.to = to]
<1>1. edit' = [edit EXCEPT ![w] = r] BY DEF Decided
<1>a. r = Decision(op, id, seen, to)
    <2>1. /\ DOMAIN r = Columns /\ r = [c \in DOMAIN r |-> r[c]]
          /\ r.pc = "decided" /\ r.op = op /\ r.id = id /\ r.seen = seen /\ r.to = to
          /\ r.others = {}
        BY DEF Idle, Columns
    <2> HIDE DEF r
    <2> QED BY <2>1, RequestIs DEF Decision
<1>2. UNCHANGED <<category, product, variant, image, ordered, load>> BY DEF Decided
<1> HIDE DEF r
<1>3. r.pc = "decided" BY <1>a DEF Decision
<1>4. Held(r) /\ ~WritesImage(r) BY <1>3 DEF Held, WritesImage
<1>5. RequestOK(r) BY <1>a
<1> QED BY <1>1, <1>2, <1>4, <1>5, Asks

\* The handlers of categories, products and variants up to their decision.
LEMMA CategoryReads ==
    ASSUME CatalogInv, NEW w \in Workers,
           \/ \E s \in Slugs : CategoryCreate(w, s)
           \/ \E c \in Categories, s \in Slugs : CategoryUpdate(w, c, s)
           \/ \E c \in Categories : CategoryDelete(w, c)
    PROVE  CatalogInv'
<1> USE DEF Ops, Serves, Decision
<1>1. Tables BY DEF CatalogInv
<1>2. ASSUME NEW s \in Slugs, CategoryCreate(w, s) PROVE CatalogInv'
    <2>1. [slug |-> s] \in CategoryRow BY DEF CategoryRow
    <2>2. RequestOK(Decision("category.create", None, None, [slug |-> s]))
        BY <2>1, DecisionOK
    <2> QED BY <1>2, <2>2, Decides DEF CategoryCreate
<1>3. ASSUME NEW c \in Categories, NEW s \in Slugs, CategoryUpdate(w, c, s) PROVE CatalogInv'
    <2>1. [slug |-> s] \in CategoryRow BY DEF CategoryRow
    <2>2. category[c] \in CategoryRow BY <1>1, <1>3, LiveRows DEF CategoryUpdate
    <2>3. RequestOK(Decision("category.update", c, category[c], [slug |-> s]))
        BY <2>1, <2>2, DecisionOK
    <2> QED BY <1>3, <2>3, Decides DEF CategoryUpdate
<1>4. ASSUME NEW c \in Categories, CategoryDelete(w, c) PROVE CatalogInv'
    <2>1. RequestOK(Decision("category.delete", c, category[c], None))
        BY DecisionOK
    <2> QED BY <1>4, <2>1, Decides DEF CategoryDelete
<1> QED BY <1>2, <1>3, <1>4

LEMMA AskedColumns ==
    /\ NewProducts \subseteq ProductRow
    /\ Updates \subseteq ProductUpdate
<1>1. MaxPrice \in Prices BY CatalogAssumption DEF Prices
<1>2. /\ Asked("price", Prices, MaxPrice) \subseteq Prices
      /\ Asked("price", Prices \cup {None}, None) \subseteq Prices \cup {None}
      /\ Asked("publish", ProductStatus, "active") \subseteq ProductStatus
    BY <1>1 DEF Asked, ProductStatus
<1>3. NewProducts \subseteq ProductRow BY <1>2 DEF NewProducts, ProductRow
<1>4. /\ Asked("price", Prices \cup {MISSING}, MISSING) \subseteq Prices \cup {MISSING}
      /\ Asked("price", Prices \cup {None, MISSING}, MISSING)
             \subseteq Prices \cup {None, MISSING}
      /\ Asked("move", Categories, MISSING) \subseteq Categories \cup {MISSING}
      /\ Asked("slug", Slugs, MISSING) \subseteq Slugs \cup {MISSING}
      /\ Asked("publish", ProductStatus, MISSING) \subseteq ProductStatus \cup {MISSING}
    BY DEF Asked
<1>6. \A c \in Categories \cup {MISSING} : [NoUpdate EXCEPT !.category = c] \in ProductUpdate
    BY DEF NoUpdate, ProductUpdate
<1>7. \A s \in Slugs \cup {MISSING} : [NoUpdate EXCEPT !.slug = s] \in ProductUpdate
    BY DEF NoUpdate, ProductUpdate
<1>8. \A s \in ProductStatus \cup {MISSING} : [NoUpdate EXCEPT !.status = s] \in ProductUpdate
    BY DEF NoUpdate, ProductUpdate
<1>9. Updates \subseteq ProductUpdate
    <2>1. [category : {MISSING}, slug : {MISSING}, status : {MISSING},
           base_price : Asked("price", Prices \cup {MISSING}, MISSING),
           sale_price : Asked("price", Prices \cup {None, MISSING}, MISSING)]
          \subseteq ProductUpdate
        BY <1>4 DEF ProductUpdate
    <2>2. {[NoUpdate EXCEPT !.category = c] : c \in Asked("move", Categories, MISSING)}
          \subseteq ProductUpdate
        BY <1>4, <1>6
    <2>3. {[NoUpdate EXCEPT !.slug = s] : s \in Asked("slug", Slugs, MISSING)}
          \subseteq ProductUpdate
        BY <1>4, <1>7
    <2>4. {[NoUpdate EXCEPT !.status = s] : s \in Asked("publish", ProductStatus, MISSING)}
          \subseteq ProductUpdate
        BY <1>4, <1>8
    <2> QED BY <2>1, <2>2, <2>3, <2>4, Zenon DEF Updates
<1> QED BY <1>3, <1>9

LEMMA ProductReads ==
    ASSUME CatalogInv, NEW w \in Workers,
           \/ \E row \in NewProducts, typed \in BOOLEAN : ProductCreate(w, row, typed)
           \/ \E p \in Products, to \in Updates \ {NoUpdate} : ProductUpdateRead(w, p, to)
           \/ \E p \in Products : ProductArchiveRead(w, p)
           \/ \E p \in Products : ProductDelete(w, p)
    PROVE  CatalogInv'
<1> USE DEF Ops, Serves, Decision
<1>1. Tables BY DEF CatalogInv
<1>2. ASSUME NEW row \in NewProducts, NEW typed \in BOOLEAN, ProductCreate(w, row, typed)
      PROVE  CatalogInv'
    <2>1. RequestOK(Decision("product.create", None, None, row))
        BY AskedColumns, DecisionOK
    <2> QED BY <1>2, <2>1, Decides DEF ProductCreate
<1>3. ASSUME NEW p \in Products, NEW to \in Updates, ProductUpdateRead(w, p, to)
      PROVE  CatalogInv'
    <2>1. product[p] \in ProductRow BY <1>1, <1>3, LiveRows DEF ProductUpdateRead
    <2>2. RequestOK(Decision("product.update", p, product[p], to))
        BY <2>1, AskedColumns, DecisionOK
    <2> QED BY <1>3, <2>2, Decides DEF ProductUpdateRead
<1>4. ASSUME NEW p \in Products, ProductArchiveRead(w, p) PROVE CatalogInv'
    <2>1. product[p] \in ProductRow BY <1>1, <1>4, LiveRows DEF ProductArchiveRead
    <2>2. RequestOK(Decision("product.archive", p, product[p], [status |-> "archived"]))
        BY <2>1, DecisionOK
    <2> QED BY <1>4, <2>2, Decides DEF ProductArchiveRead
<1>5. ASSUME NEW p \in Products, ProductDelete(w, p) PROVE CatalogInv'
    <2>1. RequestOK(Decision("product.delete", p, product[p], None))
        BY DecisionOK
    <2> QED BY <1>5, <2>1, Decides DEF ProductDelete
<1> QED BY <1>2, <1>3, <1>4, <1>5

LEMMA VariantReads ==
    ASSUME CatalogInv, NEW w \in Workers,
           \/ \E row \in NewVariants : VariantCreate(w, row)
           \/ \E v \in Variants, to \in VariantUpdate : VariantUpdateRead(w, v, to)
           \/ \E v \in Variants : VariantDelete(w, v)
           \/ \E v \in Variants : OrderLock(w, v)
    PROVE  CatalogInv'
<1>1. Tables BY DEF CatalogInv
<1>2. ASSUME NEW row \in NewVariants, VariantCreate(w, row) PROVE CatalogInv'
    <2>1. row \in VariantRow BY DEF NewVariants, VariantRow
    <2>2. RequestOK(Decision("variant.create", None, None, row))
        BY <2>1, DecisionOK DEF Ops, Serves, Decision
    <2> QED BY <1>2, <2>2, Decides DEF VariantCreate
<1>3. ASSUME NEW v \in Variants, NEW to \in VariantUpdate, VariantUpdateRead(w, v, to)
      PROVE  CatalogInv'
    <2>1. variant[v] \in VariantRow BY <1>1, <1>3, LiveRows DEF VariantUpdateRead
    <2>2. RequestOK(Decision("variant.update", v, variant[v], to))
        BY <2>1, DecisionOK DEF Ops, Serves, Decision
    <2> QED BY <1>3, <2>2, Decides DEF VariantUpdateRead
<1>4. ASSUME NEW v \in Variants, VariantDelete(w, v) PROVE CatalogInv'
    <2>1. variant[v] \in VariantRow BY <1>1, <1>4, LiveRows DEF VariantDelete
    <2>2. RequestOK(Decision("variant.deactivate", v, variant[v], [status |-> "inactive"]))
        BY <2>1, DecisionOK DEF Ops, Serves, Decision
    <2>3. RequestOK(Decision("variant.delete", v, variant[v], None))
        BY DecisionOK DEF Ops, Serves, Decision
    <2> QED BY <1>4, <2>2, <2>3, Decides DEF VariantDelete
<1>5. ASSUME NEW v \in Variants, OrderLock(w, v) PROVE CatalogInv'
    <2> DEFINE r == [Idle EXCEPT !.pc = "flushed", !.op = "order", !.id = v,
                                 !.seen = variant[v]]
    <2>1. /\ edit' = [edit EXCEPT ![w] = r] /\ v \in Live(variant)
          /\ UNCHANGED <<category, product, variant, image, ordered, load>>
        BY <1>5 DEF OrderLock
    <2>2. /\ DOMAIN r = Columns /\ r = [c \in DOMAIN r |-> r[c]]
          /\ r.pc = "flushed" /\ r.op = "order" /\ r.id = v /\ r.others = {}
        BY DEF Idle, Columns
    <2> HIDE DEF r
    <2>3. r = [pc |-> r.pc, op |-> r.op, id |-> r.id, seen |-> r.seen, to |-> r.to,
               others |-> r.others]
        BY <2>2, RequestIs
    <2>4. RequestOK(r) BY <2>2, <2>3 DEF RequestOK, Serves, Ops
    <2>5. Held(r) /\ ~WritesImage(r) BY <2>1, <2>2 DEF Held, WritesImage
    <2> QED BY <2>1, <2>4, <2>5, Asks
<1> QED BY <1>2, <1>3, <1>4, <1>5

-----------------------------------------------------------------------------
(* The commits: foreign keys and unique indexes.                            *)

\* A slug no other live row has is free for the row of an id that is not in use, too.
LEMMA SlugFreeFor ==
    ASSUME NEW table, NEW slug, NEW exclude, SlugFree(table, slug, exclude),
           NEW r, exclude = r \/ exclude \notin DOMAIN table
    PROVE  \A q \in Live(table) \ {r} : table[q].slug # slug
BY DEF SlugFree, Live

\* A row of the categories is inserted or updated, its slug free.
LEMMA CategoryWritten ==
    ASSUME CatalogInv, NEW w \in Workers, Answer(w),
           NEW c \in Categories, NEW row \in CategoryRow,
           \A d \in Live(category) \ {c} : category[d].slug # row.slug,
           category' = [category EXCEPT ![c] = row],
           UNCHANGED <<product, variant, image, ordered, load>>
    PROVE  CatalogInv'
<1>1. /\ Tables /\ category \in [Categories -> CategoryRow \cup {None, Gone}]
      /\ DOMAIN category = Categories
    BY LiveRows DEF CatalogInv, Tables
<1>2. /\ category' \in [Categories -> CategoryRow \cup {None, Gone}]
      /\ category'[c] = row
      /\ \A d \in Categories \ {c} : category'[d] = category[d]
    BY <1>1
<1>3. Tables' BY <1>1, <1>2 DEF Tables
<1>4. Live(category)' = Live(category) \cup {c}
    BY <1>1, <1>2, RowsAreRows DEF Live
<1>5. /\ Live(product)' = Live(product) /\ Live(variant)' = Live(variant)
      /\ Live(image)' = Live(image)
    BY DEF Live
<1>6. KeysHold'
    <2>1. \A b, d \in Live(category)' : category'[b].slug = category'[d].slug => b = d
        <3>1. \A b, d \in Live(category) : category[b].slug = category[d].slug => b = d
            BY DEF CatalogInv, KeysHold
        <3>2. \A d \in Live(category)' \ {c} : d \in Live(category) /\ category'[d] = category[d]
            BY <1>2, <1>4 DEF Live, Tables
        <3> QED BY <3>1, <3>2, <1>2
    <2> QED BY <2>1, <1>4, <1>5 DEF CatalogInv, KeysHold, OptionFree, VariantsOf
<1>7. OrderedLive' BY <1>5 DEF CatalogInv, OrderedLive
<1> QED BY <1>3, <1>5, <1>6, <1>7, IdleOK, Writes
        DEF Answer, CatalogInv, Locks, Held, At

\* A category without products is deleted.
LEMMA CategoryGone ==
    ASSUME CatalogInv, NEW w \in Workers, Answer(w),
           NEW c \in Categories, ~InUse(c),
           category' = [category EXCEPT ![c] = Gone],
           UNCHANGED <<product, variant, image, ordered, load>>
    PROVE  CatalogInv'
<1>1. /\ Tables /\ category \in [Categories -> CategoryRow \cup {None, Gone}]
      /\ DOMAIN category = Categories
    BY LiveRows DEF CatalogInv, Tables
<1>2. /\ category' \in [Categories -> CategoryRow \cup {None, Gone}]
      /\ \A d \in Categories \ {c} : category'[d] = category[d]
    BY <1>1
<1>3. Tables' BY <1>1, <1>2 DEF Tables
<1>4. Live(category)' = Live(category) \ {c}
    BY <1>1, <1>2 DEF Live
<1>5. /\ Live(product)' = Live(product) /\ Live(variant)' = Live(variant)
      /\ Live(image)' = Live(image)
    BY DEF Live
<1>6. KeysHold'
    <2>1. \A b, d \in Live(category)' : category'[b].slug = category'[d].slug => b = d
        BY <1>2, <1>4 DEF CatalogInv, KeysHold, Live
    <2>2. \A p \in Live(product)' : product'[p].category \in Live(category)'
        BY <1>4, <1>5 DEF CatalogInv, KeysHold, InUse
    <2> QED BY <2>1, <2>2, <1>5 DEF CatalogInv, KeysHold, OptionFree, VariantsOf
<1>7. OrderedLive' BY <1>5 DEF CatalogInv, OrderedLive
<1> QED BY <1>3, <1>5, <1>6, <1>7, IdleOK, Writes
        DEF Answer, CatalogInv, Locks, Held, At

LEMMA CategoryCommits ==
    ASSUME CatalogInv, NEW w \in Workers,
           \/ \E c \in Categories : CategoryInsert(w, c)
           \/ CategoryWrite(w) \/ CategoryRemove(w)
    PROVE  CatalogInv'
<1>1. Tables /\ RequestOK(edit[w]) /\ DOMAIN category = Categories
    BY LiveRows DEF CatalogInv, Requests
<1>2. ASSUME NEW c \in Categories, CategoryInsert(w, c) PROVE CatalogInv'
    <2> PICK row : row = edit[w].to OBVIOUS
    <2>1. /\ row \in CategoryRow /\ Answer(w)
          /\ UNCHANGED <<product, variant, image, ordered, load>>
          /\ category' = IF SlugFree(category, row.slug, None)
                         THEN [category EXCEPT ![c] = row] ELSE category
        BY <1>1, <1>2 DEF CategoryInsert, At, RequestOK, Serves
    <2>2. CASE SlugFree(category, row.slug, None)
        <3>1. \A d \in Live(category) \ {c} : category[d].slug # row.slug
            BY <2>2, <1>1, CatalogAssumption, SlugFreeFor
        <3> QED BY <2>1, <2>2, <3>1, CategoryWritten
    <2>3. CASE ~SlugFree(category, row.slug, None)
        BY <2>1, <2>3, Fails
    <2> QED BY <2>2, <2>3
<1>3. ASSUME CategoryWrite(w) PROVE CatalogInv'
    <2> PICK c, row : c = edit[w].id /\ row = Applied(category[c], edit[w].seen, edit[w].to)
        OBVIOUS
    <2>1. /\ c \in Categories /\ edit[w].to \in CategoryRow /\ Answer(w)
          /\ UNCHANGED <<product, variant, image, ordered, load>>
          /\ category' = IF c \in Live(category) /\ SlugFree(category, row.slug, c)
                         THEN [category EXCEPT ![c] = row] ELSE category
        BY <1>1, <1>3 DEF CategoryWrite, At, RequestOK, Serves
    <2>2. CASE c \in Live(category) /\ SlugFree(category, row.slug, c)
        <3>1. row \in CategoryRow
            BY <2>1, <2>2, <1>1, LiveRows, AppliedCategory
        <3>2. \A d \in Live(category) \ {c} : category[d].slug # row.slug
            BY <2>2, SlugFreeFor
        <3> QED BY <2>1, <2>2, <3>1, <3>2, CategoryWritten
    <2>3. CASE ~(c \in Live(category) /\ SlugFree(category, row.slug, c))
        BY <2>1, <2>3, Fails
    <2> QED BY <2>2, <2>3
<1>4. ASSUME CategoryRemove(w) PROVE CatalogInv'
    <2> PICK c : c = edit[w].id OBVIOUS
    <2>1. /\ c \in Categories /\ Answer(w)
          /\ UNCHANGED <<product, variant, image, ordered, load>>
          /\ category' = IF InUse(c) THEN category ELSE [category EXCEPT ![c] = Gone]
        BY <1>1, <1>4 DEF CategoryRemove, At, RequestOK, Serves
    <2>2. CASE InUse(c) BY <2>1, <2>2, Fails
    <2>3. CASE ~InUse(c) BY <2>1, <2>3, CategoryGone
    <2> QED BY <2>2, <2>3
<1> QED BY <1>2, <1>3, <1>4

\* A row of the products is inserted or updated, its category live and its slug free.
LEMMA ProductWritten ==
    ASSUME CatalogInv, NEW w \in Workers, Answer(w),
           NEW p \in Products, NEW row \in ProductRow,
           row.category \in Live(category),
           \A q \in Live(product) \ {p} : product[q].slug # row.slug,
           product' = [product EXCEPT ![p] = row],
           UNCHANGED <<category, variant, image, ordered, load>>
    PROVE  CatalogInv'
<1>1. /\ Tables /\ product \in [Products -> ProductRow \cup {None, Gone}]
      /\ DOMAIN product = Products
    BY LiveRows DEF CatalogInv, Tables
<1>2. /\ product' \in [Products -> ProductRow \cup {None, Gone}]
      /\ product'[p] = row
      /\ \A q \in Products \ {p} : product'[q] = product[q]
    BY <1>1
<1>3. Tables' BY <1>1, <1>2 DEF Tables
<1>4. Live(product)' = Live(product) \cup {p}
    BY <1>1, <1>2, RowsAreRows DEF Live
<1>5. /\ Live(category)' = Live(category) /\ Live(variant)' = Live(variant)
      /\ Live(image)' = Live(image)
    BY DEF Live
<1>6. KeysHold'
    <2>a. \A q \in Live(product)' \ {p} : q \in Live(product) /\ product'[q] = product[q]
        BY <1>2, <1>4 DEF Live, Tables
    <2>1. \A q, r \in Live(product)' : product'[q].slug = product'[r].slug => q = r
        <3>1. \A q, r \in Live(product) : product[q].slug = product[r].slug => q = r
            BY DEF CatalogInv, KeysHold
        <3> QED BY <2>a, <3>1, <1>2
    <2>2. \A q \in Live(product)' : product'[q].category \in Live(category)'
        BY <2>a, <1>2, <1>5 DEF CatalogInv, KeysHold
    <2>3. /\ \A v \in Live(variant)' : variant'[v].product \in Live(product)'
          /\ \A i \in Live(image)' : image'[i].product \in Live(product)'
        BY <1>4, <1>5 DEF CatalogInv, KeysHold
    <2> QED BY ZenonT(40), <2>1, <2>2, <2>3, <1>5 DEF CatalogInv, KeysHold, OptionFree, VariantsOf
<1>7. OrderedLive' BY <1>5 DEF CatalogInv, OrderedLive
<1> QED BY <1>3, <1>4, <1>5, <1>6, <1>7, IdleOK, Writes
        DEF Answer, CatalogInv, Locks, Held, At

LEMMA ProductCommits ==
    ASSUME CatalogInv, NEW w \in Workers,
           \/ \E p \in Products : ProductInsert(w, p)
           \/ ProductWrite(w) \/ ProductArchive(w)
    PROVE  CatalogInv'
<1>1. Tables /\ RequestOK(edit[w]) /\ DOMAIN product = Products
    BY LiveRows DEF CatalogInv, Requests
<1>2. ASSUME NEW p \in Products, ProductInsert(w, p) PROVE CatalogInv'
    <2> PICK row : row = edit[w].to OBVIOUS
    <2> DEFINE possible == row.category \in Live(category) /\ SlugFree(product, row.slug, None)
    <2>1. /\ row \in ProductRow /\ Answer(w)
          /\ UNCHANGED <<category, variant, image, ordered, load>>
          /\ product' = IF possible THEN [product EXCEPT ![p] = row] ELSE product
        BY <1>1, <1>2 DEF ProductInsert, At, RequestOK, Serves
    <2>2. CASE possible
        <3>1. \A q \in Live(product) \ {p} : product[q].slug # row.slug
            BY <2>2, <1>1, CatalogAssumption, SlugFreeFor
        <3> QED BY <2>1, <2>2, <3>1, ProductWritten
    <2>3. CASE ~possible
        BY <2>1, <2>3, Fails
    <2> QED BY <2>2, <2>3
<1>3. ASSUME ProductWrite(w) PROVE CatalogInv'
    <2> PICK p, row : p = edit[w].id /\ row = Applied(product[p], edit[w].seen, edit[w].to)
        OBVIOUS
    <2> DEFINE possible == /\ p \in Live(product) /\ SlugFree(product, row.slug, p)
                           /\ row.category \in Live(category)
    <2>1. /\ p \in Products /\ edit[w].to \in ProductUpdate /\ Answer(w)
          /\ UNCHANGED <<category, variant, image, ordered, load>>
          /\ product' = IF possible THEN [product EXCEPT ![p] = row] ELSE product
        BY <1>1, <1>3 DEF ProductWrite, At, RequestOK, Serves
    <2>2. CASE possible
        <3>1. row \in ProductRow
            BY <2>1, <2>2, <1>1, LiveRows, AppliedProduct
        <3>2. \A q \in Live(product) \ {p} : product[q].slug # row.slug
            BY <2>2, SlugFreeFor
        <3> QED BY <2>1, <2>2, <3>1, <3>2, ProductWritten
    <2>3. CASE ~possible
        BY <2>1, <2>3, Fails
    <2> QED BY <2>2, <2>3
<1>4. ASSUME ProductArchive(w) PROVE CatalogInv'
    <2> PICK p, row : p = edit[w].id
                      /\ row = Applied(product[p], edit[w].seen, [status |-> "archived"])
        OBVIOUS
    <2>1. /\ p \in Products /\ Answer(w)
          /\ UNCHANGED <<category, variant, image, ordered, load>>
          /\ product' = IF p \in Live(product) THEN [product EXCEPT ![p] = row] ELSE product
        BY <1>1, <1>4 DEF ProductArchive, At, RequestOK, Serves
    <2>2. CASE p \in Live(product)
        <3>1. product[p] \in ProductRow BY <2>2, <1>1, LiveRows
        <3>2. /\ row \in ProductRow /\ row.category = product[p].category
              /\ row.slug = product[p].slug
            BY <3>1, AppliedArchive
        <3>3. row.category \in Live(category) BY <2>2, <3>2 DEF CatalogInv, KeysHold
        <3>4. \A q \in Live(product) \ {p} : product[q].slug # row.slug
            BY <2>2, <3>2 DEF CatalogInv, KeysHold
        <3> QED BY <2>1, <2>2, <3>2, <3>3, <3>4, ProductWritten
    <2>3. CASE p \notin Live(product)
        BY <2>1, <2>3, Fails
    <2> QED BY <2>2, <2>3
<1> QED BY <1>2, <1>3, <1>4

\* A product that no variant keeps is deleted with its variants and images; whoever
\* has written one of these, or is adding an image, is waited for.
LEMMA ProductRemoved ==
    ASSUME CatalogInv, NEW w \in Workers, ProductRemove(w)
    PROVE  CatalogInv'
<1> PICK p, kept : p = edit[w].id /\ kept = \E v \in VariantsOf(p) : Referenced(v)
    OBVIOUS
<1>1. /\ Tables /\ RequestOK(edit[w]) /\ p \in Products
      /\ edit[w].pc = "decided" /\ ProductFree(w, p) /\ Answer(w)
      /\ UNCHANGED <<category, ordered, load>>
      /\ product' = IF kept THEN product ELSE [product EXCEPT ![p] = Gone]
      /\ variant' = [v \in Variants |->
             IF v \in VariantsOf(p) /\ ~kept THEN Gone ELSE variant[v]]
      /\ image' = [i \in Images |-> IF i \in ImagesOf(p) /\ ~kept THEN Gone ELSE image[i]]
    BY DEF CatalogInv, Requests, ProductRemove, At, RequestOK, Serves
<1>2. /\ product \in [Products -> ProductRow \cup {None, Gone}]
      /\ variant \in [Variants -> VariantRow \cup {None, Gone}]
      /\ image \in [Images -> ImageRow \cup {None, Gone}]
    BY <1>1 DEF Tables
<1>3. CASE kept
    <2>1. variant' = variant /\ image' = image /\ product' = product BY <1>1, <1>2, <1>3
    <2> QED BY <2>1, <1>1, Fails
<1>4. CASE ~kept
    <2>1. /\ product' \in [Products -> ProductRow \cup {None, Gone}] /\ product'[p] = Gone
          /\ \A q \in Products \ {p} : product'[q] = product[q]
          /\ variant' \in [Variants -> VariantRow \cup {None, Gone}]
          /\ \A v \in Variants :
                variant'[v] = IF v \in VariantsOf(p) THEN Gone ELSE variant[v]
          /\ image' \in [Images -> ImageRow \cup {None, Gone}]
          /\ \A i \in Images : image'[i] = IF i \in ImagesOf(p) THEN Gone ELSE image[i]
        BY <1>1, <1>2, <1>4
    <2>2. Tables' BY <1>1, <2>1 DEF Tables
    <2>3. /\ Live(category)' = Live(category) /\ Live(product)' = Live(product) \ {p}
          /\ Live(variant)' = Live(variant) \ VariantsOf(p)
          /\ Live(image)' = Live(image) \ ImagesOf(p)
        BY <1>1, <1>2, <2>1 DEF Live
    <2>4. /\ \A q \in Live(product)' : q \in Live(product) /\ product'[q] = product[q]
          /\ \A v \in Live(variant)' :
                /\ v \in Live(variant) /\ variant'[v] = variant[v] /\ variant[v].product # p
          /\ \A i \in Live(image)' :
                /\ i \in Live(image) /\ image'[i] = image[i] /\ image[i].product # p
        <3>1. /\ Live(product) \subseteq Products /\ Live(variant) \subseteq Variants
              /\ Live(image) \subseteq Images
            BY <1>2 DEF Live
        <3> QED BY <2>1, <2>3, <3>1 DEF VariantsOf, ImagesOf
    <2>5. KeysHold'
        <3>1. \A q \in Live(product)' : product'[q].category \in Live(category)'
            BY <2>3, <2>4 DEF CatalogInv, KeysHold
        <3>2. \A v \in Live(variant)' : variant'[v].product \in Live(product)'
            BY <2>3, <2>4 DEF CatalogInv, KeysHold
        <3>3. \A i \in Live(image)' : image'[i].product \in Live(product)'
            BY <2>3, <2>4 DEF CatalogInv, KeysHold
        <3>4. \A q, r \in Live(product)' : product'[q].slug = product'[r].slug => q = r
            BY <2>4 DEF CatalogInv, KeysHold
        <3>5. \A c, d \in Live(category)' : category'[c].slug = category'[d].slug => c = d
            BY <1>1, <2>3 DEF CatalogInv, KeysHold
        <3>6. \A v, u \in Live(variant)' :
                  variant'[v].product = variant'[u].product
                  /\ variant'[v].option = variant'[u].option => v = u
            BY <2>4 DEF CatalogInv, KeysHold, OptionFree, VariantsOf
        <3> QED BY <3>1, <3>2, <3>3, <3>4, <3>5, <3>6 DEF KeysHold, OptionFree, VariantsOf
    <2>6. OrderedLive'
        <3>1. \A v \in ordered : v \notin VariantsOf(p) BY <1>4 DEF Referenced
        <3> QED BY <3>1, <1>1, <2>3 DEF CatalogInv, OrderedLive
    <2>7. ASSUME NEW x \in Workers \ {w}
          PROVE  /\ At(x, "flushed", "order") => edit[x].id \in Live(variant)'
                 /\ At(x, "flushed", "image.create") => edit[x].id \in Live(product)'
                 /\ At(x, "flushed", "image.update") => edit[x].id \in Live(image)'
        <3>1. Held(edit[x]) BY DEF CatalogInv, Locks
        <3> QED BY <3>1, <1>1, <2>3
                DEF Held, At, ProductFree, VariantFree, ImagesFree
    <2> QED BY <1>1, <2>2, <2>5, <2>6, <2>7, IdleOK, Writes DEF Answer
<1> QED BY <1>3, <1>4

\* A row of the variants is inserted or updated, its product live and its option not
\* another variant's.
LEMMA VariantWritten ==
    ASSUME CatalogInv, NEW w \in Workers, Answer(w),
           NEW v \in Variants, NEW row \in VariantRow,
           row.product \in Live(product),
           \A u \in VariantsOf(row.product) \ {v} : variant[u].option # row.option,
           variant' = [variant EXCEPT ![v] = row],
           UNCHANGED <<category, product, image, ordered, load>>
    PROVE  CatalogInv'
<1>1. Tables /\ variant \in [Variants -> VariantRow \cup {None, Gone}]
    BY DEF CatalogInv, Tables
<1>2. /\ variant' \in [Variants -> VariantRow \cup {None, Gone}]
      /\ variant'[v] = row
      /\ \A u \in Variants \ {v} : variant'[u] = variant[u]
    BY <1>1
<1>3. Tables' BY <1>1, <1>2 DEF Tables
<1>4. Live(variant)' = Live(variant) \cup {v}
    BY <1>1, <1>2, RowsAreRows DEF Live
<1>5. /\ Live(category)' = Live(category) /\ Live(product)' = Live(product)
      /\ Live(image)' = Live(image)
    BY DEF Live
<1>6. KeysHold'
    <2>1. \A u \in Live(variant)' \ {v} : u \in Live(variant) /\ variant'[u] = variant[u]
        BY <1>2, <1>4 DEF Live, Tables
    <2>2. \A u \in Live(variant)' : variant'[u].product \in Live(product)'
        BY <2>1, <1>2, <1>5 DEF CatalogInv, KeysHold
    <2>3. \A s, u \in Live(variant)' :
              variant'[s].product = variant'[u].product
              /\ variant'[s].option = variant'[u].option => s = u
        <3>1. \A s, u \in Live(variant) :
                  variant[s].product = variant[u].product
                  /\ variant[s].option = variant[u].option => s = u
            BY DEF CatalogInv, KeysHold, OptionFree, VariantsOf
        <3>2. \A u \in Live(variant) \ {v} :
                  variant[u].product = row.product => variant[u].option # row.option
            BY DEF VariantsOf
        <3> QED BY <2>1, <3>1, <3>2, <1>2
    <2>4. \A u \in Live(variant)' : OptionFree(variant[u].product, variant[u].option, u)'
        BY <2>3 DEF OptionFree, VariantsOf
    <2> QED BY <2>2, <2>4, <1>5 DEF CatalogInv, KeysHold
<1>7. OrderedLive' BY <1>4 DEF CatalogInv, OrderedLive
<1> QED BY <1>3, <1>4, <1>5, <1>6, <1>7, IdleOK, Writes
        DEF Answer, CatalogInv, Locks, Held, At

\* A variant that nothing refers to, and no checkout has locked, is deleted.
LEMMA VariantGone ==
    ASSUME CatalogInv, NEW w \in Workers, Answer(w),
           NEW v \in Variants, VariantFree(w, v), v \notin ordered,
           variant' = [variant EXCEPT ![v] = Gone],
           UNCHANGED <<category, product, image, ordered, load>>
    PROVE  CatalogInv'
<1>1. Tables /\ variant \in [Variants -> VariantRow \cup {None, Gone}]
    BY DEF CatalogInv, Tables
<1>2. /\ variant' \in [Variants -> VariantRow \cup {None, Gone}]
      /\ variant'[v] = Gone
      /\ \A u \in Variants \ {v} : variant'[u] = variant[u]
    BY <1>1
<1>3. Tables' BY <1>1, <1>2 DEF Tables
<1>4. Live(variant)' = Live(variant) \ {v}
    BY <1>1, <1>2 DEF Live
<1>5. /\ Live(category)' = Live(category) /\ Live(product)' = Live(product)
      /\ Live(image)' = Live(image)
    BY DEF Live
<1>6. KeysHold'
    <2>1. \A u \in Live(variant)' : u \in Live(variant) /\ variant'[u] = variant[u]
        BY <1>2, <1>4 DEF Live, Tables
    <2>2. \A u \in Live(variant)' : variant'[u].product \in Live(product)'
        BY <2>1, <1>5 DEF CatalogInv, KeysHold
    <2>3. \A u \in Live(variant)' : OptionFree(variant[u].product, variant[u].option, u)'
        BY <2>1 DEF CatalogInv, KeysHold, OptionFree, VariantsOf
    <2> QED BY <2>2, <2>3, <1>5 DEF CatalogInv, KeysHold
<1>7. OrderedLive' BY <1>4 DEF CatalogInv, OrderedLive
<1>8. ASSUME NEW x \in Workers \ {w}
      PROVE  /\ At(x, "flushed", "order") => edit[x].id \in Live(variant)'
             /\ At(x, "flushed", "image.create") => edit[x].id \in Live(product)'
             /\ At(x, "flushed", "image.update") => edit[x].id \in Live(image)'
    BY <1>4, <1>5 DEF CatalogInv, Locks, Held, At, VariantFree
<1> QED BY <1>3, <1>6, <1>7, <1>8, IdleOK, Writes DEF Answer

\* Live variants come to have been moved, and to be ordered.
LEMMA VariantsSold ==
    ASSUME CatalogInv, NEW w \in Workers, Answer(w),
           NEW sold \in SUBSET Live(variant),
           ordered' = ordered \cup sold,
           variant' = [v \in Variants |->
               IF v \in sold THEN [variant[v] EXCEPT !.moved = TRUE] ELSE variant[v]],
           UNCHANGED <<category, product, image, load>>
    PROVE  CatalogInv'
<1>1. /\ Tables /\ variant \in [Variants -> VariantRow \cup {None, Gone}]
      /\ Live(variant) = {v \in Variants : variant[v] \in VariantRow}
    BY LiveRows DEF CatalogInv, Tables
<1>2. \A v \in sold : /\ variant'[v] \in VariantRow
                      /\ variant'[v].product = variant[v].product
                      /\ variant'[v].option = variant[v].option
    <2> SUFFICES ASSUME NEW v \in sold
                 PROVE  /\ variant'[v] \in VariantRow
                        /\ variant'[v].product = variant[v].product
                        /\ variant'[v].option = variant[v].option
        OBVIOUS
    <2>1. variant'[v] = [variant[v] EXCEPT !.moved = TRUE] /\ variant[v] \in VariantRow
        BY <1>1
    <2> QED BY <2>1 DEF VariantRow
<1>3. /\ variant' \in [Variants -> VariantRow \cup {None, Gone}]
      /\ \A v \in Variants \ sold : variant'[v] = variant[v]
    BY <1>1, <1>2
<1>4. Tables' BY <1>1, <1>3 DEF Tables
<1>5. Live(variant)' = Live(variant)
    <2>1. DOMAIN variant = Variants /\ DOMAIN variant' = Variants BY <1>1, <1>3
    <2>2. \A v \in Variants : variant'[v] \in {None, Gone} <=> variant[v] \in {None, Gone}
        <3>1. \A row \in VariantRow : row \notin {None, Gone} BY RowsAreRows
        <3>2. \A v \in sold : variant'[v] \in VariantRow /\ variant[v] \in VariantRow
            BY <1>1, <1>2
        <3>3. \A v \in Variants \ sold : variant'[v] = variant[v] BY <1>3
        <3> QED BY <3>1, <3>2, <3>3
    <2> QED BY <2>1, <2>2 DEF Live
<1>6. /\ Live(category)' = Live(category) /\ Live(product)' = Live(product)
      /\ Live(image)' = Live(image)
    BY DEF Live
<1>7. KeysHold'
    <2>1. \A v \in Live(variant) : /\ variant'[v].product = variant[v].product
                                   /\ variant'[v].option = variant[v].option
        BY <1>1, <1>2, <1>3
    <2>2. \A v \in Live(variant)' : variant'[v].product \in Live(product)'
        BY <2>1, <1>5, <1>6 DEF CatalogInv, KeysHold
    <2>3. \A v \in Live(variant)' : OptionFree(variant[v].product, variant[v].option, v)'
        BY <2>1, <1>5 DEF CatalogInv, KeysHold, OptionFree, VariantsOf
    <2> QED BY <2>2, <2>3, <1>6 DEF CatalogInv, KeysHold
<1>8. OrderedLive' BY <1>5 DEF CatalogInv, OrderedLive
<1> QED BY <1>4, <1>5, <1>6, <1>7, <1>8, IdleOK, Writes
        DEF Answer, CatalogInv, Locks, Held, At

LEMMA VariantCommits ==
    ASSUME CatalogInv, NEW w \in Workers,
           \/ \E v \in Variants : VariantInsert(w, v)
           \/ VariantWrite(w) \/ VariantRemove(w) \/ OrderPlace(w)
    PROVE  CatalogInv'
<1>1. /\ Tables /\ RequestOK(edit[w]) /\ DOMAIN variant = Variants
      /\ Live(variant) = {v \in Variants : variant[v] \in VariantRow}
    BY LiveRows DEF CatalogInv, Requests
<1>2. ASSUME NEW v \in Variants, VariantInsert(w, v) PROVE CatalogInv'
    <2> PICK row : row = edit[w].to OBVIOUS
    <2> DEFINE possible == /\ row.product \in Live(product)
                           /\ OptionFree(row.product, row.option, None)
    <2>1. /\ row \in VariantRow /\ Answer(w)
          /\ UNCHANGED <<category, product, image, ordered, load>>
          /\ variant' = IF possible THEN [variant EXCEPT ![v] = row] ELSE variant
        BY <1>1, <1>2 DEF VariantInsert, At, RequestOK, Serves
    <2>2. CASE possible
        <3>1. \A u \in VariantsOf(row.product) \ {v} : variant[u].option # row.option
            BY <2>2, <1>1, CatalogAssumption DEF OptionFree, VariantsOf
        <3> QED BY <2>1, <2>2, <3>1, VariantWritten
    <2>3. CASE ~possible
        BY <2>1, <2>3, Fails
    <2> QED BY <2>2, <2>3
<1>3. ASSUME VariantWrite(w) PROVE CatalogInv'
    <2> PICK v, row : v = edit[w].id /\ row = Applied(variant[v], edit[w].seen, edit[w].to)
        OBVIOUS
    <2> DEFINE possible == v \in Live(variant) /\ OptionFree(row.product, row.option, v)
    <2>1. /\ v \in Variants /\ edit[w].to \in VariantUpdate \cup {[status |-> "inactive"]}
          /\ Answer(w) /\ UNCHANGED <<category, product, image, ordered, load>>
          /\ variant' = IF possible THEN [variant EXCEPT ![v] = row] ELSE variant
        BY <1>1, <1>3 DEF VariantWrite, At, RequestOK, Serves
    <2>2. CASE possible
        <3>1. variant[v] \in VariantRow BY <2>2, <1>1
        <3>2. row \in VariantRow /\ row.product = variant[v].product
            BY <2>1, <3>1, AppliedVariant
        <3>3. row.product \in Live(product) BY <2>2, <3>2 DEF CatalogInv, KeysHold
        <3>4. \A u \in VariantsOf(row.product) \ {v} : variant[u].option # row.option
            BY <2>2 DEF OptionFree
        <3> QED BY <2>1, <2>2, <3>2, <3>3, <3>4, VariantWritten
    <2>3. CASE ~possible
        BY <2>1, <2>3, Fails
    <2> QED BY <2>2, <2>3
<1>4. ASSUME VariantRemove(w) PROVE CatalogInv'
    <2> PICK v : v = edit[w].id OBVIOUS
    <2>1. /\ v \in Variants /\ VariantFree(w, v) /\ Answer(w)
          /\ UNCHANGED <<category, product, image, ordered, load>>
          /\ variant' = IF v \in Live(variant) /\ Referenced(v) THEN variant
                        ELSE [variant EXCEPT ![v] = Gone]
        BY <1>1, <1>4 DEF VariantRemove, At, RequestOK, Serves
    <2>2. CASE v \in Live(variant) /\ Referenced(v) BY <2>1, <2>2, Fails
    <2>3. CASE ~(v \in Live(variant) /\ Referenced(v))
        <3>1. v \notin ordered BY <2>3 DEF CatalogInv, OrderedLive, Referenced
        <3> QED BY <2>1, <2>3, <3>1, VariantGone
    <2> QED BY <2>2, <2>3
<1>5. ASSUME OrderPlace(w) PROVE CatalogInv'
    <2> PICK v : v = edit[w].id OBVIOUS
    <2>1. /\ Answer(w) /\ UNCHANGED <<category, product, image, load>>
          /\ ordered' = ordered \cup {v}
          /\ variant' = [variant EXCEPT ![v].moved = TRUE]
          /\ v \in Live(variant)
        BY <1>5 DEF OrderPlace, CatalogInv, Locks, Held, At
    <2> DEFINE sold == {v}
    <2>2. /\ sold \in SUBSET Live(variant) /\ ordered' = ordered \cup sold
          /\ variant' = [u \in Variants |->
                IF u \in sold THEN [variant[u] EXCEPT !.moved = TRUE] ELSE variant[u]]
        BY <2>1, <1>1 DEF Tables
    <2> HIDE DEF sold
    <2> QED BY <2>1, <2>2, VariantsSold
<1> QED BY <1>2, <1>3, <1>4, <1>5

\* The images' handlers up to the commit: a row that is written is locked, and while
\* an image is being added its product stays.
LEMMA ImageReads ==
    ASSUME CatalogInv, NEW w \in Workers,
           \/ \E p \in Products, primary \in BOOLEAN \cup {MISSING} : ImageCreate(w, p, primary)
           \/ \E i \in Images, to \in ImageUpdate : ImageUpdateRead(w, i, to)
           \/ \E i \in Images : ImageDelete(w, i)
    PROVE  CatalogInv'
<1>1. Tables BY DEF CatalogInv
<1>2. ASSUME NEW p \in Products, NEW is_primary \in BOOLEAN \cup {MISSING},
             ImageCreate(w, p, is_primary)
      PROVE  CatalogInv'
    <2> PICK primary : primary = IF is_primary = MISSING THEN ImagesOf(p) = {} ELSE is_primary
        OBVIOUS
    <2> DEFINE to == [product |-> p, is_primary |-> primary]
    <2>1. primary \in BOOLEAN
        <3>1. (ImagesOf(p) = {}) \in BOOLEAN BY Zenon
        <3> QED BY <3>1
    <2>2. to \in ImageRow /\ to.product = p BY <2>1 DEF ImageRow
    <2>3. Decided(w, "image.create", p, is_primary, to) BY <1>2 DEF ImageCreate
    <2> HIDE DEF to
    <2>4. RequestOK(Decision("image.create", p, is_primary, to))
        BY <2>2, DecisionOK DEF Ops, Serves, Decision
    <2> QED BY <2>3, <2>4, Decides
<1>3. ASSUME NEW i \in Images, NEW to \in ImageUpdate, ImageUpdateRead(w, i, to)
      PROVE  CatalogInv'
    <2>1. image[i] \in ImageRow BY <1>1, <1>3, LiveRows DEF ImageUpdateRead
    <2>2. RequestOK(Decision("image.update", i, image[i], to))
        BY <2>1, DecisionOK DEF Ops, Serves, Decision
    <2> QED BY <1>3, <2>2, Decides DEF ImageUpdateRead
<1>4. ASSUME NEW i \in Images, ImageDelete(w, i) PROVE CatalogInv'
    <2>1. image[i] \in ImageRow BY <1>1, <1>4, LiveRows DEF ImageDelete
    <2>2. RequestOK(Decision("image.delete", i, image[i], None))
        BY <2>1, DecisionOK DEF Ops, Serves, Decision
    <2> QED BY <1>4, <2>2, Decides DEF ImageDelete
<1> QED BY <1>2, <1>3, <1>4

\* A request of the images goes from its decision to having written its row.
LEMMA FlushedOK ==
    ASSUME CatalogInv, NEW w \in Workers, NEW others \in SUBSET Images, NEW there,
           edit[w].pc = "decided",
           edit[w].op \in {"image.create", "image.update", "image.delete"},
           Flushed(w, there, others),
           there /\ edit[w].op = "image.create" => edit[w].id \in Live(product),
           there /\ edit[w].op = "image.update" => edit[w].id \in Live(image),
           edit[w].op # "image.create" => ImagesFree(w, {edit[w].id})
    PROVE  CatalogInv'
<1>1. UNCHANGED <<category, product, variant, image, ordered, load>> BY DEF Flushed
<1>2. CASE there
    <2> PICK old : old = edit[w] OBVIOUS
    <2> DEFINE r == [old EXCEPT !.pc = "flushed", !.others = others]
    <2>1. edit' = [edit EXCEPT ![w].pc = "flushed", ![w].others = others]
        BY <1>2 DEF Flushed
    <2>2. RequestOK(old) /\ edit = [x \in Workers |-> edit[x]]
        BY DEF CatalogInv, Requests
    <2>3. edit' = [edit EXCEPT ![w] = r] BY <2>1, <2>2
    <2>4. DOMAIN old = Columns /\ old = [c \in DOMAIN old |-> old[c]]
        BY <2>2, RequestColumns
    <2>5. /\ DOMAIN r = Columns /\ r = [c \in DOMAIN r |-> r[c]]
          /\ r.pc = "flushed" /\ r.op = old.op /\ r.id = old.id /\ r.seen = old.seen
          /\ r.to = old.to /\ r.others = others
        BY <2>4 DEF Columns
    <2> HIDE DEF r
    <2>6. r = [pc |-> r.pc, op |-> r.op, id |-> r.id, seen |-> r.seen, to |-> r.to,
               others |-> r.others]
        BY <2>5, RequestIs
    <2>7. RequestOK(r) BY <2>2, <2>5, <2>6 DEF RequestOK, Serves
    <2>8. Held(r) BY <1>2, <2>5 DEF Held
    <2>9. WritesImage(r) => \A x \in Workers \ {w} : WritesImage(edit[x]) => edit[x].id # r.id
        BY <2>5 DEF WritesImage, ImagesFree, At
    <2> QED BY <1>1, <2>3, <2>7, <2>8, <2>9, Asks
<1>3. CASE ~there
    BY <1>1, <1>3, Fails DEF Flushed
<1> QED BY <1>2, <1>3

LEMMA ImagesAreImages ==
    ASSUME Tables, NEW p, NEW keep
    PROVE  ImagesOf(p) \subseteq Images /\ OtherPrimaries(p, keep) \subseteq Images
BY LiveRows DEF ImagesOf, OtherPrimaries

LEMMA ImageFlushes ==
    ASSUME CatalogInv, NEW w \in Workers,
           ImageCreateFlush(w) \/ ImageUpdateFlush(w) \/ ImageDeleteFlush(w)
    PROVE  CatalogInv'
<1>1. Tables BY DEF CatalogInv
<1>2. ASSUME ImageCreateFlush(w) PROVE CatalogInv'
    <2> PICK there, others :
            /\ there = (edit[w].id \in Live(product))
            /\ others = IF edit[w].to.is_primary THEN OtherPrimaries(edit[w].id, None) ELSE {}
        OBVIOUS
    <2>1. /\ edit[w].pc = "decided" /\ edit[w].op = "image.create"
          /\ Flushed(w, there, others)
        BY <1>2 DEF ImageCreateFlush, At
    <2>2. others \in SUBSET Images BY <1>1, ImagesAreImages
    <2> QED BY <2>1, <2>2, FlushedOK
<1>3. ASSUME ImageUpdateFlush(w) PROVE CatalogInv'
    <2> PICK i, there, others :
            /\ i = edit[w].id /\ there = (i \in Live(image))
            /\ others = IF edit[w].to.is_primary = TRUE
                        THEN OtherPrimaries(edit[w].seen.product, i) ELSE {}
        OBVIOUS
    <2>1. /\ edit[w].pc = "decided" /\ edit[w].op = "image.update"
          /\ ImagesFree(w, {i}) /\ Flushed(w, there, others)
        BY <1>3 DEF ImageUpdateFlush, At
    <2>2. others \in SUBSET Images BY <1>1, ImagesAreImages
    <2> QED BY <2>1, <2>2, FlushedOK
<1>4. ASSUME ImageDeleteFlush(w) PROVE CatalogInv'
    <2> PICK i : i = edit[w].id OBVIOUS
    <2>1. PICK others \in Replacements(i, edit[w].seen) : Flushed(w, TRUE, others)
        BY <1>4 DEF ImageDeleteFlush
    <2>2. edit[w].pc = "decided" /\ edit[w].op = "image.delete" /\ ImagesFree(w, {i})
        BY <1>4 DEF ImageDeleteFlush, At
    <2>3. others \in SUBSET Images BY <1>1, ImagesAreImages DEF Replacements
    <2> QED BY <2>1, <2>2, <2>3, FlushedOK
<1> QED BY <1>2, <1>3, <1>4

\* The commit of an image and of the others it changes: no image of another request
\* is deleted, and every image written belongs to a live product.
LEMMA ImageCommitted ==
    ASSUME CatalogInv, NEW w \in Workers, NEW primary \in BOOLEAN,
           NEW written \in [Images -> ImageRow \cup {None, Gone}],
           ImageCommit(w, written, primary),
           \A i \in Images : written[i] \in ImageRow => written[i].product \in Live(product),
           \A x \in Workers \ {w} :
               At(x, "flushed", "image.update") => written[edit[x].id] \in ImageRow
    PROVE  CatalogInv'
<1> PICK others : others = edit[w].others OBVIOUS
<1>1. /\ Answer(w) /\ UNCHANGED <<category, product, variant, ordered, load>>
      /\ image' = IF others \subseteq Live(image)
                  THEN [i \in Images |->
                          IF i \in others THEN [image[i] EXCEPT !.is_primary = primary]
                                          ELSE written[i]]
                  ELSE image
    BY DEF ImageCommit
<1>2. CASE ~(others \subseteq Live(image)) BY <1>1, <1>2, Fails
<1>3. CASE others \subseteq Live(image)
    <2>1. /\ Tables /\ image \in [Images -> ImageRow \cup {None, Gone}]
          /\ Live(image) = {i \in Images : image[i] \in ImageRow}
        BY LiveRows DEF CatalogInv, Tables
    <2>2. \A i \in others : /\ image'[i] \in ImageRow
                            /\ image'[i].product = image[i].product
        <3> SUFFICES ASSUME NEW i \in others
                     PROVE  image'[i] \in ImageRow /\ image'[i].product = image[i].product
            OBVIOUS
        <3>1. image'[i] = [image[i] EXCEPT !.is_primary = primary] /\ image[i] \in ImageRow
            BY <1>1, <1>3, <2>1
        <3> QED BY <3>1 DEF ImageRow
    <2>3. /\ image' \in [Images -> ImageRow \cup {None, Gone}]
          /\ \A i \in Images \ others : image'[i] = written[i]
        BY <1>1, <1>3, <2>2
    <2>4. Tables' BY <1>1, <2>1, <2>3 DEF Tables
    <2>5. /\ Live(category)' = Live(category) /\ Live(product)' = Live(product)
          /\ Live(variant)' = Live(variant)
          /\ Live(image)' = {i \in Images : image'[i] \in ImageRow}
        <3>1. /\ Live(category)' = Live(category) /\ Live(product)' = Live(product)
              /\ Live(variant)' = Live(variant)
            BY <1>1 DEF Live
        <3>2. \A row \in ImageRow : row \notin {None, Gone} BY RowsAreRows
        <3>3. DOMAIN image' = Images BY <2>3
        <3>4. Live(image)' = {i \in Images : image'[i] \in ImageRow}
            BY <2>3, <3>2, <3>3 DEF Live
        <3> QED BY <3>1, <3>4
    <2>6. KeysHold'
        <3>1. \A i \in Live(image)' : image'[i].product \in Live(product)'
            <4> SUFFICES ASSUME NEW i \in Images, image'[i] \in ImageRow
                         PROVE  image'[i].product \in Live(product)
                BY <2>5
            <4>1. CASE i \in others
                BY <4>1, <1>3, <2>2 DEF CatalogInv, KeysHold
            <4>2. CASE i \notin others
                BY <4>2, <2>3
            <4> QED BY <4>1, <4>2
        <3> QED BY <1>1, <3>1, <2>5 DEF CatalogInv, KeysHold, OptionFree, VariantsOf
    <2>7. OrderedLive' BY <1>1, <2>5 DEF CatalogInv, OrderedLive
    <2>8. ASSUME NEW x \in Workers \ {w}
          PROVE  /\ At(x, "flushed", "order") => edit[x].id \in Live(variant)'
                 /\ At(x, "flushed", "image.create") => edit[x].id \in Live(product)'
                 /\ At(x, "flushed", "image.update") => edit[x].id \in Live(image)'
        <3>1. Held(edit[x]) BY DEF CatalogInv, Locks
        <3>2. ASSUME At(x, "flushed", "image.update") PROVE edit[x].id \in Live(image)'
            <4> PICK i : i = edit[x].id OBVIOUS
            <4>1. i \in Live(image) /\ i \in Images BY <3>1, <3>2, <2>1 DEF Held, At
            <4>2. written[i] \in ImageRow BY <3>2
            <4> QED BY <4>1, <4>2, <2>2, <2>3, <2>5
        <3> QED BY <3>1, <3>2, <2>5 DEF Held, At
    <2> QED BY <1>1, <2>4, <2>6, <2>7, <2>8, IdleOK, Writes DEF Answer
<1> QED BY <1>2, <1>3

LEMMA ImageCommits ==
    ASSUME CatalogInv, NEW w \in Workers,
           \/ \E i \in Images : ImageInsert(w, i)
           \/ ImageWrite(w) \/ ImageRemove(w)
    PROVE  CatalogInv'
<1>1. /\ Tables /\ RequestOK(edit[w]) /\ Held(edit[w])
      /\ image \in [Images -> ImageRow \cup {None, Gone}]
      /\ Live(image) = {i \in Images : image[i] \in ImageRow}
      /\ \A i \in Live(image) : image[i].product \in Live(product)
      /\ \A x \in Workers : At(x, "flushed", "image.update") => edit[x].id \in Live(image)
    BY LiveRows DEF CatalogInv, Requests, Tables, Locks, KeysHold, Held, At
<1>2. ASSUME NEW i \in Images, ImageInsert(w, i) PROVE CatalogInv'
    <2> DEFINE written == [image EXCEPT ![i] = edit[w].to]
    <2>1. /\ edit[w].to \in ImageRow /\ edit[w].to.product = edit[w].id
          /\ edit[w].id \in Live(product) /\ i \in Unused(image)
          /\ ImageCommit(w, written, FALSE)
        BY <1>1, <1>2 DEF ImageInsert, At, RequestOK, Serves, Held
    <2>2. /\ written \in [Images -> ImageRow \cup {None, Gone}]
          /\ written[i] = edit[w].to
          /\ \A j \in Images \ {i} : written[j] = image[j]
        BY <1>1, <2>1
    <2>3. i \notin Live(image) BY <2>1 DEF Live, Unused
    <2> HIDE DEF written
    <2>4. \A j \in Images : written[j] \in ImageRow => written[j].product \in Live(product)
        BY <1>1, <2>1, <2>2
    <2>5. \A x \in Workers \ {w} :
              At(x, "flushed", "image.update") => written[edit[x].id] \in ImageRow
        BY <1>1, <2>2, <2>3
    <2> QED BY <2>1, <2>2, <2>4, <2>5, ImageCommitted
<1>3. ASSUME ImageWrite(w) PROVE CatalogInv'
    <2> PICK i, row : /\ i = edit[w].id
                      /\ row = Applied(image[i], edit[w].seen,
                                       [is_primary |-> edit[w].to.is_primary])
        OBVIOUS
    <2> DEFINE written == [image EXCEPT ![i] = row]
    <2>1. /\ i \in Live(image) /\ edit[w].to \in ImageUpdate
          /\ ImageCommit(w, written, FALSE)
        BY <1>1, <1>3 DEF ImageWrite, At, RequestOK, Serves, Held
    <2>2. row \in ImageRow /\ row.product = image[i].product
        <3>1. edit[w].to.is_primary \in BOOLEAN \cup {MISSING} BY <2>1 DEF ImageUpdate
        <3>2. image[i] \in ImageRow BY <1>1, <2>1
        <3> QED BY <3>1, <3>2, AppliedImage
    <2>3. /\ written \in [Images -> ImageRow \cup {None, Gone}]
          /\ written[i] = row
          /\ \A j \in Images \ {i} : written[j] = image[j]
        BY <1>1, <2>1, <2>2
    <2> HIDE DEF written
    <2>4. \A j \in Images : written[j] \in ImageRow => written[j].product \in Live(product)
        BY <1>1, <2>1, <2>2, <2>3
    <2>5. \A x \in Workers \ {w} :
              At(x, "flushed", "image.update") => written[edit[x].id] \in ImageRow
        BY <1>1, <2>2, <2>3
    <2> QED BY <2>1, <2>3, <2>4, <2>5, ImageCommitted
<1>4. ASSUME ImageRemove(w) PROVE CatalogInv'
    <2> PICK i : i = edit[w].id OBVIOUS
    <2> DEFINE written == [image EXCEPT ![i] = Gone]
    <2>1. /\ i \in Images /\ ImageCommit(w, written, TRUE) /\ WritesImage(edit[w])
        BY <1>1, <1>4 DEF ImageRemove, At, RequestOK, Serves, WritesImage
    <2>2. /\ written \in [Images -> ImageRow \cup {None, Gone}]
          /\ written[i] = Gone
          /\ \A j \in Images \ {i} : written[j] = image[j]
        BY <1>1, <2>1
    <2>3. \A x \in Workers \ {w} : At(x, "flushed", "image.update") => edit[x].id # i
        BY <2>1 DEF CatalogInv, Apart, WritesImage, At
    <2> HIDE DEF written
    <2>4. \A j \in Images : written[j] \in ImageRow => written[j].product \in Live(product)
        BY <1>1, <2>2, RowsAreRows
    <2>5. \A x \in Workers \ {w} :
              At(x, "flushed", "image.update") => written[edit[x].id] \in ImageRow
        BY <1>1, <2>2, <2>3
    <2> QED BY <2>1, <2>2, <2>4, <2>5, ImageCommitted
<1> QED BY <1>2, <1>3, <1>4

-----------------------------------------------------------------------------
(* The development data.                                                    *)

\* The key an id was given to.
KeyOf(ids, r) == CHOOSE k \in DOMAIN ids : ids[k] = r

LEMMA KeysOfInjection ==
    ASSUME NEW S, NEW T, NEW ids \in Injection(S, T)
    PROVE  /\ ids \in [S -> T] /\ DOMAIN ids = S
           /\ \A j, k \in S : ids[j] = ids[k] => j = k
           /\ \A r : (\E k \in DOMAIN ids : ids[k] = r) =>
                        KeyOf(ids, r) \in S /\ ids[KeyOf(ids, r)] = r
           /\ \A k \in S : KeyOf(ids, ids[k]) = k
<1>1. /\ ids \in [S -> T] /\ DOMAIN ids = S
      /\ \A j, k \in S : ids[j] = ids[k] => j = k
    BY DEF Injection, IsInjective
<1>2. \A r : (\E k \in DOMAIN ids : ids[k] = r) =>
                KeyOf(ids, r) \in S /\ ids[KeyOf(ids, r)] = r
    BY <1>1 DEF KeyOf
<1>3. \A k \in S : KeyOf(ids, ids[k]) = k BY <1>1, <1>2
<1> QED BY <1>1, <1>2, <1>3

\* The table has new rows, each under an id of its own, and the old ones as they were.
Inserted(table, after, S, ids, new) ==
    /\ \A k \in S : /\ ids[k] \in Live(after) /\ ids[k] \notin Live(table)
                    /\ after[ids[k]] = new[k]
    /\ \A r \in Live(table) : r \in Live(after) /\ after[r] = table[r]
    /\ \A r \in Live(after) : r \in Live(table) \/ \E k \in S : r = ids[k]
    /\ \A j, k \in S : ids[j] = ids[k] => j = k

\* The table with each new row under the unused id that its key was given.
Fills(Ids, Rows, table, after, S, ids, new) ==
    /\ None \notin Rows /\ Gone \notin Rows
    /\ table \in [Ids -> Rows \cup {None, Gone}]
    /\ ids \in Injection(S, Unused(table)) /\ new \in [S -> Rows]
    /\ after = [r \in Ids |-> after[r]]
    /\ \A r \in Ids : after[r] = IF \E k \in DOMAIN ids : ids[k] = r
                                 THEN new[KeyOf(ids, r)] ELSE table[r]

LEMMA RowsInserted ==
    ASSUME NEW Ids, NEW Rows, NEW table, NEW after, NEW S, NEW ids, NEW new,
           Fills(Ids, Rows, table, after, S, ids, new)
    PROVE  /\ after \in [Ids -> Rows \cup {None, Gone}]
           /\ Inserted(table, after, S, ids, new)
<1>1. /\ ids \in [S -> Unused(table)] /\ DOMAIN ids = S
      /\ \A j, k \in S : ids[j] = ids[k] => j = k
      /\ \A r : (\E k \in S : ids[k] = r) =>
                   KeyOf(ids, r) \in S /\ ids[KeyOf(ids, r)] = r
      /\ \A k \in S : KeyOf(ids, ids[k]) = k
    BY KeysOfInjection DEF Fills
<1>a. /\ None \notin Rows /\ Gone \notin Rows
      /\ table \in [Ids -> Rows \cup {None, Gone}] /\ new \in [S -> Rows]
      /\ after = [r \in Ids |-> after[r]]
      /\ \A r \in Ids : after[r] = IF \E k \in DOMAIN ids : ids[k] = r
                                   THEN new[KeyOf(ids, r)] ELSE table[r]
    BY DEF Fills
<1>2. \A k \in S : ids[k] \in Ids /\ table[ids[k]] = None
    BY <1>1, <1>a DEF Unused
<1>3. \A k \in S : after[ids[k]] = new[k]
    BY <1>1, <1>2, <1>a
<1>4. \A r \in Ids : (\A k \in S : ids[k] # r) => after[r] = table[r]
    BY <1>1, <1>a
<1>5. after \in [Ids -> Rows \cup {None, Gone}]
    BY <1>1, <1>a
<1>6. \A k \in S : ids[k] \in Live(after) /\ ids[k] \notin Live(table)
    BY <1>2, <1>3, <1>5, <1>a DEF Live
<1>7. \A r \in Live(table) : r \in Live(after) /\ after[r] = table[r]
    BY <1>2, <1>4, <1>5, <1>a DEF Live
<1>8. \A r \in Live(after) : r \in Live(table) \/ \E k \in S : r = ids[k]
    BY <1>4, <1>5, <1>a DEF Live
<1> QED BY <1>1, <1>3, <1>5, <1>6, <1>7, <1>8 DEF Inserted

\* The rows of the development data are all inserted: the new products are in live
\* categories, the new variants and images belong to new products, no two alike.
Grows(missing, absent, cs, ps, vs, is, newC, newP, newV, newI) ==
    /\ Inserted(category, category', missing, cs, newC)
    /\ Inserted(product, product', absent, ps, newP)
    /\ Inserted(variant, variant', absent \X Options, vs, newV)
    /\ Inserted(image, image', absent \X BOOLEAN, is, newI)
    /\ \A s \in missing : newC[s].slug = s /\ SlugFree(category, s, None)
    /\ \A s \in absent : /\ newP[s].slug = s /\ SlugFree(product, s, None)
                         /\ newP[s].category \in Live(category)
                            \/ \E m \in missing : newP[s].category = cs[m]
    /\ \A k \in absent \X Options : newV[k].product = ps[k[1]] /\ newV[k].option = k[2]
    /\ \A k \in absent \X BOOLEAN : newI[k].product = ps[k[1]]

LEMMA SeedKeeps ==
    ASSUME CatalogInv, NEW w \in Workers, NEW r, RequestOK(r), r.pc # "flushed",
           edit' = [edit EXCEPT ![w] = r], UNCHANGED <<ordered, load>>, Tables',
           NEW missing, NEW absent, NEW cs, NEW ps, NEW vs, NEW is,
           NEW newC, NEW newP, NEW newV, NEW newI,
           Grows(missing, absent, cs, ps, vs, is, newC, newP, newV, newI)
    PROVE  CatalogInv'
<1>a. /\ Inserted(category, category', missing, cs, newC)
      /\ Inserted(product, product', absent, ps, newP)
      /\ Inserted(variant, variant', absent \X Options, vs, newV)
      /\ Inserted(image, image', absent \X BOOLEAN, is, newI)
      /\ \A s \in missing : newC[s].slug = s /\ SlugFree(category, s, None)
      /\ \A s \in absent : /\ newP[s].slug = s /\ SlugFree(product, s, None)
                           /\ newP[s].category \in Live(category)
                              \/ \E m \in missing : newP[s].category = cs[m]
      /\ \A k \in absent \X Options : newV[k].product = ps[k[1]] /\ newV[k].option = k[2]
      /\ \A k \in absent \X BOOLEAN : newI[k].product = ps[k[1]]
    BY DEF Grows
<1>1. KeysHold /\ ordered \subseteq Live(variant) /\ Tables
    BY DEF CatalogInv, OrderedLive
<1>2. \A k \in absent \X Options : k[1] \in absent OBVIOUS
<1>3. \A k \in absent \X BOOLEAN : k[1] \in absent OBVIOUS
<1>7. \A p \in Live(product') : product'[p].category \in Live(category')
    BY <1>a, <1>1 DEF KeysHold, Inserted
<1>8. \A v \in Live(variant') : variant'[v].product \in Live(product')
    BY <1>a, <1>1, <1>2 DEF KeysHold, Inserted
<1>9. \A i \in Live(image') : image'[i].product \in Live(product')
    BY <1>a, <1>1, <1>3 DEF KeysHold, Inserted
<1>10. \A c, d \in Live(category') : category'[c].slug = category'[d].slug => c = d
    <2>1. None \notin Live(category)
        BY <1>1, CatalogAssumption, LiveRows
    <2>2. \A s \in missing, c \in Live(category) : category[c].slug # s
        BY <1>a, <2>1 DEF SlugFree
    <2> QED BY <1>a, <2>2, <1>1 DEF KeysHold, Inserted
<1>11. \A p, q \in Live(product') : product'[p].slug = product'[q].slug => p = q
    <2>1. None \notin Live(product)
        BY <1>1, CatalogAssumption, LiveRows
    <2>2. \A s \in absent, p \in Live(product) : product[p].slug # s
        BY <1>a, <2>1 DEF SlugFree
    <2> QED BY <1>a, <2>2, <1>1 DEF KeysHold, Inserted
\* A new variant's product is new, so no old variant has it.
<1>12. \A u, v \in Live(variant') :
           variant'[u].product = variant'[v].product
           /\ variant'[u].option = variant'[v].option => u = v
    <2> SUFFICES ASSUME NEW u \in Live(variant'), NEW v \in Live(variant'),
                        variant'[u].product = variant'[v].product,
                        variant'[u].option = variant'[v].option
                 PROVE  u = v
        OBVIOUS
    <2>1. CASE u \in Live(variant) /\ v \in Live(variant)
        <3>1. variant'[u] = variant[u] /\ variant'[v] = variant[v] BY <1>a, <2>1 DEF Inserted
        <3> QED BY <2>1, <3>1, <1>1 DEF KeysHold, OptionFree, VariantsOf
    <2>2. \A x \in Live(variant) : variant'[x].product \in Live(product)
        BY <1>a, <1>1 DEF KeysHold, Inserted
    <2>3. \A x \in Live(variant') \ Live(variant) :
              \E k \in absent \X Options :
                  /\ x = vs[k] /\ variant'[x].product = ps[k[1]]
                  /\ variant'[x].option = k[2] /\ ps[k[1]] \notin Live(product)
        BY <1>a, <1>2 DEF Inserted
    <2>4. CASE u \notin Live(variant) /\ v \notin Live(variant)
        <3>1. PICK j \in absent \X Options :
                  /\ u = vs[j] /\ variant'[u].product = ps[j[1]] /\ variant'[u].option = j[2]
            BY <2>3, <2>4
        <3>2. PICK k \in absent \X Options :
                  /\ v = vs[k] /\ variant'[v].product = ps[k[1]] /\ variant'[v].option = k[2]
            BY <2>3, <2>4
        <3>3. ps[j[1]] = ps[k[1]] /\ j[2] = k[2] BY <3>1, <3>2
        <3>4. j[1] = k[1] BY <1>a, <3>3, <1>2 DEF Inserted
        <3>5. j = k BY <3>3, <3>4
        <3> QED BY <3>1, <3>2, <3>5
    <2> QED BY <2>1, <2>2, <2>3, <2>4
<1>13. KeysHold'
    BY <1>7, <1>8, <1>9, <1>10, <1>11, <1>12 DEF KeysHold, OptionFree, VariantsOf
<1>14. OrderedLive' BY <1>a, <1>1 DEF OrderedLive, Inserted
<1>15. ASSUME NEW x \in Workers \ {w}
       PROVE  /\ At(x, "flushed", "order") => edit[x].id \in Live(variant)'
              /\ At(x, "flushed", "image.create") => edit[x].id \in Live(product)'
              /\ At(x, "flushed", "image.update") => edit[x].id \in Live(image)'
    <2>1. Held(edit[x]) BY DEF CatalogInv, Locks
    <2> QED BY <1>a, <2>1 DEF Held, At, Inserted
<1> QED BY <1>13, <1>14, <1>15, Writes

LEMMA SeedInserts ==
    ASSUME CatalogInv, NEW w \in Workers, SeedInsert(w)
    PROVE  CatalogInv'
<1> DEFINE found == edit[w].seen
           absent == edit[w].to
           missing == {s \in Seeded : found[s] = {}}
           possible == /\ \A s \in missing : SlugFree(category, s, None)
                       /\ \A s \in absent :
                             SlugFree(product, s, None) /\ found[s] \subseteq Live(category)
<1>1. /\ Tables /\ RequestOK(edit[w]) /\ edit = [x \in Workers |-> edit[x]]
      /\ edit[w].pc = "decided"
      /\ found \in [Seeded -> SUBSET Categories] /\ absent \subseteq Seeded
      /\ UNCHANGED <<ordered, load>>
    BY DEF CatalogInv, Requests, RequestOK, Serves, SeedInsert, At
<1>2. CASE ~possible
    <2>1. Answer(w) /\ UNCHANGED <<category, product, variant, image>>
        BY <1>2 DEF SeedInsert
    <2> QED BY <2>1, <1>1, Fails
<1>3. CASE possible
    <2>1. PICK cs \in Injection(missing, Unused(category)),
               ps \in Injection(absent, Unused(product)),
               vs \in Injection(absent \X Options, Unused(variant)),
               is \in Injection(absent \X BOOLEAN, Unused(image)) :
             LET CategoryOf(s) ==
                   IF s \in missing THEN cs[s] ELSE CHOOSE c \in found[s] : TRUE
             IN  /\ category' = Filled(category, cs, LAMBDA s : [slug |-> s])
                 /\ product' = Filled(product, ps,
                                      LAMBDA s : SeededProduct(s, CategoryOf(s)))
                 /\ variant' = Filled(variant, vs,
                                      LAMBDA k : SeededVariant(ps[k[1]], k[2]))
                 /\ image' = Filled(image, is, LAMBDA k :
                                    [product |-> ps[k[1]], is_primary |-> k[2]])
                 /\ edit' = [edit EXCEPT ![w].op = "seed.orders", ![w].seen = None,
                                         ![w].to = None]
        BY <1>3 DEF SeedInsert
    <2> DEFINE home == [s \in absent |->
                          IF s \in missing THEN cs[s] ELSE CHOOSE c \in found[s] : TRUE]
               newC == [s \in missing |-> [slug |-> s]]
               newP == [s \in absent |-> SeededProduct(s, home[s])]
               newV == [k \in absent \X Options |-> SeededVariant(ps[k[1]], k[2])]
               newI == [k \in absent \X BOOLEAN |-> [product |-> ps[k[1]], is_primary |-> k[2]]]
    <2>a. /\ DOMAIN category = Categories /\ DOMAIN product = Products
          /\ DOMAIN variant = Variants /\ DOMAIN image = Images
        BY <1>1, LiveRows
    <2>2. category' = [c \in Categories |->
              IF \E k \in DOMAIN cs : cs[k] = c THEN newC[KeyOf(cs, c)] ELSE category[c]]
        <3>1. category' = [c \in Categories |->
                  IF \E k \in DOMAIN cs : cs[k] = c
                  THEN [slug |-> KeyOf(cs, c)] ELSE category[c]]
            BY <2>1, <2>a DEF Filled, KeyOf
        <3>2. \A c : (\E k \in DOMAIN cs : cs[k] = c) =>
                        newC[KeyOf(cs, c)] = [slug |-> KeyOf(cs, c)]
            BY KeysOfInjection
        <3> HIDE DEF newC
        <3> QED BY <3>1, <3>2
    <2>3. product' = [p \in Products |->
              IF \E k \in DOMAIN ps : ps[k] = p THEN newP[KeyOf(ps, p)] ELSE product[p]]
        <3>1. product' = [p \in Products |->
                  IF \E k \in DOMAIN ps : ps[k] = p
                  THEN SeededProduct(KeyOf(ps, p),
                           IF KeyOf(ps, p) \in missing THEN cs[KeyOf(ps, p)]
                           ELSE CHOOSE c \in found[KeyOf(ps, p)] : TRUE)
                  ELSE product[p]]
            BY <2>1, <2>a DEF Filled, KeyOf
        <3>2. \A p : (\E k \in DOMAIN ps : ps[k] = p) =>
                        newP[KeyOf(ps, p)] =
                        SeededProduct(KeyOf(ps, p),
                           IF KeyOf(ps, p) \in missing THEN cs[KeyOf(ps, p)]
                           ELSE CHOOSE c \in found[KeyOf(ps, p)] : TRUE)
            BY KeysOfInjection
        <3> HIDE DEF newP
        <3> QED BY <3>1, <3>2
    <2>4. variant' = [v \in Variants |->
              IF \E k \in DOMAIN vs : vs[k] = v THEN newV[KeyOf(vs, v)] ELSE variant[v]]
        <3>1. variant' = [v \in Variants |->
                  IF \E k \in DOMAIN vs : vs[k] = v
                  THEN SeededVariant(ps[KeyOf(vs, v)[1]], KeyOf(vs, v)[2]) ELSE variant[v]]
            BY <2>1, <2>a DEF Filled, KeyOf
        <3>2. \A v : (\E k \in DOMAIN vs : vs[k] = v) =>
                        newV[KeyOf(vs, v)] =
                        SeededVariant(ps[KeyOf(vs, v)[1]], KeyOf(vs, v)[2])
            BY KeysOfInjection
        <3> HIDE DEF newV
        <3> QED BY <3>1, <3>2
    <2>5. image' = [i \in Images |->
              IF \E k \in DOMAIN is : is[k] = i THEN newI[KeyOf(is, i)] ELSE image[i]]
        <3>1. image' = [i \in Images |->
                  IF \E k \in DOMAIN is : is[k] = i
                  THEN [product |-> ps[KeyOf(is, i)[1]], is_primary |-> KeyOf(is, i)[2]]
                  ELSE image[i]]
            BY <2>1, <2>a DEF Filled, KeyOf
        <3>2. \A i : (\E k \in DOMAIN is : is[k] = i) =>
                        newI[KeyOf(is, i)] =
                        [product |-> ps[KeyOf(is, i)[1]], is_primary |-> KeyOf(is, i)[2]]
            BY KeysOfInjection
        <3> HIDE DEF newI
        <3> QED BY <3>1, <3>2
    <2> HIDE DEF newC, newP, newV, newI
    <2>6. /\ cs \in [missing -> Unused(category)] /\ Unused(category) \subseteq Categories
          /\ ps \in [absent -> Unused(product)] /\ Unused(product) \subseteq Products
          /\ Seeded \subseteq Slugs /\ MaxPrice \in Prices
        BY <2>a, KeysOfInjection, CatalogAssumption DEF Unused, Slugs, Prices
    <2>7. \A s \in absent : /\ home[s] \in Categories
                            /\ home[s] \in Live(category) \/ \E m \in missing : home[s] = cs[m]
        <3> SUFFICES ASSUME NEW s \in absent
                     PROVE  /\ home[s] \in Categories
                            /\ home[s] \in Live(category) \/ \E m \in missing : home[s] = cs[m]
            OBVIOUS
        <3>1. CASE s \in missing BY <3>1, <2>6
        <3>2. CASE s \notin missing
            <4>1. found[s] # {} BY <3>2, <1>1
            <4>2. home[s] \in found[s] BY <3>2, <4>1
            <4>3. found[s] \subseteq Live(category) BY <1>3
            <4> QED BY <4>2, <4>3, <2>a DEF Live
        <3> QED BY <3>1, <3>2
    <2> HIDE DEF home
    <2>8. newC \in [missing -> CategoryRow] /\ \A s \in missing : newC[s].slug = s
        BY <2>6 DEF newC, CategoryRow
    <2>9. /\ newP \in [absent -> ProductRow]
          /\ \A s \in absent : newP[s].slug = s /\ newP[s].category = home[s]
        <3>1. \A s \in absent : /\ SeededProduct(s, home[s]) \in ProductRow
                                /\ SeededProduct(s, home[s]).slug = s
                                /\ SeededProduct(s, home[s]).category = home[s]
            BY <2>6, <2>7, <1>1 DEF SeededProduct, ProductRow, ProductStatus
        <3> QED BY <3>1 DEF newP
    <2>10. /\ newV \in [absent \X Options -> VariantRow]
           /\ \A k \in absent \X Options : newV[k].product = ps[k[1]] /\ newV[k].option = k[2]
        <3>1. \A k \in absent \X Options :
                  /\ SeededVariant(ps[k[1]], k[2]) \in VariantRow
                  /\ SeededVariant(ps[k[1]], k[2]).product = ps[k[1]]
                  /\ SeededVariant(ps[k[1]], k[2]).option = k[2]
            <4>1. \A k \in absent \X Options : ps[k[1]] \in Products /\ k[2] \in Options
                BY <2>6
            <4> QED BY <4>1 DEF SeededVariant, VariantRow, VariantStatus
        <3> QED BY <3>1 DEF newV
    <2>11. /\ newI \in [absent \X BOOLEAN -> ImageRow]
           /\ \A k \in absent \X BOOLEAN : newI[k].product = ps[k[1]]
        <3>1. \A k \in absent \X BOOLEAN :
                  [product |-> ps[k[1]], is_primary |-> k[2]] \in ImageRow
            <4>1. \A k \in absent \X BOOLEAN : ps[k[1]] \in Products /\ k[2] \in BOOLEAN
                BY <2>6
            <4> QED BY <4>1 DEF ImageRow
        <3> QED BY <3>1 DEF newI
    <2>b. /\ \A s \in missing : SlugFree(category, s, None)
          /\ \A s \in absent : SlugFree(product, s, None)
        BY <1>3
    <2> HIDE DEF missing, absent, found, possible
    <2>19. /\ \A s \in missing : newC[s].slug = s /\ SlugFree(category, s, None)
           /\ \A s \in absent : /\ newP[s].slug = s /\ SlugFree(product, s, None)
                                /\ newP[s].category \in Live(category)
                                   \/ \E m \in missing : newP[s].category = cs[m]
        BY <2>b, <2>7, <2>8, <2>9
    <2>12. /\ category' \in [Categories -> CategoryRow \cup {None, Gone}]
           /\ Inserted(category, category', missing, cs, newC)
        <3>1. /\ category' = [r \in Categories |-> category'[r]]
              /\ \A r \in Categories : category'[r] = IF \E k \in DOMAIN cs : cs[k] = r
                                   THEN newC[KeyOf(cs, r)] ELSE category[r]
            BY <2>2
        <3>2. /\ category \in [Categories -> CategoryRow \cup {None, Gone}]
              /\ None \notin CategoryRow /\ Gone \notin CategoryRow
            BY <1>1, RowsAreRows DEF Tables
        <3>3. newC \in [missing -> CategoryRow] BY <2>8
        <3>4. Fills(Categories, CategoryRow, category, category', missing, cs, newC)
            BY <3>1, <3>2, <3>3 DEF Fills
        <3> QED BY <3>4, RowsInserted
    <2>13. /\ product' \in [Products -> ProductRow \cup {None, Gone}]
           /\ Inserted(product, product', absent, ps, newP)
        <3>1. /\ product' = [r \in Products |-> product'[r]]
              /\ \A r \in Products : product'[r] = IF \E k \in DOMAIN ps : ps[k] = r
                                   THEN newP[KeyOf(ps, r)] ELSE product[r]
            BY <2>3
        <3>2. /\ product \in [Products -> ProductRow \cup {None, Gone}]
              /\ None \notin ProductRow /\ Gone \notin ProductRow
            BY <1>1, RowsAreRows DEF Tables
        <3>3. newP \in [absent -> ProductRow] BY <2>9
        <3>4. Fills(Products, ProductRow, product, product', absent, ps, newP)
            BY <3>1, <3>2, <3>3 DEF Fills
        <3> QED BY <3>4, RowsInserted
    <2>14. /\ variant' \in [Variants -> VariantRow \cup {None, Gone}]
           /\ Inserted(variant, variant', absent \X Options, vs, newV)
        <3>1. /\ variant' = [r \in Variants |-> variant'[r]]
              /\ \A r \in Variants : variant'[r] = IF \E k \in DOMAIN vs : vs[k] = r
                                   THEN newV[KeyOf(vs, r)] ELSE variant[r]
            BY <2>4
        <3>2. /\ variant \in [Variants -> VariantRow \cup {None, Gone}]
              /\ None \notin VariantRow /\ Gone \notin VariantRow
            BY <1>1, RowsAreRows DEF Tables
        <3>3. newV \in [absent \X Options -> VariantRow] BY <2>10
        <3>4. Fills(Variants, VariantRow, variant, variant', absent \X Options, vs, newV)
            BY <3>1, <3>2, <3>3 DEF Fills
        <3> QED BY <3>4, RowsInserted
    <2>15. /\ image' \in [Images -> ImageRow \cup {None, Gone}]
           /\ Inserted(image, image', absent \X BOOLEAN, is, newI)
        <3>1. /\ image' = [r \in Images |-> image'[r]]
              /\ \A r \in Images : image'[r] = IF \E k \in DOMAIN is : is[k] = r
                                   THEN newI[KeyOf(is, r)] ELSE image[r]
            BY <2>5
        <3>2. /\ image \in [Images -> ImageRow \cup {None, Gone}]
              /\ None \notin ImageRow /\ Gone \notin ImageRow
            BY <1>1, RowsAreRows DEF Tables
        <3>3. newI \in [absent \X BOOLEAN -> ImageRow] BY <2>11
        <3>4. Fills(Images, ImageRow, image, image', absent \X BOOLEAN, is, newI)
            BY <3>1, <3>2, <3>3 DEF Fills
        <3> QED BY <3>4, RowsInserted
    <2>16. Tables' BY <2>12, <2>13, <2>14, <2>15, <1>1 DEF Tables
    <2> PICK old : old = edit[w] OBVIOUS
    <2> DEFINE r == [old EXCEPT !.op = "seed.orders", !.seen = None, !.to = None]
    <2>17. edit' = [edit EXCEPT ![w] = r] BY <2>1, <1>1
    <2>18. RequestOK(r) /\ r.pc # "flushed"
        <3>1. /\ DOMAIN r = Columns /\ r = [c \in DOMAIN r |-> r[c]]
              /\ r.pc = "decided" /\ r.op = "seed.orders" /\ r.others = old.others
              /\ old.others \subseteq Images
            BY <1>1, RequestColumns DEF Columns, RequestOK
        <3> HIDE DEF r
        <3>2. r = [pc |-> r.pc, op |-> r.op, id |-> r.id, seen |-> r.seen, to |-> r.to,
                   others |-> r.others]
            BY <3>1, RequestIs
        <3> QED BY <3>1, <3>2 DEF RequestOK, Serves, Ops
    <2> HIDE DEF r
    <2>20. Grows(missing, absent, cs, ps, vs, is, newC, newP, newV, newI)
        BY <2>10, <2>11, <2>12, <2>13, <2>14, <2>15, <2>19 DEF Grows
    <2> QED BY <1>1, <2>16, <2>17, <2>18, <2>20, SeedKeeps
<1> QED BY <1>2, <1>3


LEMMA SeedRests ==
    ASSUME CatalogInv, NEW w \in Workers,
           SeedReset(w) \/ SeedStart(w) \/ SeedOrders(w)
    PROVE  CatalogInv'
<1>1. Tables /\ RequestOK(edit[w]) /\ edit = [x \in Workers |-> edit[x]]
    BY DEF CatalogInv, Requests
\* Nothing is left, and nobody held anything.
<1>2. ASSUME SeedReset(w) PROVE CatalogInv'
    <2>1. /\ category' = [c \in Categories |-> IF category[c] = None THEN None ELSE Gone]
          /\ product' = [p \in Products |-> IF product[p] = None THEN None ELSE Gone]
          /\ variant' = [v \in Variants |-> IF variant[v] = None THEN None ELSE Gone]
          /\ image' = [i \in Images |-> IF image[i] = None THEN None ELSE Gone]
          /\ ordered' = {} /\ load' = load /\ edit' = edit
          /\ \A x \in Workers : edit[x].pc # "flushed"
        BY <1>1, <1>2, LiveRows DEF SeedReset
    <2>2. Tables' BY <1>1, <2>1 DEF Tables
    <2>3. /\ Live(category)' = {} /\ Live(product)' = {}
          /\ Live(variant)' = {} /\ Live(image)' = {}
        BY <2>1 DEF Live
    <2>4. KeysHold' /\ OrderedLive' BY <2>1, <2>3 DEF KeysHold, OrderedLive
    <2>5. edit' = [edit EXCEPT ![w] = edit[w]] BY <1>1, <2>1
    <2> QED BY <1>1, <2>1, <2>2, <2>4, <2>5, Writes DEF At
<1>3. ASSUME SeedStart(w) PROVE CatalogInv'
    <2> DEFINE seen == [s \in Seeded |-> {r \in Live(category) : category[r].slug = s}]
               to == {s \in Seeded : {r \in Live(product) : product[r].slug = s} = {}}
    <2>1. Decided(w, "seed", None, seen, to)
        BY <1>3 DEF SeedStart
    <2>2. seen \in [Seeded -> SUBSET Categories] /\ to \subseteq Seeded
        BY <1>1, LiveRows
    <2> HIDE DEF seen, to
    <2>3. RequestOK(Decision("seed", None, seen, to))
        BY <2>2, DecisionOK DEF Ops, Serves, Decision
    <2> QED BY <2>1, <2>3, Decides
<1>4. ASSUME SeedOrders(w) PROVE CatalogInv'
    <2>1. PICK sold \in SUBSET Live(variant) :
             /\ ordered' = ordered \cup sold
             /\ variant' = [v \in Variants |->
                   IF v \in sold THEN [variant[v] EXCEPT !.moved = TRUE] ELSE variant[v]]
        BY <1>4 DEF SeedOrders
    <2>2. Answer(w) /\ UNCHANGED <<category, product, image, load>>
        BY <1>4 DEF SeedOrders
    <2> QED BY <2>1, <2>2, VariantsSold
<1> QED BY <1>2, <1>3, <1>4

-----------------------------------------------------------------------------
(* The theorems.                                                            *)

LEMMA NextCatalogInv == CatalogInv /\ [CatalogNext]_catalogVars => CatalogInv'
<1> SUFFICES ASSUME CatalogInv, [CatalogNext]_catalogVars
             PROVE  CatalogInv'
    OBVIOUS
<1>1. CASE UNCHANGED catalogVars
    <2>1. Requests' /\ Tables'
        BY <1>1 DEF catalogVars, CatalogInv, Requests, Tables
    <2>2. Locks' /\ Apart'
        BY <1>1 DEF catalogVars, CatalogInv, Locks, Held, Live, Apart, WritesImage
    <2>3. KeysHold' /\ OrderedLive'
        BY <1>1 DEF catalogVars, CatalogInv, KeysHold, OrderedLive, Live, OptionFree,
                    VariantsOf
    <2> QED BY <2>1, <2>2, <2>3 DEF CatalogInv
<1>2. ASSUME NEW w \in Workers, CategoryStep(w) PROVE CatalogInv'
    BY <1>2, CategoryReads, CategoryCommits DEF CategoryStep
<1>3. ASSUME NEW w \in Workers, ProductStep(w) PROVE CatalogInv'
    BY <1>3, ProductReads, ProductCommits, ProductRemoved DEF ProductStep
<1>4. ASSUME NEW w \in Workers, VariantStep(w) PROVE CatalogInv'
    BY <1>4, VariantReads, VariantCommits DEF VariantStep
<1>5. ASSUME NEW w \in Workers, ImageStep(w) PROVE CatalogInv'
    BY <1>5, ImageReads, ImageFlushes, ImageCommits DEF ImageStep
<1>6. ASSUME NEW w \in Workers, SeedStep(w) PROVE CatalogInv'
    BY <1>6, SeedRests, SeedInserts DEF SeedStep
<1>7. ASSUME NEW w \in Workers, Crash(w) PROVE CatalogInv'
    BY <1>7, Fails DEF Crash
<1> QED BY <1>1, <1>2, <1>3, <1>4, <1>5, <1>6, <1>7 DEF CatalogNext

LEMMA CatalogInvMeans == CatalogInv => CatalogTypeOK /\ KeysHold /\ OrderedKept
<1> SUFFICES ASSUME CatalogInv PROVE CatalogTypeOK /\ KeysHold /\ OrderedKept
    OBVIOUS
<1>1. Tables /\ Requests /\ KeysHold /\ ordered \subseteq Live(variant)
    BY DEF CatalogInv, OrderedLive
<1>2. ordered \subseteq Variants BY <1>1, LiveRows
<1>3. CatalogTypeOK BY <1>1, <1>2 DEF CatalogTypeOK, Tables, Requests, RequestOK
<1>4. OrderedKept BY <1>1 DEF OrderedKept, KeysHold
<1> QED BY <1>1, <1>3, <1>4

\* The tables hold rows of their types and the requests carry what their handlers
\* decide on.
THEOREM CatalogTypeCorrect == CatalogSpec => []CatalogTypeOK
<1>1. CatalogInv => CatalogTypeOK BY CatalogInvMeans
<1> QED BY <1>1, InitCatalogInv, NextCatalogInv, PTL DEF CatalogSpec

\* However many admins edit the catalog at once, whatever fails and whatever the
\* handlers had read: every product keeps its category, every variant and image its
\* product, and no unique key is used twice (delete_category, update_product,
\* create_variant, add_image).
THEOREM KeysAreKept == CatalogSpec => []KeysHold
<1>1. CatalogInv => KeysHold BY CatalogInvMeans
<1> QED BY <1>1, InitCatalogInv, NextCatalogInv, PTL DEF CatalogSpec

\* A variant that was ever ordered is there, and so is its product, whichever
\* deletion was decided before the order was placed (delete_variant, delete_product).
THEOREM OrdersKeepVariants == CatalogSpec => []OrderedKept
<1>1. CatalogInv => OrderedKept BY CatalogInvMeans
<1> QED BY <1>1, InitCatalogInv, NextCatalogInv, PTL DEF CatalogSpec

-----------------------------------------------------------------------------
(* What each step may change, and where its request stands after it.        *)

\* Only the worker's request moves, and it ends or is for one of the handlers.
Turns(w, handlers) ==
    /\ \A x \in Workers \ {w} : edit'[x] = edit[x]
    /\ edit'[w].pc = "idle" \/ edit'[w].op \in handlers

LEMMA AnswerTurns ==
    ASSUME Requests, NEW w \in Workers, NEW handlers, Answer(w)
    PROVE  Turns(w, handlers)
BY IdleOK DEF Requests, Answer, Turns

LEMMA DecidedTurns ==
    ASSUME Requests, NEW w \in Workers, NEW handlers, NEW op \in handlers,
           NEW id, NEW seen, NEW to, Decided(w, op, id, seen, to)
    PROVE  /\ Turns(w, handlers) /\ edit'[w].pc = "decided"
           /\ edit'[w].op = op /\ edit'[w].id = id /\ edit'[w].seen = seen
           /\ edit'[w].to = to
           /\ UNCHANGED <<category, product, variant, image, ordered, load>>
<1> DEFINE r == [Idle EXCEPT !.pc = "decided", !.op = op, !.id = id, !.seen = seen, !.to = to]
<1>1. /\ edit' = [edit EXCEPT ![w] = r]
      /\ UNCHANGED <<category, product, variant, image, ordered, load>>
    BY DEF Decided
<1>2. r.pc = "decided" /\ r.op = op /\ r.id = id /\ r.seen = seen /\ r.to = to BY DEF Idle
<1> HIDE DEF r
<1> QED BY <1>1, <1>2 DEF Turns, Requests

LEMMA FlushedTurns ==
    ASSUME Requests, NEW w \in Workers, NEW handlers, NEW there, NEW others,
           Flushed(w, there, others), edit[w].op \in handlers
    PROVE  /\ Turns(w, handlers)
           /\ IF there THEN /\ edit'[w].pc = "flushed" /\ edit'[w].others = others
                            /\ edit'[w].op = edit[w].op /\ edit'[w].id = edit[w].id
                            /\ edit'[w].seen = edit[w].seen /\ edit'[w].to = edit[w].to
                       ELSE edit'[w].pc = "idle"
           /\ UNCHANGED <<category, product, variant, image, ordered, load>>
<1> PICK old : old = edit[w] OBVIOUS
<1> DEFINE r == [old EXCEPT !.pc = "flushed", !.others = others]
<1>1. DOMAIN old = Columns BY RequestColumns DEF Requests
<1>2. /\ r.pc = "flushed" /\ r.others = others /\ r.op = old.op /\ r.id = old.id
      /\ r.seen = old.seen /\ r.to = old.to
    BY <1>1 DEF Columns
<1>3. /\ IF there THEN edit' = [edit EXCEPT ![w] = r] ELSE Answer(w)
      /\ UNCHANGED <<category, product, variant, image, ordered, load>>
    BY DEF Flushed, Requests
<1> HIDE DEF r
<1> QED BY <1>2, <1>3, IdleOK DEF Turns, Requests, Answer

CategoryOps == {"category.create", "category.update", "category.delete"}
ProductOps == {"product.create", "product.update", "product.archive"}
VariantOps == {"variant.create", "variant.update", "variant.deactivate",
               "variant.delete", "order"}
ImageOps == {"image.create", "image.update", "image.delete"}
SeedOps == {"seed", "seed.orders"}

LEMMA CategoryTurns ==
    ASSUME Requests, NEW w \in Workers, CategoryStep(w)
    PROVE  Turns(w, CategoryOps) /\ UNCHANGED <<product, variant, image>>
BY AnswerTurns, DecidedTurns
   DEF CategoryStep, CategoryCreate, CategoryUpdate, CategoryDelete, CategoryInsert,
       CategoryWrite, CategoryRemove, CategoryOps

LEMMA VariantTurns ==
    ASSUME Requests, NEW w \in Workers, VariantStep(w)
    PROVE  Turns(w, VariantOps) /\ UNCHANGED <<category, product, image>>
<1>1. ASSUME NEW v \in Variants, OrderLock(w, v)
      PROVE  Turns(w, VariantOps) /\ UNCHANGED <<category, product, image>>
    <2> DEFINE r == [Idle EXCEPT !.pc = "flushed", !.op = "order", !.id = v,
                                 !.seen = variant[v]]
    <2>1. edit' = [edit EXCEPT ![w] = r] /\ UNCHANGED <<category, product, image>>
        BY <1>1 DEF OrderLock
    <2>2. r.op = "order" BY DEF Idle
    <2> HIDE DEF r
    <2> QED BY <2>1, <2>2 DEF Turns, Requests, VariantOps
<1>2. ASSUME NEW v \in Variants, VariantDelete(w, v)
      PROVE  Turns(w, VariantOps) /\ UNCHANGED <<category, product, image>>
    BY <1>2, DecidedTurns DEF VariantDelete, VariantOps
<1> QED BY <1>1, <1>2, AnswerTurns, DecidedTurns
        DEF VariantStep, VariantCreate, VariantUpdateRead, VariantInsert,
            VariantWrite, VariantRemove, OrderPlace, VariantOps

LEMMA ImageTurns ==
    ASSUME Requests, NEW w \in Workers, ImageStep(w)
    PROVE  Turns(w, ImageOps) /\ UNCHANGED <<category, product, variant>>
<1> USE DEF ImageOps
<1>1. ASSUME \/ \E p \in Products, primary \in BOOLEAN \cup {MISSING} :
                   ImageCreate(w, p, primary)
             \/ \E i \in Images, to \in ImageUpdate : ImageUpdateRead(w, i, to)
             \/ \E i \in Images : ImageDelete(w, i)
      PROVE  Turns(w, ImageOps) /\ UNCHANGED <<category, product, variant>>
    <2>1. \E op \in ImageOps : \E id, seen, to : Decided(w, op, id, seen, to)
        BY <1>1 DEF ImageCreate, ImageUpdateRead, ImageDelete
    <2> QED BY <2>1, DecidedTurns
<1>2. ASSUME ImageCreateFlush(w) \/ ImageUpdateFlush(w) \/ ImageDeleteFlush(w)
      PROVE  Turns(w, ImageOps) /\ UNCHANGED <<category, product, variant>>
    <2>1. \E there, others : Flushed(w, there, others)
        BY <1>2 DEF ImageCreateFlush, ImageUpdateFlush, ImageDeleteFlush
    <2>2. edit[w].op \in ImageOps
        BY <1>2 DEF ImageCreateFlush, ImageUpdateFlush, ImageDeleteFlush, At
    <2> QED BY <2>1, <2>2, FlushedTurns
<1>3. ASSUME (\E i \in Images : ImageInsert(w, i)) \/ ImageWrite(w) \/ ImageRemove(w)
      PROVE  Turns(w, ImageOps) /\ UNCHANGED <<category, product, variant>>
    BY <1>3, AnswerTurns DEF ImageInsert, ImageWrite, ImageRemove, ImageCommit
<1> QED BY <1>1, <1>2, <1>3 DEF ImageStep

LEMMA SeedTurns ==
    ASSUME Requests, NEW w \in Workers, SeedStart(w) \/ SeedOrders(w) \/ Crash(w)
    PROVE  Turns(w, SeedOps) /\ UNCHANGED <<category, product, image>>
BY AnswerTurns, DecidedTurns DEF SeedStart, SeedOrders, Crash, SeedOps

\* The rows of the development data come under unused ids: no sale prices, and two
\* images for each new product, one of them the primary one.
NewImage(i) == image[i] = None /\ image'[i] # None

LEMMA SeedTables ==
    ASSUME CatalogInv, NEW w \in Workers, SeedInsert(w)
    PROVE  /\ Turns(w, SeedOps)
           /\ \A p \in Products :
                 \/ product'[p] = product[p]
                 \/ product[p] = None /\ product'[p].sale_price = None
           /\ \A i \in Images :
                 \/ image'[i] = image[i]
                 \/ NewImage(i) /\ image'[i] \in ImageRow
                    /\ product[image'[i].product] = None
           /\ \A i, j \in Images :
                 /\ NewImage(i) /\ NewImage(j) /\ image'[i].product = image'[j].product
                 /\ image'[i].is_primary /\ image'[j].is_primary
                 => i = j
           /\ \A i \in Images : NewImage(i) =>
                 \E j \in Images : NewImage(j) /\ image'[j].product = image'[i].product
                                   /\ image'[j].is_primary
<1> DEFINE absent == edit[w].to
           missing == {s \in Seeded : edit[w].seen[s] = {}}
<1>1. Tables /\ Requests /\ DOMAIN product = Products /\ DOMAIN image = Images
    BY LiveRows DEF CatalogInv
<1>2. CASE Answer(w) /\ UNCHANGED <<product, image>>
    BY <1>1, <1>2, AnswerTurns DEF NewImage
<1>3. CASE ~(Answer(w) /\ UNCHANGED <<product, image>>)
    <2>1. PICK cs \in Injection(missing, Unused(category)),
               ps \in Injection(absent, Unused(product)),
               is \in Injection(absent \X BOOLEAN, Unused(image)) :
             LET CategoryOf(s) == IF s \in missing THEN cs[s]
                                  ELSE CHOOSE c \in edit[w].seen[s] : TRUE
             IN  /\ product' = Filled(product, ps,
                                      LAMBDA s : SeededProduct(s, CategoryOf(s)))
                 /\ image' = Filled(image, is, LAMBDA k :
                                    [product |-> ps[k[1]], is_primary |-> k[2]])
                 /\ edit' = [edit EXCEPT ![w].op = "seed.orders", ![w].seen = None,
                                         ![w].to = None]
        BY <1>3 DEF SeedInsert
    <2>2. Turns(w, SeedOps)
        <3> PICK old : old = edit[w] OBVIOUS
        <3> DEFINE r == [old EXCEPT !.op = "seed.orders", !.seen = None, !.to = None]
        <3>1. DOMAIN old = Columns BY <1>1, RequestColumns DEF Requests
        <3>2. r.op = "seed.orders" BY <3>1 DEF Columns
        <3>3. edit' = [edit EXCEPT ![w] = r] BY <2>1, <1>1 DEF Requests
        <3> HIDE DEF r
        <3> QED BY <1>1, <3>2, <3>3 DEF Turns, Requests, SeedOps
    <2>3. \A p \in Products :
              product'[p] = IF \E k \in DOMAIN ps : ps[k] = p
                            THEN SeededProduct(KeyOf(ps, p),
                                     IF KeyOf(ps, p) \in missing THEN cs[KeyOf(ps, p)]
                                     ELSE CHOOSE c \in edit[w].seen[KeyOf(ps, p)] : TRUE)
                            ELSE product[p]
        BY <2>1, <1>1 DEF Filled, KeyOf
    <2>4. \A i \in Images :
              image'[i] = IF \E k \in DOMAIN is : is[k] = i
                          THEN [product |-> ps[KeyOf(is, i)[1]],
                                is_primary |-> KeyOf(is, i)[2]]
                          ELSE image[i]
        BY <2>1, <1>1 DEF Filled, KeyOf
    <2> HIDE DEF absent, missing
    <2>5. /\ ps \in [absent -> Unused(product)] /\ DOMAIN ps = absent
          /\ Unused(product) \subseteq Products
          /\ \A j, k \in absent : ps[j] = ps[k] => j = k
        BY <1>1, KeysOfInjection DEF Unused
    <2>6. /\ is \in [absent \X BOOLEAN -> Unused(image)] /\ DOMAIN is = absent \X BOOLEAN
          /\ Unused(image) \subseteq Images
          /\ \A i : (\E k \in DOMAIN is : is[k] = i) =>
                       KeyOf(is, i) \in absent \X BOOLEAN /\ is[KeyOf(is, i)] = i
          /\ \A k \in absent \X BOOLEAN : KeyOf(is, is[k]) = k
        BY <1>1, KeysOfInjection DEF Unused
    <2>7. \A p \in Products :
              \/ product'[p] = product[p]
              \/ product[p] = None /\ product'[p].sale_price = None
        <3>1. \A s, c : SeededProduct(s, c).sale_price = None BY DEF SeededProduct
        <3>2. \A p \in Products : (\E k \in DOMAIN ps : ps[k] = p) => product[p] = None
            BY <2>5 DEF Unused
        <3> QED BY <2>3, <3>1, <3>2
    <2>8. \A i \in Images :
              \/ image'[i] = image[i]
              \/ /\ image[i] = None /\ KeyOf(is, i) \in absent \X BOOLEAN
                 /\ is[KeyOf(is, i)] = i
                 /\ image'[i] = [product |-> ps[KeyOf(is, i)[1]],
                                 is_primary |-> KeyOf(is, i)[2]]
        BY <2>4, <2>6 DEF Unused
    <2>9. \A s \in absent, b \in BOOLEAN :
              /\ [product |-> ps[s], is_primary |-> b] \in ImageRow
              /\ product[ps[s]] = None
        BY <2>5 DEF ImageRow, Unused
    <2>10. \A i \in Images : NewImage(i) =>
              \E s \in absent, b \in BOOLEAN :
                  /\ i = is[<<s, b>>] /\ image'[i].product = ps[s]
                  /\ image'[i].is_primary = b
        <3> SUFFICES ASSUME NEW i \in Images, NewImage(i)
                     PROVE  \E s \in absent, b \in BOOLEAN :
                              /\ i = is[<<s, b>>] /\ image'[i].product = ps[s]
                              /\ image'[i].is_primary = b
            OBVIOUS
        <3>1. /\ KeyOf(is, i) \in absent \X BOOLEAN /\ is[KeyOf(is, i)] = i
              /\ image'[i].product = ps[KeyOf(is, i)[1]]
              /\ image'[i].is_primary = KeyOf(is, i)[2]
            <4> PICK q, b : q = ps[KeyOf(is, i)[1]] /\ b = KeyOf(is, i)[2] OBVIOUS
            <4>1. image[i] = None /\ image'[i] # None BY DEF NewImage
            <4>2. /\ KeyOf(is, i) \in absent \X BOOLEAN /\ is[KeyOf(is, i)] = i
                  /\ image'[i] = [product |-> q, is_primary |-> b]
                BY <2>8, <4>1
            <4> QED BY <4>2
        <3> QED BY <3>1
    <2>11. \A s \in absent, b \in BOOLEAN :
              LET i == is[<<s, b>>] IN
              i \in Images /\ NewImage(i) /\ image'[i].product = ps[s]
              /\ image'[i].is_primary = b
        <3> SUFFICES ASSUME NEW s \in absent, NEW b \in BOOLEAN
                     PROVE  LET i == is[<<s, b>>] IN
                            i \in Images /\ NewImage(i) /\ image'[i].product = ps[s]
                            /\ image'[i].is_primary = b
            OBVIOUS
        <3> DEFINE k == <<s, b>>
        <3>1. k \in absent \X BOOLEAN /\ k[1] = s /\ k[2] = b OBVIOUS
        <3> HIDE DEF k
        <3>2. is[k] \in Images /\ image[is[k]] = None BY <3>1, <2>6 DEF Unused
        <3>3. image'[is[k]] = [product |-> ps[s], is_primary |-> b]
            BY <3>1, <3>2, <2>4, <2>6
        <3>4. image'[is[k]] # None BY <3>3, <2>9, RowsAreRows
        <3> QED BY <3>2, <3>3, <3>4 DEF NewImage, k
    <2>12. \A i \in Images :
              \/ image'[i] = image[i]
              \/ NewImage(i) /\ image'[i] \in ImageRow /\ product[image'[i].product] = None
        <3> SUFFICES ASSUME NEW i \in Images, image'[i] # image[i]
                     PROVE  NewImage(i) /\ image'[i] \in ImageRow
                            /\ product[image'[i].product] = None
            OBVIOUS
        <3>1. /\ image[i] = None /\ KeyOf(is, i) \in absent \X BOOLEAN
              /\ image'[i] = [product |-> ps[KeyOf(is, i)[1]],
                              is_primary |-> KeyOf(is, i)[2]]
            BY <2>8
        <3>2. KeyOf(is, i)[1] \in absent /\ KeyOf(is, i)[2] \in BOOLEAN BY <3>1
        <3>3. image'[i] \in ImageRow /\ product[ps[KeyOf(is, i)[1]]] = None
            BY <3>1, <3>2, <2>9
        <3> QED BY <3>1, <3>3, RowsAreRows DEF NewImage
    <2>13. \A i, j \in Images :
              /\ NewImage(i) /\ NewImage(j) /\ image'[i].product = image'[j].product
              /\ image'[i].is_primary /\ image'[j].is_primary
              => i = j
        <3> SUFFICES ASSUME NEW i \in Images, NEW j \in Images, NewImage(i), NewImage(j),
                            image'[i].product = image'[j].product,
                            image'[i].is_primary, image'[j].is_primary
                     PROVE  i = j
            OBVIOUS
        <3>1. PICK s \in absent, b \in BOOLEAN :
                  i = is[<<s, b>>] /\ image'[i].product = ps[s] /\ image'[i].is_primary = b
            BY <2>10
        <3>2. PICK t \in absent, c \in BOOLEAN :
                  j = is[<<t, c>>] /\ image'[j].product = ps[t] /\ image'[j].is_primary = c
            BY <2>10
        <3>3. s = t BY <3>1, <3>2, <2>5
        <3>4. b = TRUE /\ c = TRUE BY <3>1, <3>2
        <3> QED BY <3>1, <3>2, <3>3, <3>4
    <2>14. \A i \in Images : NewImage(i) =>
              \E j \in Images : NewImage(j) /\ image'[j].product = image'[i].product
                                /\ image'[j].is_primary
        <3> SUFFICES ASSUME NEW i \in Images, NewImage(i)
                     PROVE  \E j \in Images :
                              NewImage(j) /\ image'[j].product = image'[i].product
                              /\ image'[j].is_primary
            OBVIOUS
        <3>1. PICK s \in absent : image'[i].product = ps[s] BY <2>10
        <3> DEFINE j == is[<<s, TRUE>>]
        <3>2. /\ j \in Images /\ NewImage(j) /\ image'[j].product = ps[s]
              /\ image'[j].is_primary
            BY <2>11
        <3> HIDE DEF j
        <3> QED BY <3>1, <3>2
    <2> QED BY <2>2, <2>7, <2>12, <2>13, <2>14
<1> QED BY <1>2, <1>3

-----------------------------------------------------------------------------
(* The prices, where the edits of products are made one at a time.          *)

EditsProduct(r) == r.pc # "idle" /\ r.op \in ProductOps

OneProductEdit ==
    \A x, y \in Workers : EditsProduct(edit[x]) /\ EditsProduct(edit[y]) => x = y

\* What a request was checked against: the prices it names, and the row as it still
\* is, unless it was deleted.
FreshPrices(table, r) ==
    /\ Serves(r, "product.create") => Priced(r.to)
    /\ Serves(r, "product.update") => BelowBase(r.seen, r.to)
    /\ Serves(r, "product.update") \/ Serves(r, "product.archive") =>
          /\ table[r.id] # None
          /\ r.id \in Live(table) => table[r.id] = r.seen

PriceInv ==
    OneProductEdit /\ SaleBelowBase /\ \A w \in Workers : FreshPrices(product, edit[w])

LEMMA InitPriceInv == CatalogInit => PriceInv
<1> SUFFICES ASSUME CatalogInit PROVE PriceInv
    OBVIOUS
<1>1. \A w \in Workers : edit[w].pc = "idle" BY IdleOK DEF CatalogInit
<1>2. OneProductEdit /\ \A w \in Workers : FreshPrices(product, edit[w])
    BY <1>1 DEF OneProductEdit, EditsProduct, FreshPrices, Serves
<1>3. \A p \in Live(product) : product[p].sale_price = None
    <2>1. PICK c \in Categories, p \in Products :
              product = [x \in Products |-> IF x # p THEN None ELSE
                          [category |-> c, slug |-> 1, base_price |-> MaxPrice,
                           sale_price |-> None, status |-> "active"]]
        BY DEF CatalogInit
    <2> QED BY <2>1 DEF Live
<1> QED BY <1>2, <1>3 DEF PriceInv, SaleBelowBase, Priced

\* Rows come under new ids and go, but do not change.
LEMMA FreshStays ==
    ASSUME Tables, Tables',
           \A p \in Products : product[p] # None => product'[p] \in {product[p], Gone},
           NEW r, RequestOK(r), FreshPrices(product, r)
    PROVE  FreshPrices(product', r)
<1>1. CASE Serves(r, "product.update") \/ Serves(r, "product.archive")
    <2>1. r.id \in Products /\ product[r.id] # None
        BY <1>1 DEF RequestOK, FreshPrices
    <2>2. /\ product'[r.id] # None
          /\ r.id \in Live(product') => r.id \in Live(product) /\ product'[r.id] = product[r.id]
        BY <2>1, CatalogAssumption DEF Tables, Live
    <2> QED BY <2>2 DEF FreshPrices
<1>2. CASE ~(Serves(r, "product.update") \/ Serves(r, "product.archive"))
    BY <1>2 DEF FreshPrices
<1> QED BY <1>1, <1>2

\* A step keeps the prices if the rows do not change under a request that was checked
\* against them.
LEMMA PricesKept ==
    ASSUME CatalogInv, CatalogInv', PriceInv, NEW w \in Workers,
           \A x \in Workers \ {w} : edit'[x] = edit[x],
           SaleBelowBase', FreshPrices(product', edit'[w]),
           \/ EditsProduct(edit[w])
           \/ \A p \in Products : product[p] # None => product'[p] \in {product[p], Gone},
           EditsProduct(edit'[w]) =>
               \/ EditsProduct(edit[w])
               \/ \A x \in Workers : ~EditsProduct(edit[x])
    PROVE  PriceInv'
<1>1. OneProductEdit' BY DEF PriceInv, OneProductEdit, EditsProduct
<1>2. \A x \in Workers \ {w} : FreshPrices(product', edit[x])
    <2> SUFFICES ASSUME NEW x \in Workers \ {w} PROVE FreshPrices(product', edit[x])
        OBVIOUS
    <2>1. CASE EditsProduct(edit[w])
        <3>1. ~EditsProduct(edit[x]) BY <2>1 DEF PriceInv, OneProductEdit
        <3> QED BY <3>1 DEF EditsProduct, ProductOps, FreshPrices, Serves
    <2>2. CASE ~EditsProduct(edit[w])
        <3>1. RequestOK(edit[x]) /\ FreshPrices(product, edit[x]) /\ Tables
            BY DEF CatalogInv, Requests, PriceInv
        <3>2. Tables' BY DEF CatalogInv
        <3> QED BY <2>2, <3>1, <3>2, FreshStays
    <2> QED BY <2>1, <2>2
<1>3. \A x \in Workers : FreshPrices(product', edit'[x]) BY <1>2
<1> QED BY <1>1, <1>3 DEF PriceInv, FreshPrices, Serves, Live

\* A request that is over, or for another handler, relies on no row.
LEMMA NoPrices ==
    ASSUME NEW table, NEW r, ~EditsProduct(r)
    PROVE  FreshPrices(table, r)
BY DEF EditsProduct, ProductOps, FreshPrices, Serves

LEMMA OthersPrices ==
    ASSUME CatalogInv, CatalogInv', PriceInv, NEW w \in Workers,
           NEW handlers, handlers \cap ProductOps = {}, Turns(w, handlers),
           \A p \in Products : \/ product'[p] \in {product[p], Gone}
                               \/ product[p] = None /\ product'[p].sale_price = None
    PROVE  PriceInv'
<1>1. ~EditsProduct(edit'[w]) BY DEF Turns, EditsProduct
<1>2. SaleBelowBase'
    <2>1. /\ product \in [Products -> ProductRow \cup {None, Gone}]
          /\ product' \in [Products -> ProductRow \cup {None, Gone}]
          /\ Live(product) = {p \in Products : product[p] \in ProductRow}
        BY LiveRows DEF CatalogInv, Tables
    <2>2. \A p \in Live(product') : Priced(product'[p])
        BY <2>1, RowsAreRows DEF PriceInv, SaleBelowBase, Priced, Live
    <2> QED BY <2>2 DEF SaleBelowBase, Priced, Live
<1>3. FreshPrices(product', edit'[w]) BY <1>1, NoPrices
<1>4. \A p \in Products : product[p] # None => product'[p] \in {product[p], Gone}
    OBVIOUS
<1> QED BY <1>1, <1>2, <1>3, <1>4, PricesKept DEF Turns

LEMMA AloneOnProduct ==
    ASSUME "product" \in Serial, NEW w, Reaches(w, "product")
    PROVE  \A x \in Workers : ~EditsProduct(edit[x])
BY DEF Reaches, EditsProduct, ProductOps, Kind

LEMMA ProductReadsPrices ==
    ASSUME CatalogInv, CatalogInv', PriceInv, "product" \in Serial, NEW w \in Workers,
           \/ \E row \in NewProducts, typed \in BOOLEAN : ProductCreate(w, row, typed)
           \/ \E p \in Products, to \in Updates \ {NoUpdate} : ProductUpdateRead(w, p, to)
           \/ \E p \in Products : ProductArchiveRead(w, p)
           \/ \E p \in Products : ProductDelete(w, p)
    PROVE  PriceInv'
<1>1. Requests /\ Tables BY DEF CatalogInv
<1>2. ASSUME NEW op \in ProductOps, NEW id, NEW seen, NEW to,
             Reaches(w, "product"), Decided(w, op, id, seen, to),
             op = "product.create" => Priced(to),
             op = "product.update" => BelowBase(seen, to),
             op # "product.create" => id \in Live(product) /\ seen = product[id]
      PROVE  PriceInv'
    <2>1. /\ Turns(w, ProductOps) /\ product' = product /\ edit'[w].pc = "decided"
          /\ edit'[w].op = op /\ edit'[w].id = id /\ edit'[w].seen = seen
          /\ edit'[w].to = to
        BY <1>1, <1>2, DecidedTurns
    <2>2. FreshPrices(product, edit'[w]) BY <1>2, <2>1 DEF FreshPrices, Serves, Live
    <2>3. \A x \in Workers : ~EditsProduct(edit[x]) BY <1>2, AloneOnProduct
    <2>4. SaleBelowBase' BY <2>1 DEF PriceInv, SaleBelowBase, Priced, Live
    <2> QED BY <2>1, <2>2, <2>3, <2>4, PricesKept DEF Turns
<1>3. ASSUME NEW row \in NewProducts, NEW typed \in BOOLEAN, ProductCreate(w, row, typed)
      PROVE  PriceInv'
    <2>1. Reaches(w, "product") /\ Priced(row) /\ Decided(w, "product.create", None, None, row)
        BY <1>3 DEF ProductCreate
    <2> QED BY <2>1, <1>2 DEF ProductOps
<1>4. ASSUME NEW p \in Products, NEW to \in Updates, ProductUpdateRead(w, p, to)
      PROVE  PriceInv'
    <2>1. /\ Reaches(w, "product") /\ BelowBase(product[p], to) /\ p \in Live(product)
          /\ Decided(w, "product.update", p, product[p], to)
        BY <1>4 DEF ProductUpdateRead
    <2> QED BY <2>1, <1>2 DEF ProductOps
<1>5. ASSUME NEW p \in Products, ProductArchiveRead(w, p) PROVE PriceInv'
    <2>1. /\ Reaches(w, "product") /\ p \in Live(product)
          /\ Decided(w, "product.archive", p, product[p], [status |-> "archived"])
        BY <1>5 DEF ProductArchiveRead
    <2> QED BY <2>1, <1>2 DEF ProductOps
<1>6. ASSUME NEW p \in Products, ProductDelete(w, p) PROVE PriceInv'
    <2>1. Turns(w, {"product.delete"}) /\ product' = product
        BY <1>1, <1>6, DecidedTurns DEF ProductDelete
    <2> QED BY <2>1, OthersPrices DEF ProductOps
<1> QED BY <1>3, <1>4, <1>5, <1>6

\* The columns that an edit names are the ones it was checked with.
LEMMA AppliedPrices ==
    ASSUME NEW row \in ProductRow, NEW to \in ProductUpdate, BelowBase(row, to)
    PROVE  Priced(Applied(row, row, to))
<1> DEFINE new == Applied(row, row, to)
<1>1. {"base_price", "sale_price"} \subseteq DOMAIN to BY DEF ProductUpdate
<1>2. /\ new.base_price = IF to.base_price = MISSING THEN row.base_price ELSE to.base_price
      /\ new.sale_price = IF to.sale_price = MISSING THEN row.sale_price ELSE to.sale_price
    BY <1>1, ProductColumns, AppliedColumn
<1> HIDE DEF new
<1>3. Priced(new) BY <1>2 DEF BelowBase, Priced
<1> QED BY <1>3 DEF new

LEMMA ProductCommitsPrices ==
    ASSUME CatalogInv, CatalogInv', PriceInv, NEW w \in Workers,
           (\E p \in Products : ProductInsert(w, p)) \/ ProductWrite(w) \/ ProductArchive(w)
    PROVE  PriceInv'
<1>1. /\ Tables /\ Requests /\ RequestOK(edit[w]) /\ DOMAIN product = Products
      /\ Live(product) = {p \in Products : product[p] \in ProductRow}
      /\ FreshPrices(product, edit[w])
    BY LiveRows DEF CatalogInv, Requests, PriceInv
<1>2. ASSUME EditsProduct(edit[w]), Answer(w), NEW p, NEW row, Priced(row),
             product' = product \/ product' = [product EXCEPT ![p] = row]
      PROVE  PriceInv'
    <2>1. Turns(w, {}) BY <1>1, <1>2, AnswerTurns
    <2>2. FreshPrices(product', edit'[w]) /\ ~EditsProduct(edit'[w])
        BY <2>1, NoPrices DEF Turns, EditsProduct
    <2>3. \A q \in Live(product') : Priced(product'[q])
        BY <1>1, <1>2 DEF PriceInv, SaleBelowBase, Priced, Live
    <2>4. SaleBelowBase' BY <2>3 DEF SaleBelowBase, Priced, Live
    <2> QED BY <1>2, <2>1, <2>2, <2>4, PricesKept DEF Turns
<1>3. ASSUME NEW p \in Products, ProductInsert(w, p) PROVE PriceInv'
    <2> PICK row : row = edit[w].to OBVIOUS
    <2>1. /\ edit[w].pc = "decided" /\ edit[w].op = "product.create" /\ Answer(w)
          /\ product' = product \/ product' = [product EXCEPT ![p] = row]
        BY <1>3 DEF ProductInsert, At
    <2>2. EditsProduct(edit[w]) /\ Priced(row)
        BY <1>1, <2>1 DEF EditsProduct, ProductOps, FreshPrices, Serves
    <2> QED BY <1>2, <2>1, <2>2
<1>4. ASSUME ProductWrite(w) PROVE PriceInv'
    <2> PICK p, seen, to : p = edit[w].id /\ seen = edit[w].seen /\ to = edit[w].to OBVIOUS
    <2>1. /\ edit[w].pc = "decided" /\ edit[w].op = "product.update" /\ Answer(w)
          /\ \/ product' = product
             \/ p \in Live(product)
                /\ product' = [product EXCEPT ![p] = Applied(product[p], seen, to)]
        BY <1>4 DEF ProductWrite, At
    <2>2. /\ EditsProduct(edit[w]) /\ seen \in ProductRow /\ to \in ProductUpdate
          /\ BelowBase(seen, to)
          /\ p \in Live(product) => product[p] = seen
        BY <1>1, <2>1 DEF EditsProduct, ProductOps, FreshPrices, Serves, RequestOK
    <2>3. Priced(Applied(seen, seen, to)) BY <2>2, AppliedPrices
    <2>4. \/ product' = product
          \/ product' = [product EXCEPT ![p] = Applied(seen, seen, to)]
        BY <2>1, <2>2
    <2> QED BY <1>2, <2>1, <2>2, <2>3, <2>4
<1>5. ASSUME ProductArchive(w) PROVE PriceInv'
    <2> PICK p, seen, to : p = edit[w].id /\ seen = edit[w].seen /\ to = edit[w].to OBVIOUS
    <2>1. /\ edit[w].pc = "decided" /\ edit[w].op = "product.archive" /\ Answer(w)
          /\ \/ product' = product
             \/ p \in Live(product)
                /\ product' = [product EXCEPT ![p] = Applied(product[p], seen, to)]
        BY <1>5 DEF ProductArchive, At
    <2>2. EditsProduct(edit[w]) /\ to = [status |-> "archived"]
        BY <1>1, <2>1 DEF EditsProduct, ProductOps, Serves, RequestOK
    <2>3. p \in Live(product) => Priced(Applied(product[p], seen, to))
        <3> SUFFICES ASSUME p \in Live(product) PROVE Priced(Applied(product[p], seen, to))
            OBVIOUS
        <3>1. Priced(product[p]) /\ product[p] \in ProductRow
            BY <1>1 DEF PriceInv, SaleBelowBase
        <3> DEFINE new == Applied(product[p], seen, to)
        <3>2. new.base_price = product[p].base_price /\ new.sale_price = product[p].sale_price
            BY <3>1, <2>2, AppliedArchive
        <3> HIDE DEF new
        <3>3. Priced(new) BY <3>1, <3>2 DEF Priced
        <3> QED BY <3>3 DEF new
    <2>4. CASE product' = product
        <3>1. Priced([base_price |-> 0, sale_price |-> None]) BY DEF Priced
        <3> QED BY <1>2, <2>1, <2>2, <2>4, <3>1
    <2> QED BY <1>2, <2>1, <2>2, <2>3, <2>4
<1> QED BY <1>3, <1>4, <1>5

LEMMA NextPriceInv ==
    ASSUME "product" \in Serial
    PROVE  CatalogInv /\ CatalogInv' /\ PriceInv /\ [CatalogNext]_catalogVars => PriceInv'
<1> SUFFICES ASSUME CatalogInv, CatalogInv', PriceInv, [CatalogNext]_catalogVars
             PROVE  PriceInv'
    OBVIOUS
<1>1. /\ Tables /\ Requests /\ DOMAIN product = Products
      /\ DOMAIN variant = Variants /\ DOMAIN category = Categories
    BY LiveRows DEF CatalogInv
<1>2. CASE UNCHANGED catalogVars
    BY <1>2 DEF catalogVars, PriceInv, OneProductEdit, EditsProduct, SaleBelowBase, Priced,
                Live, FreshPrices, Serves
<1>3. ASSUME NEW w \in Workers,
             CategoryStep(w) \/ VariantStep(w) \/ ImageStep(w)
             \/ SeedStart(w) \/ SeedOrders(w) \/ Crash(w)
      PROVE  PriceInv'
    <2> DEFINE handlers == CategoryOps \cup VariantOps \cup ImageOps \cup SeedOps
    <2>1. Turns(w, handlers) /\ product' = product
        BY <1>1, <1>3, CategoryTurns, VariantTurns, ImageTurns, SeedTurns DEF Turns
    <2>2. handlers \cap ProductOps = {}
        BY DEF CategoryOps, VariantOps, ImageOps, SeedOps, ProductOps
    <2> HIDE DEF handlers
    <2> QED BY <2>1, <2>2, OthersPrices
<1>4. ASSUME NEW w \in Workers, ProductRemove(w) PROVE PriceInv'
    <2>1. /\ Turns(w, {})
          /\ \A p \in Products : product'[p] \in {product[p], Gone}
        BY <1>1, <1>4, AnswerTurns DEF ProductRemove
    <2> QED BY <2>1, OthersPrices
<1>5. ASSUME NEW w \in Workers, SeedInsert(w) PROVE PriceInv'
    <2>1. SeedOps \cap ProductOps = {} BY DEF SeedOps, ProductOps
    <2> QED BY <1>5, <2>1, SeedTables, OthersPrices
<1>6. ASSUME NEW w \in Workers, SeedReset(w) PROVE PriceInv'
    <2>1. /\ edit' = edit /\ edit[w].pc = "idle"
          /\ \A p \in Products : product'[p] \in {product[p], Gone}
        BY <1>1, <1>6 DEF SeedReset, Reaches
    <2>2. Turns(w, {}) BY <2>1 DEF Turns
    <2> QED BY <2>1, <2>2, OthersPrices
<1>7. ASSUME NEW w \in Workers, ProductStep(w) PROVE PriceInv'
    BY <1>4, <1>7, ProductReadsPrices, ProductCommitsPrices DEF ProductStep
<1> QED BY <1>2, <1>3, <1>5, <1>6, <1>7 DEF CatalogNext, SeedStep

\* Where the edits of products are made one at a time, a product's sale price stays
\* below its base price, whichever of the two an edit names and whoever deletes,
\* reloads or publishes products meanwhile (create_product, update_product).
THEOREM SalesStayBelow ==
    ASSUME "product" \in Serial
    PROVE  CatalogSpec => []SaleBelowBase
<1>1. PriceInv => SaleBelowBase BY DEF PriceInv
<1>2. CatalogInv /\ PriceInv /\ [CatalogNext]_catalogVars => CatalogInv' /\ PriceInv'
    BY NextCatalogInv, NextPriceInv
<1> QED BY <1>1, <1>2, InitCatalogInv, InitPriceInv, PTL DEF CatalogSpec

-----------------------------------------------------------------------------
(* The photographs, where the images are edited one at a time.              *)

EditsImage(r) == r.pc # "idle" /\ r.op \in ImageOps

OneImageEdit ==
    \A x, y \in Workers : EditsImage(edit[x]) /\ EditsImage(edit[y]) => x = y

PhotosOf(photos, p) == {i \in Live(photos) : photos[i].product = p}
PrimariesOf(photos, p) == {i \in PhotosOf(photos, p) : photos[i].is_primary}
OneEach(photos) ==
    \A i, j \in Live(photos) :
        /\ photos[i].product = photos[j].product
        /\ photos[i].is_primary /\ photos[j].is_primary
        => i = j
Led(photos, p) ==
    PhotosOf(photos, p) = {} \/ \E i \in PhotosOf(photos, p) : photos[i].is_primary

\* The product whose photographs a request is about.
Owner(r) == IF r.op = "image.create" THEN r.id ELSE r.seen.product

\* A new image is the primary one if it is the first, and nothing else was asked for.
FreshCreate(photos, shelf, r) ==
    /\ shelf[r.id] # None
    /\ r.seen \in BOOLEAN => r.to.is_primary = r.seen
    /\ r.seen \notin BOOLEAN /\ ~r.to.is_primary /\ r.id \in Live(shelf) =>
          PhotosOf(photos, r.id) # {}
    /\ r.pc = "flushed" =>
          r.others = IF r.to.is_primary THEN PrimariesOf(photos, r.id) ELSE {}

\* The row is as it was read, or it is gone with its product.
FreshRow(photos, shelf, r) ==
    /\ shelf[r.seen.product] # None /\ photos[r.id] # None
    /\ IF r.id \in Live(photos) THEN photos[r.id] = r.seen
       ELSE PhotosOf(photos, r.seen.product) = {} /\ r.seen.product \notin Live(shelf)

\* A deleted primary image has a successor if there is another image.
Succeeded(photos, r) ==
    LET rest == PhotosOf(photos, r.seen.product) \ {r.id} IN
    IF r.seen.is_primary /\ rest # {} THEN \E i \in rest : r.others = {i}
                                      ELSE r.others = {}

FreshImage(photos, shelf, r) ==
    /\ Serves(r, "image.create") => FreshCreate(photos, shelf, r)
    /\ Serves(r, "image.update") \/ Serves(r, "image.delete") => FreshRow(photos, shelf, r)
    /\ Serves(r, "image.update") /\ r.pc = "flushed" =>
          r.others = IF r.to.is_primary = TRUE
                     THEN PrimariesOf(photos, r.seen.product) \ {r.id} ELSE {}
    /\ Serves(r, "image.delete") /\ r.pc = "flushed" => Succeeded(photos, r)

PhotoInv ==
    OneImageEdit /\ OneEach(image) /\ \A w \in Workers : FreshImage(image, product, edit[w])

LEMMA NoPhotos ==
    ASSUME NEW photos, NEW shelf, NEW r, ~EditsImage(r)
    PROVE  FreshImage(photos, shelf, r)
BY DEF EditsImage, ImageOps, FreshImage, Serves

LEMMA InitPhotoInv == CatalogInit => PhotoInv
<1> SUFFICES ASSUME CatalogInit PROVE PhotoInv
    OBVIOUS
<1>1. \A w \in Workers : ~EditsImage(edit[w])
    BY IdleOK DEF CatalogInit, EditsImage
<1>2. Live(image) = {} BY DEF CatalogInit, Live
<1> QED BY <1>1, <1>2, NoPhotos DEF PhotoInv, OneImageEdit, OneEach

\* The photographs of a product after a step: as they were, or gone with it.
Same(q) ==
    /\ PhotosOf(image', q) = PhotosOf(image, q)
    /\ \A i \in PhotosOf(image, q) : image'[i] = image[i]
Dropped(q) ==
    /\ PhotosOf(image', q) = {} /\ q \notin Live(product')
    /\ \A x \in Workers :
           EditsImage(edit[x]) /\ edit[x].pc = "flushed" => Owner(edit[x]) # q

\* A step that edits no image: products and their images go together, and the
\* images of new products come together.
Gentle ==
    /\ \A p \in Products : product[p] # None =>
           /\ product'[p] # None
           /\ p \in Live(product') => p \in Live(product)
           /\ Same(p) \/ Dropped(p)
    /\ \A i \in Images : image[i] # None => image'[i] \in {image[i], Gone}
    /\ \A i \in Images : NewImage(i) =>
           image'[i] \in ImageRow /\ product[image'[i].product] = None
    /\ \A i, j \in Images :
           /\ NewImage(i) /\ NewImage(j) /\ image'[i].product = image'[j].product
           /\ image'[i].is_primary /\ image'[j].is_primary
           => i = j
    /\ \A i \in Images : NewImage(i) =>
           \E j \in Images : NewImage(j) /\ image'[j].product = image'[i].product
                             /\ image'[j].is_primary

LEMMA OwnerOf ==
    ASSUME NEW r, RequestOK(r), EditsImage(r), FreshImage(image, product, r)
    PROVE  Owner(r) \in Products /\ product[Owner(r)] # None
<1>1. CASE Serves(r, "image.create")
    BY <1>1 DEF RequestOK, Serves, Owner, FreshImage, FreshCreate
<1>2. CASE Serves(r, "image.update") \/ Serves(r, "image.delete")
    <2>1. r.seen \in ImageRow /\ r.op # "image.create" /\ product[r.seen.product] # None
        BY <1>2 DEF RequestOK, Serves, FreshImage, FreshRow
    <2> QED BY <2>1 DEF Owner, ImageRow
<1> QED BY <1>1, <1>2 DEF EditsImage, ImageOps, Serves

\* What a request relies on stays through the steps of the others.
LEMMA FreshImageStays ==
    ASSUME CatalogInv, CatalogInv', Gentle, NEW x \in Workers, NEW r, r = edit[x],
           EditsImage(r), FreshImage(image, product, r)
    PROVE  FreshImage(image', product', r)
<1> PICK q : q = Owner(r) OBVIOUS
<1>1. RequestOK(r) /\ Tables BY DEF CatalogInv, Requests
<1>2. /\ q \in Products /\ product[q] # None /\ product'[q] # None
      /\ q \in Live(product') => q \in Live(product)
      /\ Same(q) \/ Dropped(q)
    BY <1>1, OwnerOf DEF Gentle
<1>3. r.pc = "flushed" => Same(q) BY <1>2 DEF Dropped
<1>4. Same(q) => PrimariesOf(image', q) = PrimariesOf(image, q)
    BY DEF Same, PrimariesOf
<1>5. CASE Serves(r, "image.create")
    <2>1. q = r.id /\ FreshCreate(image, product, r)
        BY <1>5 DEF Owner, Serves, FreshImage
    <2>2. FreshCreate(image', product', r)
        BY <1>2, <1>3, <1>4, <2>1 DEF FreshCreate, Same, Dropped
    <2> QED BY <1>5, <2>2 DEF FreshImage, Serves
<1>6. CASE Serves(r, "image.update") \/ Serves(r, "image.delete")
    <2>1. q = r.seen.product /\ FreshRow(image, product, r)
        BY <1>6 DEF Owner, Serves, FreshImage
    <2>2. r.id \in Images /\ DOMAIN image = Images /\ image' \in [Images -> ImageRow \cup {None, Gone}]
        BY <1>1, <1>6, LiveRows DEF RequestOK, CatalogInv, Tables
    <2>3. /\ image[r.id] # None /\ image'[r.id] \in {image[r.id], Gone} /\ None # Gone
          /\ DOMAIN image' = Images
        BY <2>1, <2>2, CatalogAssumption DEF FreshRow, Gentle
    <2>6. /\ Serves(r, "image.update") /\ r.pc = "flushed" =>
                r.others = IF r.to.is_primary = TRUE
                           THEN PrimariesOf(image', q) \ {r.id} ELSE {}
          /\ Serves(r, "image.delete") /\ r.pc = "flushed" => Succeeded(image', r)
        <3>1. ASSUME Serves(r, "image.update"), r.pc = "flushed"
              PROVE  r.others = IF r.to.is_primary = TRUE
                                THEN PrimariesOf(image', q) \ {r.id} ELSE {}
            BY <1>3, <1>4, <2>1, <3>1 DEF FreshImage
        <3>2. ASSUME Serves(r, "image.delete"), r.pc = "flushed"
              PROVE  Succeeded(image', r)
            <4>1. Succeeded(image, r) BY <3>2 DEF FreshImage
            <4>2. PhotosOf(image', q) = PhotosOf(image, q) BY <1>3, <3>2 DEF Same
            <4> QED BY <2>1, <4>1, <4>2 DEF Succeeded
        <3> QED BY <3>1, <3>2
    <2>7. FreshRow(image', product', r) => FreshImage(image', product', r)
        BY <1>6, <2>1, <2>6 DEF FreshImage, Serves
    <2>4. CASE r.id \in Live(image)
        <3>1. image[r.id] = r.seen /\ r.id \in PhotosOf(image, q)
            BY <2>1, <2>4 DEF FreshRow, PhotosOf
        <3>2. FreshRow(image', product', r)
            <4>1. CASE Same(q)
                BY <2>1, <2>3, <2>4, <3>1, <4>1, <1>2 DEF FreshRow, Same, PhotosOf
            <4>2. CASE Dropped(q)
                <5>1. r.id \notin Live(image')
                    BY <2>1, <2>3, <3>1, <4>2 DEF Dropped, PhotosOf, Live
                <5> QED BY <2>1, <2>3, <4>2, <5>1, <1>2 DEF FreshRow, Dropped
            <4> QED BY <4>1, <4>2, <1>2
        <3> QED BY <2>7, <3>2
    <2>5. CASE r.id \notin Live(image)
        <3>1. image'[r.id] = Gone BY <2>2, <2>3, <2>5 DEF Live
        <3>2. PhotosOf(image', q) = {} /\ q \notin Live(product')
            BY <1>2, <2>1, <2>5 DEF FreshRow, Same, Dropped
        <3>3. FreshRow(image', product', r)
            BY <1>2, <2>1, <2>3, <3>1, <3>2 DEF FreshRow, Live
        <3> QED BY <2>7, <3>3
    <2> QED BY <2>4, <2>5
<1> QED BY <1>5, <1>6 DEF EditsImage, ImageOps, Serves

\* Such a step leaves no product with two primary images, nor without one.
LEMMA GentlePhotos ==
    ASSUME CatalogInv, CatalogInv', PhotoInv, Gentle
    PROVE  OneEach(image') /\ \A p \in Products : Led(image, p) => Led(image', p)
<1>1. /\ image' \in [Images -> ImageRow \cup {None, Gone}]
      /\ Live(image) = {i \in Images : image[i] \in ImageRow}
      /\ \A i \in Live(image) : product[image[i].product] # None
      /\ None # Gone
    <2>1. Tables /\ KeysHold BY DEF CatalogInv
    <2>2. image' \in [Images -> ImageRow \cup {None, Gone}] BY DEF CatalogInv, Tables
    <2> QED BY <2>1, <2>2, LiveRows, CatalogAssumption DEF KeysHold, Live
<1>2. Live(image') = {i \in Images : image'[i] \in ImageRow}
    BY <1>1, RowsAreRows DEF Live
<1>3. \A i \in Live(image') :
          \/ NewImage(i) /\ product[image'[i].product] = None
          \/ i \in Live(image) /\ image'[i] = image[i]
                /\ product[image'[i].product] # None
    <2> SUFFICES ASSUME NEW i \in Live(image')
                 PROVE  \/ NewImage(i) /\ product[image'[i].product] = None
                        \/ i \in Live(image) /\ image'[i] = image[i]
                              /\ product[image'[i].product] # None
        OBVIOUS
    <2>1. image'[i] \in ImageRow /\ image'[i] # None /\ image'[i] # Gone /\ i \in Images
        BY <1>2, RowsAreRows
    <2>2. CASE image[i] = None
        BY <2>1, <2>2 DEF Gentle, NewImage
    <2>3. CASE image[i] # None
        <3>1. image'[i] = image[i] BY <2>1, <2>3 DEF Gentle
        <3> QED BY <1>1, <2>1, <3>1
    <2> QED BY <2>2, <2>3
<1>4. OneEach(image')
    <2> SUFFICES ASSUME NEW i \in Live(image'), NEW j \in Live(image'),
                        image'[i].product = image'[j].product,
                        image'[i].is_primary, image'[j].is_primary
                 PROVE  i = j
        BY DEF OneEach
    <2>1. CASE NewImage(i) /\ NewImage(j)
        BY <2>1, <1>2 DEF Gentle
    <2>2. CASE ~NewImage(i) /\ ~NewImage(j)
        BY <2>2, <1>3 DEF PhotoInv, OneEach
    <2>3. \A k \in Live(image) : ~NewImage(k) BY DEF NewImage, Live
    <2> QED BY <2>1, <2>2, <2>3, <1>3
<1>5. ASSUME NEW p \in Products, Led(image, p) PROVE Led(image', p)
    <2>1. CASE product[p] # None
        <3>1. Same(p) \/ Dropped(p) BY <2>1 DEF Gentle
        <3> QED BY <3>1, <1>5 DEF Led, Same, Dropped
    <2>2. CASE product[p] = None
        <3>1. \A i \in PhotosOf(image', p) : NewImage(i) /\ i \in Images
            BY <2>2, <1>2, <1>3 DEF PhotosOf
        <3>2. \A i \in PhotosOf(image', p) : \E j \in PhotosOf(image', p) : image'[j].is_primary
            <4> SUFFICES ASSUME NEW i \in PhotosOf(image', p)
                         PROVE  \E j \in PhotosOf(image', p) : image'[j].is_primary
                OBVIOUS
            <4>1. PICK j \in Images : /\ NewImage(j) /\ image'[j].is_primary
                                      /\ image'[j].product = image'[i].product
                BY <3>1 DEF Gentle
            <4>2. image'[i].product = p BY DEF PhotosOf
            <4>3. j \in Live(image') BY <4>1, <1>2 DEF Gentle
            <4>4. j \in PhotosOf(image', p) BY <4>1, <4>2, <4>3 DEF PhotosOf
            <4> QED BY <4>1, <4>4
        <3> QED BY <3>2 DEF Led
    <2> QED BY <2>1, <2>2
<1> QED BY <1>4, <1>5

LEMMA OthersPhotos ==
    ASSUME CatalogInv, CatalogInv', PhotoInv, Gentle, NEW w \in Workers,
           NEW handlers, handlers \cap ImageOps = {}, Turns(w, handlers)
    PROVE  PhotoInv' /\ \A p \in Products : Led(image, p) => Led(image', p)
<1>1. ~EditsImage(edit'[w]) BY DEF Turns, EditsImage
<1>2. OneImageEdit' BY <1>1 DEF PhotoInv, OneImageEdit, Turns, EditsImage
<1>3. ASSUME NEW x \in Workers PROVE FreshImage(image', product', edit'[x])
    <2>1. CASE ~EditsImage(edit'[x]) BY <2>1, NoPhotos
    <2>2. CASE EditsImage(edit'[x])
        <3>1. edit'[x] = edit[x] BY <1>1, <2>2 DEF Turns
        <3>2. PICK r : r = edit[x] OBVIOUS
        <3>3. EditsImage(r) /\ FreshImage(image, product, r)
            BY <2>2, <3>1, <3>2 DEF PhotoInv
        <3>4. FreshImage(image', product', r) BY <3>2, <3>3, FreshImageStays
        <3> QED BY <3>1, <3>2, <3>4
    <2> QED BY <2>1, <2>2
<1>4. OneEach(image') /\ \A p \in Products : Led(image, p) => Led(image', p)
    BY GentlePhotos
<1>5. OneEach(image)' BY <1>4 DEF OneEach, Live
<1>6. \A x \in Workers : FreshImage(image, product, edit[x])'
    BY <1>3 DEF FreshImage, FreshCreate, FreshRow, Succeeded, PhotosOf, PrimariesOf, Live,
                Serves
<1> QED BY <1>2, <1>4, <1>5, <1>6 DEF PhotoInv

\* The steps that leave the images alone.
LEMMA SamePhotos ==
    ASSUME image' = image,
           \A p \in Products : product[p] # None =>
               /\ product'[p] # None
               /\ p \in Live(product') => p \in Live(product)
    PROVE  Gentle
BY DEF Gentle, Same, NewImage, PhotosOf, Live

LEMMA ProductTurns ==
    ASSUME CatalogInv, NEW w \in Workers, ProductStep(w), ~ProductRemove(w)
    PROVE  Gentle /\ Turns(w, ProductOps \cup {"product.delete"})
<1> DEFINE handlers == ProductOps \cup {"product.delete"}
<1>1. /\ Tables /\ Requests /\ RequestOK(edit[w]) /\ DOMAIN product = Products
      /\ Live(product) = {p \in Products : product[p] \in ProductRow}
    BY LiveRows DEF CatalogInv, Requests
<1>2. /\ "product.create" \in handlers /\ "product.update" \in handlers
      /\ "product.archive" \in handlers /\ "product.delete" \in handlers
    BY DEF ProductOps
<1> HIDE DEF handlers
<1>3. ASSUME product' = product, image' = image PROVE Gentle
    BY <1>3, SamePhotos DEF Live
<1>4. ASSUME NEW op \in handlers, NEW id, NEW seen, NEW to, Decided(w, op, id, seen, to)
      PROVE  Gentle /\ Turns(w, handlers)
    BY <1>1, <1>3, <1>4, DecidedTurns
<1>5. ASSUME NEW p \in Products, NEW row, Answer(w), image' = image,
             p \in Live(product) => row \in ProductRow, p \in Live(product) \cup Unused(product),
             product' = product \/ product' = [product EXCEPT ![p] = row]
      PROVE  Gentle /\ Turns(w, handlers)
    <2>1. Turns(w, handlers) BY <1>1, <1>5, AnswerTurns
    <2>2. \A q \in Products : product[q] # None =>
              /\ product'[q] # None
              /\ q \in Live(product') => q \in Live(product)
        BY <1>1, <1>5, RowsAreRows DEF Live, Unused
    <2> QED BY <1>5, <2>1, <2>2, SamePhotos
<1>6. ASSUME NEW row \in NewProducts, NEW typed \in BOOLEAN, ProductCreate(w, row, typed)
      PROVE  Gentle /\ Turns(w, handlers)
    BY <1>2, <1>4, <1>6 DEF ProductCreate
<1>7. ASSUME NEW p \in Products, NEW to, ProductUpdateRead(w, p, to)
      PROVE  Gentle /\ Turns(w, handlers)
    BY <1>2, <1>4, <1>7 DEF ProductUpdateRead
<1>8. ASSUME NEW p \in Products, ProductArchiveRead(w, p)
      PROVE  Gentle /\ Turns(w, handlers)
    BY <1>2, <1>4, <1>8 DEF ProductArchiveRead
<1>9. ASSUME NEW p \in Products, ProductDelete(w, p)
      PROVE  Gentle /\ Turns(w, handlers)
    BY <1>2, <1>4, <1>9 DEF ProductDelete
<1>10. ASSUME NEW p \in Products, ProductInsert(w, p)
       PROVE  Gentle /\ Turns(w, handlers)
    <2> PICK row : row = edit[w].to OBVIOUS
    <2>1. /\ Answer(w) /\ image' = image /\ p \in Unused(product) /\ p \notin Live(product)
          /\ product' = product \/ product' = [product EXCEPT ![p] = row]
        BY <1>10 DEF ProductInsert, Unused, Live
    <2> QED BY <1>5, <2>1
<1>11. ASSUME ProductWrite(w) PROVE Gentle /\ Turns(w, handlers)
    <2> PICK p, row : p = edit[w].id /\ row = Applied(product[p], edit[w].seen, edit[w].to)
        OBVIOUS
    <2>1. /\ edit[w].to \in ProductUpdate /\ p \in Products
          /\ Answer(w) /\ UNCHANGED <<category, variant, image, ordered, load>>
          /\ \/ product' = product
             \/ p \in Live(product) /\ product' = [product EXCEPT ![p] = row]
        BY <1>1, <1>11 DEF ProductWrite, At, RequestOK, Serves
    <2>2. p \in Live(product) => row \in ProductRow
        BY <1>1, <2>1, AppliedProduct
    <2>3. CASE product' = product
        BY <1>1, <1>3, <2>1, <2>3, AnswerTurns
    <2> QED BY <1>5, <2>1, <2>2, <2>3
<1>12. ASSUME ProductArchive(w) PROVE Gentle /\ Turns(w, handlers)
    <2> PICK p, row : p = edit[w].id
                      /\ row = Applied(product[p], edit[w].seen, [status |-> "archived"])
        OBVIOUS
    <2>1. /\ p \in Products
          /\ Answer(w) /\ UNCHANGED <<category, variant, image, ordered, load>>
          /\ \/ product' = product
             \/ p \in Live(product) /\ product' = [product EXCEPT ![p] = row]
        BY <1>1, <1>12 DEF ProductArchive, At, RequestOK, Serves
    <2>2. p \in Live(product) => row \in ProductRow
        BY <1>1, <2>1, AppliedArchive
    <2>3. CASE product' = product
        BY <1>1, <1>3, <2>1, <2>3, AnswerTurns
    <2> QED BY <1>5, <2>1, <2>2, <2>3
<1> QED BY <1>6, <1>7, <1>8, <1>9, <1>10, <1>11, <1>12 DEF ProductStep, handlers

\* Deleting a product takes its images along, none of which is being edited then.
LEMMA RemovePhotos ==
    ASSUME CatalogInv, PhotoInv, NEW w \in Workers, ProductRemove(w)
    PROVE  Gentle /\ Turns(w, {})
<1> PICK p, kept : p = edit[w].id /\ kept = \E v \in VariantsOf(p) : Referenced(v)
    OBVIOUS
<1>1. /\ Tables /\ Requests /\ RequestOK(edit[w]) /\ p \in Products /\ DOMAIN product = Products
      /\ DOMAIN image = Images /\ image \in [Images -> ImageRow \cup {None, Gone}]
      /\ edit[w].pc = "decided" /\ ProductFree(w, p) /\ Answer(w)
      /\ product' = IF kept THEN product ELSE [product EXCEPT ![p] = Gone]
      /\ image' = [i \in Images |-> IF i \in ImagesOf(p) /\ ~kept THEN Gone ELSE image[i]]
    BY LiveRows DEF CatalogInv, Requests, ProductRemove, At, RequestOK, Serves, Tables
<1>2. Turns(w, {}) BY <1>1, AnswerTurns
<1>3. CASE kept
    <2>1. image' = [i \in Images |-> image[i]] /\ product' = product BY <1>1, <1>3
    <2>2. image' = image BY <1>1, <2>1
    <2> QED BY <1>2, <2>1, <2>2, SamePhotos DEF Live
<1>4. CASE ~kept
    <2>1. /\ product' = [product EXCEPT ![p] = Gone]
          /\ \A i \in Images : image'[i] = IF i \in PhotosOf(image, p) THEN Gone ELSE image[i]
          /\ DOMAIN image' = Images
        BY <1>1, <1>4 DEF ImagesOf, PhotosOf
    <2>2. ASSUME NEW q \in Products, product[q] # None, q # p PROVE Same(q)
        BY <2>1, <2>2, <1>1 DEF Same, PhotosOf, Live
    <2>3. PhotosOf(image', p) = {} BY <2>1, <1>1 DEF PhotosOf, Live
    <2>4. p \notin Live(product') BY <2>1, <1>1 DEF Live
    <2>5. PhotosOf(image, p) = {} => Same(p) BY <2>3 DEF Same
    <2>6. ASSUME PhotosOf(image, p) # {}, NEW x \in Workers, EditsImage(edit[x]),
                 edit[x].pc = "flushed"
          PROVE  Owner(edit[x]) # p
        <3>1. x # w BY <1>1, <2>6
        <3>2. FreshImage(image, product, edit[x]) BY DEF PhotoInv
        <3>3. CASE edit[x].op = "image.create"
            BY <1>1, <2>6, <3>1, <3>3 DEF ProductFree, At, Owner
        <3>4. CASE edit[x].op \in {"image.update", "image.delete"}
            <4>1. FreshRow(image, product, edit[x])
                BY <2>6, <3>2, <3>4 DEF FreshImage, Serves
            <4>2. edit[x].id \notin ImagesOf(p)
                BY <1>1, <2>6, <3>1, <3>4 DEF ProductFree, ImagesFree, At
            <4>3. edit[x].id \notin PhotosOf(image, p)
                BY <4>2 DEF ImagesOf, PhotosOf
            <4> QED BY <2>6, <3>4, <4>1, <4>3 DEF FreshRow, PhotosOf, Owner
        <3> QED BY <2>6, <3>3, <3>4 DEF EditsImage, ImageOps
    <2>7. Same(p) \/ Dropped(p) BY <2>3, <2>4, <2>5, <2>6 DEF Dropped
    <2>8. \A i \in Images : ~NewImage(i)
        BY <2>1, <1>1 DEF NewImage, PhotosOf, Live
    <2>9. \A q \in Products : product[q] # None =>
              product'[q] # None /\ (q \in Live(product') => q \in Live(product))
        BY <2>1, <1>1, CatalogAssumption DEF Live
    <2> QED BY <1>2, <2>1, <2>2, <2>7, <2>8, <2>9 DEF Gentle
<1> QED BY <1>3, <1>4

LEMMA ResetPhotos ==
    ASSUME CatalogInv, NEW w \in Workers, SeedReset(w)
    PROVE  Gentle /\ Turns(w, {})
<1>1. /\ edit' = edit /\ edit[w].pc = "idle" /\ \A x \in Workers : edit[x].pc # "flushed"
      /\ product' = [p \in Products |-> IF product[p] = None THEN None ELSE Gone]
      /\ image' = [i \in Images |-> IF image[i] = None THEN None ELSE Gone]
    BY LiveRows DEF SeedReset, Reaches, CatalogInv
<1>2. Turns(w, {}) BY <1>1 DEF Turns
<1>3. \A p \in Products : Dropped(p)
    BY <1>1 DEF Dropped, PhotosOf, Live
<1>4. \A i \in Images : ~NewImage(i) BY <1>1 DEF NewImage
<1>5. \A p \in Products : product[p] # None =>
          product'[p] # None /\ (p \in Live(product') => p \in Live(product))
    BY <1>1, CatalogAssumption DEF Live
<1> QED BY <1>1, <1>2, <1>3, <1>4, <1>5 DEF Gentle

LEMMA InsertPhotos ==
    ASSUME CatalogInv, CatalogInv', NEW w \in Workers, SeedInsert(w)
    PROVE  Gentle /\ Turns(w, SeedOps)
<1>1. /\ Tables /\ DOMAIN image = Images /\ DOMAIN product = Products
      /\ product' \in [Products -> ProductRow \cup {None, Gone}]
      /\ image' \in [Images -> ImageRow \cup {None, Gone}]
    BY LiveRows DEF CatalogInv, Tables
<1>2. \A p \in Products : product[p] # None => product'[p] = product[p]
    BY SeedTables
<1>3. \A i \in Images : \/ image'[i] = image[i]
                        \/ NewImage(i) /\ image'[i] \in ImageRow
                           /\ product[image'[i].product] = None
    BY SeedTables
<1>4. ASSUME NEW q \in Products, product[q] # None PROVE Same(q)
    <2>1. \A i : i \in PhotosOf(image', q) <=> i \in PhotosOf(image, q)
        <3>1. \A i \in PhotosOf(image', q) : i \in PhotosOf(image, q)
            BY <1>1, <1>3, <1>4 DEF PhotosOf, Live
        <3>2. \A i \in PhotosOf(image, q) : i \in PhotosOf(image', q)
            BY <1>1, <1>3 DEF PhotosOf, Live, NewImage
        <3> QED BY <3>1, <3>2
    <2>2. \A i \in PhotosOf(image, q) : image'[i] = image[i]
        BY <1>1, <1>3 DEF PhotosOf, Live, NewImage
    <2> QED BY <2>1, <2>2 DEF Same
<1>5. \A i \in Images : NewImage(i) =>
          image'[i] \in ImageRow /\ product[image'[i].product] = None
    BY <1>3 DEF NewImage
<1>6. \A i \in Images : image[i] # None => image'[i] \in {image[i], Gone}
    BY <1>3 DEF NewImage
<1>7. \A p \in Products : product[p] # None =>
          product'[p] # None /\ (p \in Live(product') => p \in Live(product))
    BY <1>1, <1>2 DEF Live
<1> QED BY <1>4, <1>5, <1>6, <1>7, SeedTables DEF Gentle

LEMMA AloneOnImage ==
    ASSUME "image" \in Serial, NEW w, Reaches(w, "image")
    PROVE  \A x \in Workers : ~EditsImage(edit[x])
BY DEF Reaches, EditsImage, ImageOps, Kind

\* A step of the one request that edits images.
LEMMA OwnPhotos ==
    ASSUME PhotoInv, NEW w \in Workers, Turns(w, ImageOps), OneEach(image'),
           FreshImage(image', product', edit'[w]),
           EditsImage(edit[w]) \/ \A x \in Workers : ~EditsImage(edit[x])
    PROVE  PhotoInv'
<1>1. OneImageEdit' BY DEF PhotoInv, OneImageEdit, Turns, EditsImage
<1>2. ASSUME NEW x \in Workers PROVE FreshImage(image', product', edit'[x])
    <2>1. CASE x = w BY <2>1
    <2>2. CASE x # w
        <3>1. ~EditsImage(edit'[x]) BY <2>2 DEF Turns, PhotoInv, OneImageEdit
        <3> QED BY <3>1, NoPhotos
    <2> QED BY <2>1, <2>2
<1>3. OneEach(image)' BY DEF OneEach, Live
<1>4. \A x \in Workers : FreshImage(image, product, edit[x])'
    BY <1>2 DEF FreshImage, FreshCreate, FreshRow, Succeeded, PhotosOf, PrimariesOf, Live,
                Serves
<1> QED BY <1>1, <1>3, <1>4 DEF PhotoInv

LEMMA ReadsPhotos ==
    ASSUME CatalogInv, PhotoInv, "image" \in Serial, NEW w \in Workers,
           \/ \E p \in Products, primary \in BOOLEAN \cup {MISSING} : ImageCreate(w, p, primary)
           \/ \E i \in Images, to \in ImageUpdate : ImageUpdateRead(w, i, to)
           \/ \E i \in Images : ImageDelete(w, i)
    PROVE  PhotoInv' /\ image' = image
<1>1. /\ Requests /\ OneEach(image) /\ KeysHold
      /\ \A i \in Live(image) : image[i] # None /\ product[image[i].product] # None
    BY DEF CatalogInv, PhotoInv, KeysHold, Live
<1>2. ASSUME NEW op \in ImageOps, NEW id, NEW seen, NEW to,
             Reaches(w, "image"), Decided(w, op, id, seen, to),
             op = "image.create" =>
                 /\ product[id] # None /\ (seen \in BOOLEAN => to.is_primary = seen)
                 /\ seen \notin BOOLEAN /\ ~to.is_primary => PhotosOf(image, id) # {},
             op # "image.create" => id \in Live(image) /\ seen = image[id]
      PROVE  PhotoInv' /\ image' = image
    <2>1. /\ Turns(w, ImageOps) /\ image' = image /\ product' = product
          /\ edit'[w].pc = "decided" /\ edit'[w].op = op /\ edit'[w].id = id
          /\ edit'[w].seen = seen /\ edit'[w].to = to
        BY <1>1, <1>2, DecidedTurns
    <2>2. FreshImage(image, product, edit'[w])
        BY <1>1, <1>2, <2>1 DEF FreshImage, FreshCreate, FreshRow, Serves
    <2>3. \A x \in Workers : ~EditsImage(edit[x]) BY <1>2, AloneOnImage
    <2> QED BY <1>1, <2>1, <2>2, <2>3, OwnPhotos
<1>3. ASSUME NEW p \in Products, NEW is_primary \in BOOLEAN \cup {MISSING},
             ImageCreate(w, p, is_primary)
      PROVE  PhotoInv' /\ image' = image
    <2> PICK primary : primary = IF is_primary = MISSING THEN ImagesOf(p) = {} ELSE is_primary
        OBVIOUS
    <2> DEFINE to == [product |-> p, is_primary |-> primary]
    <2>1. /\ Reaches(w, "image") /\ p \in Live(product)
          /\ Decided(w, "image.create", p, is_primary, to)
        BY <1>3 DEF ImageCreate
    <2>2. to.is_primary = primary OBVIOUS
    <2> HIDE DEF to
    <2>3. product[p] # None BY <2>1 DEF Live
    <2>4. is_primary \in BOOLEAN => to.is_primary = is_primary
        BY <2>2, CatalogAssumption
    <2>5. is_primary \notin BOOLEAN /\ ~to.is_primary => PhotosOf(image, p) # {}
        BY <2>2 DEF ImagesOf, PhotosOf
    <2> QED BY <1>2, <2>1, <2>3, <2>4, <2>5 DEF ImageOps
<1>4. ASSUME NEW i \in Images, NEW to \in ImageUpdate, ImageUpdateRead(w, i, to)
      PROVE  PhotoInv' /\ image' = image
    <2>1. /\ Reaches(w, "image") /\ i \in Live(image)
          /\ Decided(w, "image.update", i, image[i], to)
        BY <1>4 DEF ImageUpdateRead
    <2> QED BY <1>2, <2>1 DEF ImageOps
<1>5. ASSUME NEW i \in Images, ImageDelete(w, i) PROVE PhotoInv' /\ image' = image
    <2>1. /\ Reaches(w, "image") /\ i \in Live(image)
          /\ Decided(w, "image.delete", i, image[i], None)
        BY <1>5 DEF ImageDelete
    <2> QED BY <1>2, <2>1 DEF ImageOps
<1> QED BY <1>3, <1>4, <1>5

LEMMA FlushesPhotos ==
    ASSUME CatalogInv, PhotoInv, NEW w \in Workers,
           ImageCreateFlush(w) \/ ImageUpdateFlush(w) \/ ImageDeleteFlush(w)
    PROVE  PhotoInv' /\ image' = image
<1>1. /\ Tables /\ Requests /\ RequestOK(edit[w]) /\ FreshImage(image, product, edit[w])
      /\ OneEach(image) /\ Live(image) \subseteq Images /\ None \notin Images
    BY LiveRows, CatalogAssumption DEF CatalogInv, Requests, PhotoInv
<1>2. ASSUME NEW there, NEW others, Flushed(w, there, others),
             EditsImage(edit[w]), edit[w].pc = "decided",
             there /\ edit[w].op = "image.create" =>
                 others = IF edit[w].to.is_primary THEN PrimariesOf(image, edit[w].id) ELSE {},
             there /\ edit[w].op = "image.update" =>
                 others = IF edit[w].to.is_primary = TRUE
                          THEN PrimariesOf(image, edit[w].seen.product) \ {edit[w].id} ELSE {},
             there /\ edit[w].op = "image.delete" =>
                 LET rest == PhotosOf(image, edit[w].seen.product) \ {edit[w].id} IN
                 IF edit[w].seen.is_primary /\ rest # {} THEN \E i \in rest : others = {i}
                                                         ELSE others = {}
      PROVE  PhotoInv' /\ image' = image
    <2> PICK r : r = edit'[w] OBVIOUS
    <2>1. /\ Turns(w, ImageOps) /\ image' = image /\ product' = product
          /\ IF there THEN /\ r.pc = "flushed" /\ r.others = others
                           /\ r.op = edit[w].op /\ r.id = edit[w].id
                           /\ r.seen = edit[w].seen /\ r.to = edit[w].to
                      ELSE r.pc = "idle"
        BY <1>1, <1>2, FlushedTurns DEF EditsImage
    <2>2. CASE there
        <3>1. Serves(r, "image.create") => FreshCreate(image, product, r)
            BY <1>1, <1>2, <2>1, <2>2 DEF FreshImage, FreshCreate, Serves, EditsImage
        <3>2. Serves(r, "image.update") \/ Serves(r, "image.delete") => FreshRow(image, product, r)
            BY <1>1, <1>2, <2>1, <2>2 DEF FreshImage, FreshRow, Serves, EditsImage
        <3>3. Serves(r, "image.delete") => Succeeded(image, r)
            BY <1>2, <2>1, <2>2 DEF Succeeded, Serves
        <3>4. FreshImage(image, product, r)
            BY <1>2, <2>1, <2>2, <3>1, <3>2, <3>3 DEF FreshImage, Serves
        <3> QED BY <1>1, <1>2, <2>1, <3>4, OwnPhotos
    <2>3. CASE ~there
        <3>1. FreshImage(image, product, r) BY <2>1, <2>3, NoPhotos DEF EditsImage
        <3> QED BY <1>1, <1>2, <2>1, <3>1, OwnPhotos
    <2> QED BY <2>2, <2>3
<1>3. ASSUME ImageCreateFlush(w) PROVE PhotoInv' /\ image' = image
    <2>1. OtherPrimaries(edit[w].id, None) = PrimariesOf(image, edit[w].id)
        BY <1>1 DEF OtherPrimaries, PrimariesOf, ImagesOf, PhotosOf
    <2> QED BY <1>2, <1>3, <2>1 DEF ImageCreateFlush, At, EditsImage, ImageOps
<1>4. ASSUME ImageUpdateFlush(w) PROVE PhotoInv' /\ image' = image
    <2>1. OtherPrimaries(edit[w].seen.product, edit[w].id)
              = PrimariesOf(image, edit[w].seen.product) \ {edit[w].id}
        BY DEF OtherPrimaries, PrimariesOf, ImagesOf, PhotosOf
    <2> QED BY <1>2, <1>4, <2>1 DEF ImageUpdateFlush, At, EditsImage, ImageOps
<1>5. ASSUME ImageDeleteFlush(w) PROVE PhotoInv' /\ image' = image
    <2> PICK i, seen : i = edit[w].id /\ seen = edit[w].seen OBVIOUS
    <2> DEFINE rest == PhotosOf(image, seen.product) \ {i}
    <2>1. PICK others \in Replacements(i, seen) : Flushed(w, TRUE, others)
        BY <1>5 DEF ImageDeleteFlush
    <2>2. /\ edit[w].pc = "decided" /\ edit[w].op = "image.delete"
          /\ FreshRow(image, product, edit[w])
        BY <1>1, <1>5 DEF ImageDeleteFlush, At, FreshImage, Serves
    \* No other image of the product is a primary one.
    <2>3. seen.is_primary /\ rest # {} => OtherPrimaries(seen.product, i) = {}
        <3>1. rest # {} => image[i] = seen /\ i \in Live(image)
            BY <2>2 DEF FreshRow
        <3> QED BY <1>1, <3>1 DEF OneEach, OtherPrimaries, ImagesOf, PhotosOf
    <2>4. others \in IF seen.is_primary /\ rest # {}
                     THEN {{r} \ OtherPrimaries(seen.product, i) : r \in rest} ELSE {{}}
        BY <2>1 DEF Replacements, ImagesOf, PhotosOf
    <2> HIDE DEF rest
    <2>5. IF seen.is_primary /\ rest # {} THEN \E r \in rest : others = {r} ELSE others = {}
        BY <2>3, <2>4
    <2> QED BY <1>2, <2>1, <2>2, <2>5 DEF rest, EditsImage, ImageOps
<1> QED BY <1>3, <1>4, <1>5

\* The images after a commit: one row written, and the others' marks set.
LEMMA CommitPhotos ==
    ASSUME CatalogInv, CatalogInv', NEW w \in Workers, NEW primary \in BOOLEAN, NEW written,
           ImageCommit(w, written, primary)
    PROVE  LET others == edit[w].others IN
           /\ Turns(w, ImageOps) /\ edit'[w].pc = "idle" /\ product' = product
           /\ \/ image' = image
              \/ /\ others \subseteq Live(image)
                 /\ \A i \in others : /\ image'[i] \in ImageRow
                                      /\ image'[i].product = image[i].product
                                      /\ image'[i].is_primary = primary
                 /\ \A i \in Images \ others : image'[i] = written[i]
           /\ Live(image) = {i \in Images : image[i] \in ImageRow}
           /\ Live(image') = {i \in Images : image'[i] \in ImageRow}
<1> PICK others : others = edit[w].others OBVIOUS
<1>1. /\ Tables /\ Requests /\ Live(image) = {i \in Images : image[i] \in ImageRow}
      /\ image' \in [Images -> ImageRow \cup {None, Gone}]
    BY LiveRows DEF CatalogInv, Tables
<1>2. Live(image') = {i \in Images : image'[i] \in ImageRow}
    BY <1>1, RowsAreRows DEF Live
<1>3. /\ Answer(w) /\ product' = product
      /\ image' = IF others \subseteq Live(image)
                  THEN [i \in Images |->
                          IF i \in others THEN [image[i] EXCEPT !.is_primary = primary]
                                          ELSE written[i]]
                  ELSE image
    BY DEF ImageCommit
<1>4. Turns(w, ImageOps) /\ edit'[w].pc = "idle"
    BY <1>1, <1>3, AnswerTurns, IdleOK DEF Requests, Answer
<1>5. CASE others \subseteq Live(image)
    <2>1. \A i \in Images \ others : image'[i] = written[i] BY <1>3, <1>5
    <2>2. ASSUME NEW i \in others
          PROVE  /\ image'[i] \in ImageRow /\ image'[i].product = image[i].product
                 /\ image'[i].is_primary = primary
        <3>1. image'[i] = [image[i] EXCEPT !.is_primary = primary] /\ image[i] \in ImageRow
            BY <1>1, <1>3, <1>5
        <3> QED BY <3>1 DEF ImageRow
    <2> QED BY <1>1, <1>2, <1>3, <1>4, <1>5, <2>1, <2>2
<1> QED BY <1>1, <1>2, <1>3, <1>4, <1>5

\* A commit keeps every product's primary image, or takes it as its admin asked.
CommitsWell(w) ==
    /\ OneEach(image')
    /\ \A p \in Products : Led(image, p) /\ ~Led(image', p) =>
           Unsets(w) /\ edit'[w].pc = "idle"

LEMMA InsertCommits ==
    ASSUME CatalogInv, CatalogInv', PhotoInv, NEW w \in Workers, NEW n \in Images,
           ImageInsert(w, n)
    PROVE  CommitsWell(w) /\ Turns(w, ImageOps) /\ edit'[w].pc = "idle"
<1> PICK to, others, q : to = edit[w].to /\ others = edit[w].others /\ q = edit[w].id
    OBVIOUS
<1> PICK unset \in BOOLEAN : unset = FALSE OBVIOUS
<1> DEFINE written == [image EXCEPT ![n] = to]
<1>1. /\ Tables /\ RequestOK(edit[w]) /\ Held(edit[w]) /\ OneEach(image)
      /\ FreshImage(image, product, edit[w]) /\ DOMAIN image = Images
    BY LiveRows DEF CatalogInv, Requests, Locks, PhotoInv
<1>2. /\ edit[w].pc = "flushed" /\ edit[w].op = "image.create"
      /\ image[n] = None
      /\ ImageCommit(w, written, unset)
    BY DEF ImageInsert, At, Unused
<1>a. written[n] = to /\ \A i \in Images : i # n => written[i] = image[i]
    BY <1>1
<1> HIDE DEF written
<1>3. /\ to \in ImageRow /\ to.product = q /\ to.is_primary \in BOOLEAN
      /\ q \in Live(product) /\ FreshCreate(image, product, edit[w])
    BY <1>1, <1>2 DEF RequestOK, Serves, Held, FreshImage, ImageRow
<1>4. others = IF to.is_primary THEN PrimariesOf(image, q) ELSE {}
    BY <1>2, <1>3 DEF FreshCreate
<1>5. /\ Turns(w, ImageOps) /\ edit'[w].pc = "idle"
      /\ \/ image' = image
         \/ /\ \A i \in others : /\ image'[i].product = image[i].product
                                 /\ image'[i].is_primary = unset
            /\ \A i \in Images \ others : image'[i] = written[i]
      /\ Live(image) = {i \in Images : image[i] \in ImageRow}
      /\ Live(image') = {i \in Images : image'[i] \in ImageRow}
    BY <1>2, CommitPhotos
<1>6. CASE image' = image BY <1>1, <1>5, <1>6 DEF CommitsWell
<1>7. CASE image' # image
    <2>1. n \notin Live(image) /\ n \notin others
        BY <1>2, <1>4 DEF Live, PrimariesOf, PhotosOf
    <2>2. /\ image'[n] = to
          /\ \A i \in others : /\ i \in PhotosOf(image, q) /\ image'[i].product = q
                               /\ image'[i].is_primary = unset
          /\ \A i \in Images \ others : i # n => image'[i] = image[i]
        <3>1. others \subseteq PhotosOf(image, q) BY <1>4 DEF PrimariesOf
        <3>2. \A i \in others : image[i].product = q BY <3>1 DEF PhotosOf
        <3> QED BY <1>a, <1>5, <1>7, <2>1, <3>1, <3>2
    <2>3. \A i \in Live(image') : i = n \/ i \in Live(image)
        BY <1>5, <2>2 DEF PhotosOf
    <2>4. OneEach(image')
        <3> SUFFICES ASSUME NEW i \in Live(image'), NEW j \in Live(image'),
                            image'[i].product = image'[j].product,
                            image'[i].is_primary, image'[j].is_primary
                     PROVE  i = j
            BY DEF OneEach
        <3>1. i \notin others /\ j \notin others BY <2>2
        <3>2. (i # n => i \in Live(image) /\ image'[i] = image[i])
              /\ (j # n => j \in Live(image) /\ image'[j] = image[j])
            BY <1>5, <2>2, <2>3, <3>1
        <3>3. CASE i # n /\ j # n
            BY <3>2, <3>3, <1>1 DEF OneEach
        \* The new one is a primary one: the others of its product are not any more.
        <3>4. \A k \in Live(image) : to.is_primary /\ image[k].is_primary
                                     /\ image[k].product = q => k \in others
            BY <1>4 DEF PrimariesOf, PhotosOf
        <3> QED BY <3>1, <3>2, <3>3, <3>4, <2>2, <1>3
    <2>5. ASSUME NEW p \in Products, Led(image, p), ~Led(image', p)
          PROVE  Unsets(w)
        <3>1. p = q
            <4> SUFFICES ASSUME p # q PROVE FALSE
                OBVIOUS
            <4>1. PhotosOf(image', p) = PhotosOf(image, p)
                BY <1>3, <1>5, <2>1, <2>2, <2>3 DEF PhotosOf
            <4>2. \A i \in PhotosOf(image, p) : image'[i] = image[i]
                BY <1>5, <2>1, <2>2 DEF PhotosOf
            <4> QED BY <2>5, <4>1, <4>2 DEF Led
        <3>2. n \in PhotosOf(image', q) BY <1>3, <1>5, <2>2 DEF PhotosOf
        <3>3. ~to.is_primary BY <2>5, <2>2, <3>1, <3>2 DEF Led
        <3>4. others = {} BY <1>4, <3>3
        <3>5. \A i \in PhotosOf(image, q) : i \in PhotosOf(image', q) /\ image'[i] = image[i]
            BY <1>5, <2>1, <2>2, <3>4 DEF PhotosOf
        <3>6. PhotosOf(image, q) = {} BY <2>5, <3>1, <3>5 DEF Led
        <3>7. edit[w].seen \in BOOLEAN /\ to.is_primary = edit[w].seen
            BY <1>3, <3>3, <3>6 DEF FreshCreate
        <3>8. edit[w].seen = FALSE BY <3>3, <3>7
        <3> QED BY <1>2, <3>8 DEF Unsets
    <2> QED BY <1>5, <2>4, <2>5 DEF CommitsWell
<1> QED BY <1>5, <1>6, <1>7

\* A step that changes the images of one product leaves the others' as they were.
LEMMA OthersLed ==
    ASSUME NEW q, NEW p, p # q, Led(image, p),
           \A i \in Live(image) : image[i].product = p =>
               i \in Live(image') /\ image'[i] = image[i],
           \A i \in Live(image') : image'[i].product = p =>
               i \in Live(image) /\ image'[i] = image[i]
    PROVE  Led(image', p)
<1>1. PhotosOf(image', p) = PhotosOf(image, p) BY DEF PhotosOf
<1>2. \A i \in PhotosOf(image, p) : image'[i] = image[i] BY DEF PhotosOf
<1> QED BY <1>1, <1>2 DEF Led

LEMMA WriteCommits ==
    ASSUME CatalogInv, CatalogInv', PhotoInv, NEW w \in Workers, ImageWrite(w)
    PROVE  CommitsWell(w) /\ Turns(w, ImageOps) /\ edit'[w].pc = "idle"
<1> PICK n, seen, others, q, primary :
        /\ n = edit[w].id /\ seen = edit[w].seen /\ others = edit[w].others
        /\ q = seen.product /\ primary = edit[w].to.is_primary
    OBVIOUS
<1> PICK unset \in BOOLEAN : unset = FALSE OBVIOUS
<1> DEFINE row == Applied(image[n], seen, [is_primary |-> primary])
           written == [image EXCEPT ![n] = row]
<1>1. /\ Tables /\ RequestOK(edit[w]) /\ Held(edit[w]) /\ OneEach(image)
      /\ FreshImage(image, product, edit[w]) /\ DOMAIN image = Images
      /\ Live(image) = {i \in Images : image[i] \in ImageRow}
    BY LiveRows DEF CatalogInv, Requests, Locks, PhotoInv
<1>2. /\ edit[w].pc = "flushed" /\ edit[w].op = "image.update"
      /\ ImageCommit(w, written, unset)
    BY DEF ImageWrite, At
<1>3. /\ n \in Live(image) /\ n \in Images /\ seen \in ImageRow
      /\ primary \in BOOLEAN \cup {MISSING} /\ FreshRow(image, product, edit[w])
      /\ others = IF primary = TRUE THEN PrimariesOf(image, q) \ {n} ELSE {}
    BY <1>1, <1>2 DEF RequestOK, Serves, Held, FreshImage, ImageUpdate
<1>4. image[n] = seen /\ n \in PhotosOf(image, q) BY <1>3 DEF FreshRow, PhotosOf
<1>5. /\ row \in ImageRow /\ row.product = q
      /\ row.is_primary = IF primary # MISSING /\ primary # seen.is_primary
                          THEN primary ELSE seen.is_primary
    BY <1>3, <1>4, AppliedImage
<1>6. written[n] = row /\ \A i \in Images : i # n => written[i] = image[i]
    BY <1>1, <1>3
<1> HIDE DEF row, written
<1>7. /\ Turns(w, ImageOps) /\ edit'[w].pc = "idle"
      /\ \/ image' = image
         \/ /\ \A i \in others : /\ image'[i] \in ImageRow
                                 /\ image'[i].product = image[i].product
                                 /\ image'[i].is_primary = unset
            /\ \A i \in Images \ others : image'[i] = written[i]
      /\ Live(image') = {i \in Images : image'[i] \in ImageRow}
    BY <1>2, CommitPhotos
<1>8. CASE image' = image BY <1>1, <1>7, <1>8 DEF CommitsWell
<1>9. CASE image' # image
    <2>1. others \subseteq PhotosOf(image, q) \ {n} BY <1>3 DEF PrimariesOf
    <2>2. /\ image'[n] = row
          /\ \A i \in others : image'[i].product = q /\ ~image'[i].is_primary
          /\ \A i \in Images \ others : i # n => image'[i] = image[i]
        <3>1. \A i \in others : image[i].product = q BY <2>1 DEF PhotosOf
        <3> QED BY <1>3, <1>6, <1>7, <1>9, <2>1, <3>1
    <2>3. \A i : i \in Live(image') <=> i \in Live(image)
        BY <1>1, <1>3, <1>5, <1>7, <1>9, <2>1, <2>2 DEF PhotosOf
    <2>4. \A i \in Live(image) : i # n /\ i \notin others => image'[i] = image[i]
        BY <1>1, <2>2
    <2>5. /\ primary = TRUE => row.is_primary
          /\ primary = MISSING => row.is_primary = seen.is_primary
          /\ primary = FALSE => ~row.is_primary
        BY <1>3, <1>5, CatalogAssumption
    <2>6. primary = TRUE \/ primary = FALSE \/ primary = MISSING BY <1>3
    <2>7. primary # TRUE => others = {} BY <1>3
    <2>8. MISSING # TRUE /\ MISSING # FALSE BY CatalogAssumption
    <2>9. OneEach(image')
        <3> SUFFICES ASSUME NEW i \in Live(image'), NEW j \in Live(image'),
                            image'[i].product = image'[j].product,
                            image'[i].is_primary, image'[j].is_primary
                     PROVE  i = j
            BY DEF OneEach
        <3>1. i \notin others /\ j \notin others BY <2>2
        <3>2. /\ i \in Live(image) /\ (i # n => image'[i] = image[i])
              /\ j \in Live(image) /\ (j # n => image'[j] = image[j])
            BY <2>3, <2>4, <3>1
        <3>3. CASE i # n /\ j # n
            BY <3>2, <3>3, <1>1 DEF OneEach
        \* The image edited and another one: it was set, and the other unset with it,
        \* or it was the primary one before.
        <3>4. \A k \in Live(image) :
                  ~(k # n /\ k \notin others /\ row.is_primary /\ image[k].is_primary
                    /\ image[k].product = q)
            <4> SUFFICES ASSUME NEW k \in Live(image), k # n, k \notin others, row.is_primary,
                                image[k].is_primary, image[k].product = q
                         PROVE  FALSE
                OBVIOUS
            <4>1. CASE primary = TRUE
                BY <4>1, <1>3 DEF PrimariesOf, PhotosOf
            <4>2. CASE primary = MISSING
                <5>1. image[n].is_primary BY <4>2, <2>5, <1>4
                <5> QED BY <5>1, <1>1, <1>3, <1>4 DEF OneEach
            <4> QED BY <4>1, <4>2, <2>5, <2>6
        <3> QED BY <3>1, <3>2, <3>3, <3>4, <2>2, <1>5
    <2>10. ASSUME NEW p \in Products, Led(image, p), ~Led(image', p)
           PROVE  Unsets(w)
        <3>1. p = q
            <4> SUFFICES ASSUME p # q PROVE FALSE
                OBVIOUS
            <4>1. \A i \in Live(image) : image[i].product = p => image'[i] = image[i]
                BY <1>4, <2>1, <2>4 DEF PhotosOf
            <4>2. \A i \in Live(image') : image'[i].product = p => image'[i] = image[i]
                BY <1>5, <2>2, <2>3, <2>4
            <4> QED BY <2>3, <2>10, <4>1, <4>2, OthersLed
        <3>2. n \in PhotosOf(image', q) BY <1>3, <1>5, <2>2, <2>3 DEF PhotosOf
        <3>3. primary # TRUE BY <2>2, <2>5, <2>10, <3>1, <3>2 DEF Led
        <3>4. primary # MISSING
            <4> SUFFICES ASSUME primary = MISSING PROVE FALSE
                OBVIOUS
            <4>1. others = {} BY <2>7, <3>3
            <4>2. image'[n].is_primary = image[n].is_primary
                BY <2>2, <2>5, <1>4
            <4>3. \A i \in PhotosOf(image, q) : /\ i \in PhotosOf(image', q)
                                                /\ image'[i].is_primary = image[i].is_primary
                BY <4>1, <4>2, <2>3, <2>4, <3>2 DEF PhotosOf
            <4> QED BY <4>3, <1>4, <2>10, <3>1 DEF Led
        <3>5. edit[w].to.is_primary = FALSE BY <2>6, <3>3, <3>4
        <3> QED BY <1>2, <3>5 DEF Unsets
    <2> QED BY <1>7, <2>9, <2>10 DEF CommitsWell
<1> QED BY <1>7, <1>8, <1>9

LEMMA RemoveCommits ==
    ASSUME CatalogInv, CatalogInv', PhotoInv, NEW w \in Workers, ImageRemove(w)
    PROVE  CommitsWell(w) /\ Turns(w, ImageOps) /\ edit'[w].pc = "idle"
<1> PICK n, seen, others, q :
        /\ n = edit[w].id /\ seen = edit[w].seen /\ others = edit[w].others
        /\ q = seen.product
    OBVIOUS
<1> PICK set \in BOOLEAN : set = TRUE OBVIOUS
<1> DEFINE written == [image EXCEPT ![n] = Gone]
           rest == PhotosOf(image, q) \ {n}
<1>1. /\ Tables /\ RequestOK(edit[w]) /\ OneEach(image)
      /\ FreshImage(image, product, edit[w]) /\ DOMAIN image = Images
      /\ Live(image) = {i \in Images : image[i] \in ImageRow}
    BY LiveRows DEF CatalogInv, Requests, PhotoInv
<1>2. /\ edit[w].pc = "flushed" /\ edit[w].op = "image.delete"
      /\ ImageCommit(w, written, set)
    BY DEF ImageRemove, At
<1>3. /\ n \in Images /\ FreshRow(image, product, edit[w])
      /\ IF seen.is_primary /\ rest # {} THEN \E i \in rest : others = {i} ELSE others = {}
    BY <1>1, <1>2 DEF RequestOK, Serves, FreshImage, Succeeded
<1>4. rest # {} => n \in Live(image) /\ image[n] = seen
    BY <1>3 DEF FreshRow
<1>5. written[n] = Gone /\ \A i \in Images : i # n => written[i] = image[i]
    BY <1>1, <1>3
<1> HIDE DEF written
<1>6. others \subseteq rest BY <1>3
<1>7. /\ Turns(w, ImageOps) /\ edit'[w].pc = "idle"
      /\ \/ image' = image
         \/ /\ \A i \in others : /\ image'[i] \in ImageRow
                                 /\ image'[i].product = image[i].product
                                 /\ image'[i].is_primary = set
            /\ \A i \in Images \ others : image'[i] = written[i]
      /\ Live(image') = {i \in Images : image'[i] \in ImageRow}
    <2>1. ASSUME NEW mark \in BOOLEAN, ImageCommit(w, written, mark)
          PROVE  /\ Turns(w, ImageOps) /\ edit'[w].pc = "idle"
                 /\ \/ image' = image
                    \/ /\ \A i \in others : /\ image'[i] \in ImageRow
                                            /\ image'[i].product = image[i].product
                                            /\ image'[i].is_primary = mark
                       /\ \A i \in Images \ others : image'[i] = written[i]
                 /\ Live(image') = {i \in Images : image'[i] \in ImageRow}
        BY <2>1, CommitPhotos
    <2> QED BY <1>2, <2>1
<1>8. CASE image' = image BY <1>1, <1>7, <1>8 DEF CommitsWell
<1>9. CASE image' # image
    <2>1. /\ image'[n] = Gone
          /\ \A i \in others : /\ image'[i] \in ImageRow /\ image'[i].product = q
                               /\ image'[i].is_primary
          /\ \A i \in Images \ others : i # n => image'[i] = image[i]
        <3>1. \A i \in others : image[i].product = q BY <1>6 DEF PhotosOf
        <3> QED BY <1>3, <1>5, <1>6, <1>7, <1>9, <3>1
    <2>2. \A i : i \in Live(image') <=> i \in Live(image) /\ i # n
        BY <1>1, <1>6, <1>7, <2>1, RowsAreRows DEF PhotosOf
    <2>3. \A i \in Live(image') : i \notin others => image'[i] = image[i]
        BY <1>1, <2>1, <2>2
    \* A successor is appointed in the place of the only primary image.
    <2>4. \A i \in Live(image') : i \notin others /\ image'[i].product = q
                                  /\ image'[i].is_primary => others = {}
        <3> SUFFICES ASSUME NEW i \in Live(image'), i \notin others, image'[i].product = q,
                            image'[i].is_primary, others # {}
                     PROVE  FALSE
            OBVIOUS
        <3>1. i \in Live(image) /\ i # n /\ image'[i] = image[i] BY <2>2, <2>3
        <3>2. n \in Live(image) /\ image[n] = seen /\ seen.is_primary BY <1>3, <1>4
        <3>3. /\ image[i].product = image[n].product
              /\ image[i].is_primary /\ image[n].is_primary
            BY <3>1, <3>2
        <3> QED BY <1>1, <3>1, <3>2, <3>3 DEF OneEach
    <2>5. OneEach(image')
        <3> SUFFICES ASSUME NEW i \in Live(image'), NEW j \in Live(image'),
                            image'[i].product = image'[j].product,
                            image'[i].is_primary, image'[j].is_primary
                     PROVE  i = j
            BY DEF OneEach
        <3>1. CASE i \in others /\ j \in others
            BY <1>3, <3>1
        <3>2. CASE i \notin others /\ j \notin others
            BY <1>1, <2>2, <2>3, <3>2 DEF OneEach
        <3> QED BY <2>1, <2>4, <3>1, <3>2
    <2>6. ASSUME NEW p \in Products, Led(image, p) PROVE Led(image', p)
        <3>1. CASE p # q
            <4>1. \A i \in Live(image) : image[i].product = p =>
                      i \in Live(image') /\ image'[i] = image[i]
                <5> SUFFICES ASSUME NEW i \in Live(image), image[i].product = p
                             PROVE  i \in Live(image') /\ image'[i] = image[i]
                    OBVIOUS
                <5>1. i \notin others BY <1>6, <3>1 DEF PhotosOf
                <5>2. i # n
                    BY <1>3, <3>1 DEF FreshRow
                <5> QED BY <2>2, <2>3, <5>1, <5>2
            <4>2. \A i \in Live(image') : image'[i].product = p =>
                      i \in Live(image) /\ image'[i] = image[i]
                BY <2>1, <2>2, <2>3, <3>1
            <4> QED BY <2>6, <3>1, <4>1, <4>2, OthersLed
        <3>2. CASE p = q /\ rest = {}
            <4>1. PhotosOf(image', q) = {}
                BY <1>6, <2>2, <2>3, <3>2 DEF PhotosOf
            <4> QED BY <3>2, <4>1 DEF Led
        <3>3. CASE p = q /\ rest # {} /\ seen.is_primary
            <4>1. PICK i \in rest : others = {i} BY <1>3, <3>3
            <4>2. i \in PhotosOf(image', q) /\ image'[i].is_primary
                BY <2>1, <2>2, <4>1 DEF PhotosOf
            <4> QED BY <3>3, <4>2 DEF Led
        <3>4. CASE p = q /\ rest # {} /\ ~seen.is_primary
            <4>1. others = {} BY <1>3, <3>4
            <4>2. PICK i \in PhotosOf(image, q) : image[i].is_primary
                BY <2>6, <3>4 DEF Led
            <4>3. i # n BY <1>4, <3>4, <4>2
            <4>4. i \in PhotosOf(image', q) /\ image'[i] = image[i]
                BY <2>2, <2>3, <4>1, <4>2, <4>3 DEF PhotosOf
            <4> QED BY <3>4, <4>2, <4>4 DEF Led
        <3> QED BY <3>1, <3>2, <3>3, <3>4
    <2> QED BY <1>7, <2>5, <2>6 DEF CommitsWell
<1> QED BY <1>7, <1>8, <1>9

LEMMA CommitsKeep ==
    ASSUME PhotoInv, NEW w \in Workers, EditsImage(edit[w]), CommitsWell(w),
           Turns(w, ImageOps), edit'[w].pc = "idle"
    PROVE  PhotoInv'
<1>1. ~EditsImage(edit'[w]) BY DEF EditsImage
<1>2. FreshImage(image', product', edit'[w]) BY <1>1, NoPhotos
<1> QED BY <1>2, OwnPhotos DEF CommitsWell

\* Every step keeps the invariant, and the leaders but for an admin's wish.
LEMMA NextPhotoInv ==
    ASSUME "image" \in Serial, CatalogInv, CatalogInv', PhotoInv, [CatalogNext]_catalogVars
    PROVE  /\ PhotoInv'
           /\ \A p \in Products : Led(image, p) /\ ~Led(image', p) =>
                 \E w \in Workers : Unsets(w) /\ edit'[w].pc = "idle"
<1> DEFINE kept == \A p \in Products : Led(image, p) /\ ~Led(image', p) =>
                       \E w \in Workers : Unsets(w) /\ edit'[w].pc = "idle"
<1>1. Requests BY DEF CatalogInv
<1>2. ASSUME UNCHANGED catalogVars PROVE PhotoInv' /\ kept
    <2>1. OneImageEdit' /\ OneEach(image)'
        BY <1>2 DEF catalogVars, PhotoInv, OneImageEdit, EditsImage, OneEach, Live
    <2>2. \A w \in Workers : FreshImage(image, product, edit[w])'
        <3>1. \A w \in Workers : FreshImage(image', product', edit'[w])
            BY <1>2 DEF catalogVars, PhotoInv
        <3> QED BY <3>1 DEF FreshImage, FreshCreate, FreshRow, Succeeded, PhotosOf,
                            PrimariesOf, Live, Serves
    <2>3. kept BY <1>2 DEF catalogVars
    <2> QED BY <2>1, <2>2, <2>3 DEF PhotoInv
<1>3. ASSUME NEW w \in Workers, NEW handlers, handlers \cap ImageOps = {},
             Turns(w, handlers), Gentle
      PROVE  PhotoInv' /\ kept
    BY <1>3, OthersPhotos
<1>4. ASSUME NEW w \in Workers,
             CategoryStep(w) \/ VariantStep(w) \/ SeedStart(w) \/ SeedOrders(w) \/ Crash(w)
      PROVE  PhotoInv' /\ kept
    <2> DEFINE handlers == CategoryOps \cup VariantOps \cup SeedOps
    <2>1. Turns(w, handlers) /\ product' = product /\ image' = image
        BY <1>1, <1>4, CategoryTurns, VariantTurns, SeedTurns DEF Turns
    <2>2. handlers \cap ImageOps = {}
        BY DEF CategoryOps, VariantOps, SeedOps, ImageOps
    <2>3. Gentle BY <2>1, SamePhotos DEF Live
    <2> HIDE DEF handlers
    <2> QED BY <1>3, <2>1, <2>2, <2>3
<1>5. ASSUME NEW w \in Workers, ProductStep(w) PROVE PhotoInv' /\ kept
    <2>1. CASE ProductRemove(w)
        <3>1. Gentle /\ Turns(w, {}) BY <2>1, RemovePhotos
        <3> QED BY <1>3, <3>1
    <2>2. CASE ~ProductRemove(w)
        <3> DEFINE handlers == ProductOps \cup {"product.delete"}
        <3>1. handlers \cap ImageOps = {} BY DEF ProductOps, ImageOps
        <3>2. Gentle /\ Turns(w, handlers) BY <1>5, <2>2, ProductTurns
        <3> HIDE DEF handlers
        <3> QED BY <1>3, <3>1, <3>2
    <2> QED BY <2>1, <2>2
<1>6. ASSUME NEW w \in Workers, SeedReset(w) PROVE PhotoInv' /\ kept
    <2>1. Gentle /\ Turns(w, {}) BY <1>6, ResetPhotos
    <2> QED BY <1>3, <2>1
<1>7. ASSUME NEW w \in Workers, SeedInsert(w) PROVE PhotoInv' /\ kept
    <2>1. SeedOps \cap ImageOps = {} BY DEF SeedOps, ImageOps
    <2>2. Gentle /\ Turns(w, SeedOps) BY <1>7, InsertPhotos
    <2> QED BY <1>3, <2>1, <2>2
<1>8. ASSUME NEW w \in Workers, ImageStep(w) PROVE PhotoInv' /\ kept
    <2>1. CASE \/ \E p \in Products, primary \in BOOLEAN \cup {MISSING} :
                     ImageCreate(w, p, primary)
               \/ \E i \in Images, to \in ImageUpdate : ImageUpdateRead(w, i, to)
               \/ \E i \in Images : ImageDelete(w, i)
        BY <2>1, ReadsPhotos DEF Led
    <2>2. CASE ImageCreateFlush(w) \/ ImageUpdateFlush(w) \/ ImageDeleteFlush(w)
        BY <2>2, FlushesPhotos DEF Led
    <2>3. CASE (\E n \in Images : ImageInsert(w, n)) \/ ImageWrite(w) \/ ImageRemove(w)
        <3>1. CommitsWell(w) /\ Turns(w, ImageOps) /\ edit'[w].pc = "idle"
            BY <2>3, InsertCommits, WriteCommits, RemoveCommits
        <3>2. EditsImage(edit[w])
            BY <2>3 DEF ImageInsert, ImageWrite, ImageRemove, At, EditsImage, ImageOps
        <3> QED BY <3>1, <3>2, CommitsKeep DEF CommitsWell
    <2> QED BY <1>8, <2>1, <2>2, <2>3 DEF ImageStep
<1> QED BY <1>2, <1>4, <1>5, <1>6, <1>7, <1>8 DEF CatalogNext, SeedStep

\* Where the images are edited one at a time, no product ever has two primary ones,
\* whatever the requests had read when they were flushed (_clear_other_primaries).
THEOREM OnePrimaryEach ==
    ASSUME "image" \in Serial
    PROVE  CatalogSpec => []OnePrimary
<1>1. PhotoInv => OnePrimary
    BY DEF PhotoInv, OneEach, OnePrimary
<1>2. CatalogInv /\ PhotoInv /\ [CatalogNext]_catalogVars => CatalogInv' /\ PhotoInv'
    BY NextCatalogInv, NextPhotoInv
<1> QED BY <1>1, <1>2, InitCatalogInv, InitPhotoInv, PTL DEF CatalogSpec

\* Where the images are edited one at a time, a product that has photographs comes to
\* have no primary one only by an admin's request for that (add_image, update_image,
\* delete_image): not by deletions, nor by loading the development data.
THEOREM PrimaryIsKept ==
    ASSUME "image" \in Serial
    PROVE  CatalogSpec => PrimaryKept
<1>1. CatalogInv /\ PhotoInv /\ [CatalogNext]_catalogVars => CatalogInv' /\ PhotoInv'
    BY NextCatalogInv, NextPhotoInv
<1>2. CatalogInv /\ PhotoInv /\ [CatalogNext]_catalogVars =>
          [\A p \in Products : ~Leaderless(p) /\ Leaderless(p)' =>
              \E w \in Workers : Unsets(w) /\ edit'[w].pc = "idle"]_catalogVars
    <2> SUFFICES ASSUME CatalogInv, PhotoInv, [CatalogNext]_catalogVars
                 PROVE  \A p \in Products : ~Leaderless(p) /\ Leaderless(p)' =>
                            \E w \in Workers : Unsets(w) /\ edit'[w].pc = "idle"
        OBVIOUS
    <2>1. \A p : (Leaderless(p) <=> ~Led(image, p)) /\ (Leaderless(p)' <=> ~Led(image', p))
        BY DEF Leaderless, Led, ImagesOf, PhotosOf, Live
    <2>2. \A p \in Products : Led(image, p) /\ ~Led(image', p) =>
              \E w \in Workers : Unsets(w) /\ edit'[w].pc = "idle"
        BY NextCatalogInv, NextPhotoInv
    <2> QED BY <2>1, <2>2
<1> QED BY <1>1, <1>2, InitCatalogInv, InitPhotoInv, PTL DEF CatalogSpec, PrimaryKept
=============================================================================
