----------------------------- MODULE MCCatalog -----------------------------
(***************************************************************************)
(* The catalog at a size TLC can check.  A behaviour has one load; each of *)
(* the loads brings together the requests that touch the same tables.      *)
(***************************************************************************)
EXTENDS Catalog, TLC

MCLoads == {
    {"product", "price", "purge"},
    {"category", "product", "move", "slug", "publish"},
    {"variant", "order", "purge"},
    {"image", "purge"},
    {"seed", "category", "purge", "order"}}

\* What a shop needs to sell a variant and to delete another.
MCShelf == {{"variant", "order"}}

\* Ids and options have no order; slugs and prices have.
MCSymmetry ==
    Permutations(Workers) \cup Permutations(Categories) \cup Permutations(Products)
    \cup Permutations(Variants) \cup Permutations(Options)

\* Every request has been served; the ids may be used up.
Quiet == (\A w \in Workers : edit[w].pc = "idle") /\ UNCHANGED catalogVars

Admins == CatalogInit /\ [][CatalogNext \/ Quiet]_catalogVars
=============================================================================
