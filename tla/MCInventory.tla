---------------------------- MODULE MCInventory ----------------------------
(***************************************************************************)
(* Instances of Inventory for TLC.                                         *)
(***************************************************************************)
EXTENDS Inventory, TLC

\* Every variant belongs to the one product.
OneProduct == [v \in Variants |-> CHOOSE p \in Products : TRUE]

\* Nothing tells two orders, two workers or two variants apart.
Symmetry == Permutations(Orders) \cup Permutations(Workers) \cup Permutations(Variants)
=============================================================================
