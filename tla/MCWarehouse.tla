---------------------------- MODULE MCWarehouse -----------------------------
(* Small instances of Warehouse for TLC. *)
EXTENDS Warehouse, TLC

CONSTANTS d1, d2, d3, a, l1, l2, l3, c1, c2

Symmetry == Permutations(Docs) \union Permutations(Layers) \union Permutations(Clients)

Of(qty) == [item |-> a, qty |-> qty]
\* A line for any kind, and a correction downwards whose second line meets
\* what the first one left and needs two layers.
FewLines == {<<Of(2)>>, <<Of(-1), Of(-2)>>}
OneLine == {<<Of(1)>>}
=============================================================================
