--------------------------- MODULE MCPurchaseSync ---------------------------
(* A small instance of PurchaseSync for TLC. *)
EXTENDS PurchaseSync, TLC

CONSTANTS c1, c2, p1

Symmetry == Permutations(Clients)

\* A job for one day, and one for the days around it.
SomeWindows == {[from |-> 2, to |-> 2], [from |-> 1, to |-> 3]}
=============================================================================
