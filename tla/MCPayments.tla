----------------------------- MODULE MCPayments -----------------------------
(* Small instances of Payments for TLC. *)
EXTENDS Payments, TLC

CONSTANTS i1, i2, b1, b2, k1, k2, a1, a2, a3, c1, c2

Symmetry == Permutations(Allocations) \union Permutations(Clients)

CashEntries == i1 :> k1 @@ i2 :> k2
CashEntryOfOne == i1 :> k1
TwoLines == b1 :> 2 @@ b2 :> 1
NoLine == [b \in {} |-> 0]
\* The line names the first invoice; the second is similar at best.
Clues == [b \in Entries |-> [i \in Invoices |-> IF i = i1 /\ b = b1 THEN 50 ELSE 20]]
=============================================================================
