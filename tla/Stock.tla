------------------------------- MODULE Stock -------------------------------
(***************************************************************************)
(* The stock of a product in a warehouse, and the log of its movements     *)
(* (the older of the two stores of the warehouse; module Warehouse has the *)
(* documents and FIFO layers).  POST /stock/movement is one READ COMMITTED *)
(* transaction: it loads the row of the stock, or inserts it with nothing  *)
(* on it; takes the lock FOR UPDATE; and writes quantity and log entry.    *)
(* The locked SELECT finds the row already in the session and leaves its   *)
(* attributes as they were loaded before the lock: the quantity a movement *)
(* is applied to is that of the first SELECT.                              *)
(*                                                                         *)
(* An invoice moves no stock: create_invoice hands handle_invoice_created  *)
(* the items that have a product_id, and InvoiceItem has no such field.    *)
(* Left out: products and warehouses that do not exist (404), and lists.   *)
(*                                                                         *)
(* A definition X_... is X with a plausible bug; no specification uses it. *)
(***************************************************************************)
EXTENDS Integers

CONSTANTS
  Products,      \* (product, warehouse) pairs
  Clerks,        \* concurrent requests
  Quantities,    \* of a movement; always positive
  NoStock, NoProduct,
  MaxMovements   \* bound

MovementType == {"PURCHASE", "SALE", "ADJUSTMENT", "TRANSFER"}

ASSUME StockAssumption ==
  /\ Quantities \subseteq Nat \ {0}
  /\ NoStock \notin Int /\ NoProduct \notin Products
  /\ MaxMovements \in Nat

VARIABLES
  quantity,   \* committed rows of stock
  logged,     \* sum of the signed quantities of a product's committed movements
  movement,   \* the movement a clerk is in the middle of
  overlapped, \* products that two movements worked on at once
  movements   \* so far
stockVars == <<quantity, logged, movement, overlapped, movements>>

NoMovement == [step |-> "idle", product |-> NoProduct, read |-> 0, new |-> FALSE]

StockTypeOK ==
  /\ quantity \in [Products -> Int \union {NoStock}]
  /\ logged \in [Products -> Int]
  /\ movement \in [Clerks ->
       [step: {"idle", "loaded", "locked"}, product: Products \union {NoProduct},
        read: Int, new: BOOLEAN]]
  /\ overlapped \subseteq Products
  /\ movements \in Nat

StockInit ==
  /\ quantity = [p \in Products |-> NoStock]
  /\ logged = [p \in Products |-> 0]
  /\ movement = [c \in Clerks |-> NoMovement]
  /\ overlapped = {}
  /\ movements = 0

OnHand(p) == IF quantity[p] = NoStock THEN 0 ELSE quantity[p]

\* An uncommitted INSERT of the row, or a FOR UPDATE lock of it.
StockLocked(p) ==
  \E c \in Clerks :
    movement[c].product = p /\ (movement[c].new \/ movement[c].step = "locked")

\* get_or_create_stock.  The INSERT waits for another one of the same row; if
\* that commits, it fails, and so does the request: nothing is left.
LoadStock(c, p) ==
  /\ movement[c].step = "idle"
  /\ movements < MaxMovements
  /\ quantity[p] = NoStock => ~StockLocked(p)
  /\ movement' = [movement EXCEPT ![c] =
       [step |-> "loaded", product |-> p, read |-> OnHand(p), new |-> quantity[p] = NoStock]]
  /\ overlapped' = overlapped \union
       {q \in {p} : \E d \in Clerks \ {c} : movement[d].product = p}
  /\ movements' = movements + 1
  /\ UNCHANGED <<quantity, logged>>

\* lock_stock_for_update; it returns the row as it was loaded.
LockStock(c) ==
  LET p == movement[c].product IN
  /\ movement[c].step = "loaded"
  /\ StockLocked(p) => movement[c].new
  /\ movement' = [movement EXCEPT ![c].step = "locked"]
  /\ UNCHANGED <<quantity, logged, overlapped, movements>>

\* What a line of the log stands for.
Signed(type, q) == IF type = "SALE" THEN -q ELSE q

\* Stock.apply_movement.
Applied_AdjustmentSets(read, type, q) ==
  IF type = "ADJUSTMENT" THEN q ELSE read + Signed(type, q)
Applied(read, type, q) == read + Signed(type, q)

\* Only SALE and TRANSFER look at the result.
Allowed(type, result) == type \in {"SALE", "TRANSFER"} => result >= 0

\* save_stock writes the quantity of the object, whatever the row has by now; a
\* line of the log is only ever added.
SaveStock(p, result) == quantity' = [quantity EXCEPT ![p] = result]
LogMovement(p, type, q) == logged' = [logged EXCEPT ![p] = @ + Signed(type, q)]

\* create_movement, from the lock to the commit.
ApplyMovement(c, type, q) ==
  LET p == movement[c].product
      result == Applied(movement[c].read, type, q) IN
  /\ movement[c].step = "locked"
  /\ Allowed(type, result)
  /\ SaveStock(p, result)
  /\ LogMovement(p, type, q)
  /\ movement' = [movement EXCEPT ![c] = NoMovement]
  /\ UNCHANGED <<overlapped, movements>>

\* A refused movement, an error, or the end of the process.
RollbackMovement(c) ==
  /\ movement[c].step # "idle"
  /\ movement' = [movement EXCEPT ![c] = NoMovement]
  /\ UNCHANGED <<quantity, logged, overlapped, movements>>

StockNext ==
  \/ \E c \in Clerks, p \in Products : LoadStock(c, p)
  \/ \E c \in Clerks : LockStock(c) \/ RollbackMovement(c)
  \/ \E c \in Clerks, type \in MovementType, q \in Quantities : ApplyMovement(c, type, q)

StockSpec == StockInit /\ [][StockNext]_stockVars

-----------------------------------------------------------------------------
\* One that is alone with a product has the quantity as it is.
AloneReadsTheRow ==
  \A c \in Clerks :
    LET p == movement[c].product IN
    /\ (movement[c].step = "idle") = (p = NoProduct)
    /\ p # NoProduct /\ p \notin overlapped =>
         /\ movement[c].read = OnHand(p)
         /\ \A d \in Clerks \ {c} : movement[d].product # p

\* The quantity of a product is what its log adds up to, as long as no two
\* movements of it overlap: the lock of lock_stock_for_update does not keep
\* two that do apart (create_movement).
StockIsItsLog ==
  \A p \in Products \ overlapped : OnHand(p) = logged[p]

\* No movement leaves less than nothing, not even one that overlaps another
\* (validate_stock_not_negative).
NeverNegative == \A p \in Products : OnHand(p) >= 0

StockIInv ==
  /\ StockTypeOK
  /\ AloneReadsTheRow
  /\ StockIsItsLog
  /\ NeverNegative
  /\ \A c \in Clerks : movement[c].read >= 0
=============================================================================
