----------------------------- MODULE Warehouse -----------------------------
(***************************************************************************)
(* Warehouse documents: receipts (PZ), issues (WZ) and corrections (KK)    *)
(* are drafted, changed, cancelled and posted.  Posting adds FIFO layers   *)
(* or takes quantities from the oldest ones, keeps the balance of every    *)
(* item, and numbers the document.                                         *)
(*                                                                         *)
(* A request is one READ COMMITTED transaction and locks nothing before it *)
(* writes, so it is several actions: every SELECT and every write of its   *)
(* own.  The rows in written[c] are locked, and seen only by c, until c     *)
(* commits; then they replace the committed rows, whatever these are.      *)
(*                                                                         *)
(* Left out: prices, notes, the item catalogue that a receipt updates, the *)
(* date (one day, so the age of a layer is the start of the transaction    *)
(* that added it), the year in the number, and that a layer forgets its    *)
(* document when the items of that document are replaced.                  *)
(*                                                                         *)
(* A definition X_... is X with a plausible bug; no specification uses it. *)
(***************************************************************************)
EXTENDS Integers, Sequences, FiniteSetsExt, Functions

CONSTANTS
  Docs, Items, Layers,   \* rows
  Clients,               \* concurrent requests
  Lines,                 \* line lists a document may be given
  MaxRequests,           \* bound of the model
  NoDoc

ASSUME WarehouseAssumption ==
  /\ IsFiniteSet(Docs) /\ IsFiniteSet(Layers)
  /\ Lines \subseteq Seq([item: Items, qty: Int])
  /\ MaxRequests \in Nat
  /\ NoDoc \notin Docs

Kinds == {"PZ", "WZ", "KK"}

VARIABLES
  doc,        \* rows of warehouse_documents with their items
  layer,      \* rows of inventory_layers, a function on the layers in use
  moved,      \* inventory_layer_movements: quantity per document and layer
  balance,    \* rows of warehouse_balance, a function on the items that have one
  last,       \* warehouse_document_number_seq
  work,       \* the request a client is in the middle of
  read,       \* what its last SELECT found
  written,    \* rows it has written
  requests,   \* requests so far
  overlapped  \* whether two requests were ever in progress together

db == <<doc, layer, moved, balance, last>>
local == <<read, written>>
vars == <<db, work, local, requests, overlapped>>

LineRow == [item: Items, qty: Int]
LineList == Seq(LineRow)
DocumentRow ==
  [status: {"unused", "draft", "posted", "cancelled"}, kind: Kinds, lines: LineList,
   version: Nat, number: Nat]
LayerRow == [doc: Docs, item: Items, received: Nat, left: Nat, stamp: Nat]

Request ==
  [doc: Docs \union {NoDoc}, op: {"none", "post", "update", "cancel"}, kind: Kinds,
   lines: LineList, version: Nat, stamp: Nat, line: Nat,
   step: {"layers", "take", "balance", "store"}]

Nothing == [l \in {} |-> 0]
NoMoves == [l \in Layers |-> 0]
Free ==
  [doc |-> NoDoc, op |-> "none", kind |-> "PZ", lines |-> <<>>, version |-> 0, stamp |-> 0,
   line |-> 1, step |-> "layers"]
NothingRead == [layers |-> <<>>, found |-> FALSE, balance |-> 0]
NothingWritten == [layer |-> Nothing, balance |-> Nothing, moved |-> NoMoves]

TypeOK ==
  /\ doc \in [Docs -> DocumentRow]
  /\ DOMAIN layer \subseteq Layers
  /\ layer \in [DOMAIN layer -> LayerRow]
  /\ \A l \in DOMAIN layer : layer[l].left <= layer[l].received
  /\ moved \in [Docs -> [Layers -> Nat]]
  /\ DOMAIN balance \subseteq Items
  /\ balance \in [DOMAIN balance -> Int]
  /\ last \in [Kinds -> Nat]
  /\ work \in [Clients -> Request]
  /\ requests \in 0..MaxRequests
  /\ overlapped \in BOOLEAN

Init ==
  /\ doc = [d \in Docs |->
              [status |-> "unused", kind |-> "PZ", lines |-> <<>>, version |-> 0, number |-> 0]]
  /\ layer = Nothing
  /\ moved = [d \in Docs |-> NoMoves]
  /\ balance = Nothing
  /\ last = [k \in Kinds |-> 0]
  /\ work = [c \in Clients |-> Free]
  /\ read = [c \in Clients |-> NothingRead]
  /\ written = [c \in Clients |-> NothingWritten]
  /\ requests = 0
  /\ overlapped = FALSE

-----------------------------------------------------------------------------
(* Helpers *)

Busy(c) == work[c].doc # NoDoc
At(c, op, step) == Busy(c) /\ work[c].op = op /\ work[c].step = step

\* What a line adds to the stock of its item.
Delta(kind, line) == IF kind = "WZ" THEN -line.qty ELSE line.qty

\* Only corrections may have negative quantities, no line is zero.
IsValid(kind, lines) ==
  /\ lines # <<>>
  /\ \A n \in DOMAIN lines : IF kind = "KK" THEN lines[n].qty # 0 ELSE lines[n].qty > 0

\* f where it is defined, g elsewhere, as @@ of TLC, which tlapm cannot expand.
Over(f, g) == [x \in DOMAIN f \union DOMAIN g |-> IF x \in DOMAIN f THEN f[x] ELSE g[x]]
Only(key, row) == [x \in {key} |-> row]

\* Rows as c sees them: its own writes, then what is committed.
\* c does not see its own writes.
LayersOf_Committed(c) == Over(layer, written[c].layer)
LayersOf(c) == Over(written[c].layer, layer)
BalanceOf_Committed(c) == Over(balance, written[c].balance)
BalanceOf(c) == Over(written[c].balance, balance)

Line(c) == work[c].lines[work[c].line]
LineDelta(c) == Delta(work[c].kind, Line(c))
InLines(c) == work[c].line <= Len(work[c].lines)

\* The document's items are still the rows that c loaded; the foreign key of
\* what c inserts for them fails otherwise.
ItemsExist(c) == doc[work[c].doc].version = work[c].version

\* c has inserted rows that refer to the items of d.
RefersTo(c, d) ==
  /\ work[c].doc = d
  /\ work[c].op = "post"
  /\ work[c].line > 1 \/ work[c].step \in {"balance", "store"}

-----------------------------------------------------------------------------
(* Requests *)

\* The end of a request, committed or not.
Finish(c) ==
  /\ work' = [work EXCEPT ![c] = Free]
  /\ read' = [read EXCEPT ![c] = NothingRead]
  /\ written' = [written EXCEPT ![c] = NothingWritten]
  /\ UNCHANGED <<requests, overlapped>>

\* POST /warehouse-documents
CreateDocument(d, kind, lines) ==
  /\ doc[d].status = "unused"
  /\ IsValid(kind, lines)
  /\ doc' = [doc EXCEPT ![d] =
                [status |-> "draft", kind |-> kind, lines |-> lines, version |-> 0, number |-> 0]]
  /\ UNCHANGED <<layer, moved, balance, last, work, local, requests, overlapped>>

\* The document is read without a lock.  A posted or cancelled document is
\* refused, or the request does nothing.
\* A cancelled document may be taken up again.
Modifiable_Cancelled == {"draft", "cancelled"}
Modifiable == {"draft"}
Load(c, d, op) ==
  /\ ~Busy(c)
  /\ requests < MaxRequests
  /\ doc[d].status \in Modifiable
  /\ requests' = requests + 1
  /\ work' = [work EXCEPT ![c] =
                [doc |-> d, op |-> op, kind |-> doc[d].kind, lines |-> doc[d].lines,
                 version |-> doc[d].version, stamp |-> requests + 1,
                 line |-> 1, step |-> "layers"]]
  /\ overlapped' = (overlapped \/ \E x \in Clients \ {c} : Busy(x))
  /\ UNCHANGED <<db, local>>

\* Rollback: too little in stock, a failed foreign or primary key, a deadlock,
\* or the end of the process.
\* The layers were committed one by one.
Rollback_Partial(c) ==
  /\ Busy(c)
  /\ Finish(c)
  /\ layer' = Over(written[c].layer, layer)
  /\ UNCHANGED <<doc, moved, balance, last>>
Rollback(c) ==
  /\ Busy(c)
  /\ Finish(c)
  /\ UNCHANGED db

\* DELETE /warehouse-documents/{id}
MarkCancelled(c) ==
  /\ At(c, "cancel", "layers")
  /\ doc' = [doc EXCEPT ![work[c].doc].status = "cancelled"]
  /\ Finish(c)
  /\ UNCHANGED <<layer, moved, balance, last>>

\* PATCH /warehouse-documents/{id}: the items are deleted, with the movements
\* that refer to them, and new ones inserted.  Items that another request
\* already deleted are not missed; those it inserted stay.
ReplaceLines(c, lines) ==
  LET d == work[c].doc IN
  /\ At(c, "update", "layers")
  /\ IsValid(doc[d].kind, lines)
  /\ ItemsExist(c) => \A x \in Clients \ {c} : ~RefersTo(x, d)
  /\ doc' = [doc EXCEPT ![d].lines = IF ItemsExist(c) THEN lines ELSE @ \o lines,
                        ![d].version = @ + 1]
  /\ moved' = IF ItemsExist(c) THEN [moved EXCEPT ![d] = NoMoves] ELSE moved
  /\ Finish(c)
  /\ UNCHANGED <<layer, balance, last>>

-----------------------------------------------------------------------------
(* POST /warehouse-documents/{id}/post, line by line                        *)

GoTo(c, step) == work' = [work EXCEPT ![c].step = step]

\* A receipt or a positive correction: a layer.
NewLayer(c) ==
  [doc |-> work[c].doc, item |-> Line(c).item, received |-> LineDelta(c), left |-> LineDelta(c),
   stamp |-> work[c].stamp]
AddLayer(c, l) ==
  /\ At(c, "post", "layers")
  /\ InLines(c)
  /\ LineDelta(c) > 0
  /\ ItemsExist(c)
  /\ l \notin DOMAIN layer
  /\ \A x \in Clients : l \notin DOMAIN written[x].layer
  /\ written' = [written EXCEPT ![c].layer = Over(Only(l, NewLayer(c)), @)]
  /\ GoTo(c, "balance")
  /\ UNCHANGED <<db, read, requests, overlapped>>

\* An issue or a negative correction: the layers of the item that have
\* something left, oldest first.  Layers of one transaction have one age.
Available(c) ==
  {l \in DOMAIN LayersOf(c) : LayersOf(c)[l].item = Line(c).item /\ LayersOf(c)[l].left > 0}
\* The order is the one in which layers are found.
OldestFirst_AnyOrder(c, s) == s = s
OldestFirst(c, s) ==
  \A m, n \in DOMAIN s : m < n => LayersOf(c)[s[m]].stamp <= LayersOf(c)[s[n]].stamp
Orders(S) == {s \in [1..Cardinality(S) -> S] : \A m, n \in DOMAIN s : m # n => s[m] # s[n]}

ReadLayers(c) ==
  /\ At(c, "post", "layers")
  /\ InLines(c)
  /\ LineDelta(c) < 0
  /\ SumFunction([l \in Available(c) |-> LayersOf(c)[l].left]) >= -LineDelta(c)
  /\ \E s \in Orders(Available(c)) :
       /\ OldestFirst(c, s)
       /\ read' = [read EXCEPT ![c].layers =
                     [n \in DOMAIN s |-> [layer |-> s[n], left |-> LayersOf(c)[s[n]].left]]]
  /\ GoTo(c, "take")
  /\ UNCHANGED <<db, written, requests, overlapped>>

\* How much of the need is taken from the n-th layer read.
\* What the layers before it gave is forgotten.
Take_EachLayer(c, n) == Min({read[c].layers[n].left, -LineDelta(c)})
\* The first layer gives everything.
Take_Overdrawn(c, n) == IF n = 1 THEN -LineDelta(c) ELSE 0
Take(c, n) ==
  LET before == SumFunction([m \in 1..(n - 1) |-> read[c].layers[m].left])
  IN Min({read[c].layers[n].left, Max({0, -LineDelta(c) - before})})

\* The layers something is taken from, by their place in the order.
Sources(c) == {n \in DOMAIN read[c].layers : Take(c, n) # 0}
TakenLayers(c) == {read[c].layers[n].layer : n \in Sources(c)}
Place(c, l) == CHOOSE n \in Sources(c) : read[c].layers[n].layer = l

Lessened(c, l) ==
  [LayersOf(c)[l] EXCEPT !.left = read[c].layers[Place(c, l)].left - Take(c, Place(c, l))]

\* All rows are locked at once; taking the locks one by one only adds
\* deadlocks, which are rolled back.
TakeLayers(c) ==
  /\ At(c, "post", "take")
  /\ ItemsExist(c)
  /\ \A x \in Clients \ {c} : TakenLayers(c) \cap DOMAIN written[x].layer = {}
  /\ written' = [written EXCEPT
       ![c].layer = Over([l \in TakenLayers(c) |-> Lessened(c, l)], @),
       ![c].moved = [l \in Layers |->
                       @[l] + IF l \in TakenLayers(c) THEN Take(c, Place(c, l)) ELSE 0]]
  /\ read' = [read EXCEPT ![c] = NothingRead]
  /\ GoTo(c, "balance")
  /\ UNCHANGED <<db, requests, overlapped>>

\* upsert_balance: a SELECT, ...
HasBalance(c) == Line(c).item \in DOMAIN BalanceOf(c)
ReadBalance(c) ==
  /\ At(c, "post", "balance")
  /\ read' = [read EXCEPT ![c].found = HasBalance(c),
                          ![c].balance = IF HasBalance(c) THEN BalanceOf(c)[Line(c).item] ELSE 0]
  /\ GoTo(c, "store")
  /\ UNCHANGED <<db, written, requests, overlapped>>

\* ... and an UPDATE to the sum, or an INSERT that fails if another request
\* has inserted the row by now.
StoreBalance(c) ==
  /\ At(c, "post", "store")
  /\ \A x \in Clients \ {c} : Line(c).item \notin DOMAIN written[x].balance
  /\ HasBalance(c) => read[c].found
  /\ written' = [written EXCEPT
                   ![c].balance = Over(Only(Line(c).item, read[c].balance + LineDelta(c)), @)]
  /\ read' = [read EXCEPT ![c] = NothingRead]
  /\ work' = [work EXCEPT ![c].line = @ + 1, ![c].step = "layers"]
  /\ UNCHANGED <<db, requests, overlapped>>

\* allocate_next_sequence
\* The posted documents are counted.
NextNumber_Counted(n, kind) ==
  Cardinality({d \in Docs : doc[d].kind = kind /\ doc[d].status = "posted"}) + 1
NextNumber(n, kind) == n + 1

\* After the last line: the next number, the status, and the commit.
MarkPosted(c) ==
  LET d == work[c].doc
      number == NextNumber(last[work[c].kind], work[c].kind)
  IN
  /\ At(c, "post", "layers")
  /\ ~InLines(c)
  /\ last' = [last EXCEPT ![work[c].kind] = number]
  /\ doc' = [doc EXCEPT ![d].status = "posted", ![d].number = number]
  /\ layer' = Over(written[c].layer, layer)
  /\ balance' = Over(written[c].balance, balance)
  /\ moved' = [moved EXCEPT ![d] = [l \in Layers |-> @[l] + written[c].moved[l]]]
  /\ Finish(c)

-----------------------------------------------------------------------------
(* What the user is shown *)

\* list_balance_layers
BalanceLayers ==
  {[layer |-> l, item |-> layer[l].item, quantity |-> layer[l].left,
    source |-> doc[layer[l].doc].number] : l \in {m \in DOMAIN layer : layer[m].left # 0}}

\* get_movements_detail_for_doc_item, the lines of a document taken together
MovementsDetail(d) ==
  {[layer |-> l, quantity |-> moved[d][l], source |-> doc[layer[l].doc].number] :
     l \in {m \in DOMAIN layer : moved[d][m] > 0}}

\* GET /warehouse-documents/{id}
FifoMovements(d) ==
  IF doc[d].status = "posted" /\ doc[d].kind \in {"WZ", "KK"} THEN MovementsDetail(d) ELSE {}

-----------------------------------------------------------------------------
(* Specification *)

PostStep(c) ==
  \/ \E l \in Layers : AddLayer(c, l)
  \/ ReadLayers(c)
  \/ TakeLayers(c)
  \/ ReadBalance(c)
  \/ StoreBalance(c)
  \/ MarkPosted(c)

Next ==
  \/ \E d \in Docs, kind \in Kinds, lines \in Lines : CreateDocument(d, kind, lines)
  \/ \E c \in Clients, d \in Docs, op \in {"post", "update", "cancel"} : Load(c, d, op)
  \/ \E c \in Clients : PostStep(c) \/ MarkCancelled(c) \/ Rollback(c)
  \/ \E c \in Clients, lines \in Lines : ReplaceLines(c, lines)

Spec == Init /\ [][Next]_vars

-----------------------------------------------------------------------------
(* Properties that hold whatever overlaps                                   *)

WasPosted(d) == doc[d].number > 0

\* allocate_next_sequence is immune to concurrency: no number of a kind is
\* given twice, and the counter is never behind the numbers given, even when
\* a posted document is cancelled or posted again by an overlapping request.
NumbersAreUnique ==
  \A d, e \in Docs :
    WasPosted(d) =>
      /\ doc[d].number <= last[doc[d].kind]
      /\ WasPosted(e) /\ d # e /\ doc[d].kind = doc[e].kind => doc[d].number # doc[e].number

\* A document without a number has moved nothing: creating, changing or
\* cancelling a draft, or a posting that is rolled back half-way, leaves no
\* layer and no movement behind.
UnpostedHasNoEffect ==
  \A d \in Docs : ~WasPosted(d) =>
    /\ \A l \in Layers : moved[d][l] = 0
    /\ \A l \in DOMAIN layer : layer[l].doc # d

-----------------------------------------------------------------------------
(* Inductive invariant of the two properties above.                         *)

\* The rows of documents, numbers and requests have their types.
RowsAreTyped ==
  /\ doc \in [Docs -> DocumentRow]
  /\ last \in [Kinds -> Nat]
  /\ work \in [Clients -> Request]
  /\ requests \in Nat
  /\ DOMAIN moved = Docs

\* A request still knows the kind of its document, which exists; a document
\* that does not exist has no number.
RequestsAreCurrent ==
  /\ \A c \in Clients : Busy(c) =>
       doc[work[c].doc].status # "unused" /\ doc[work[c].doc].kind = work[c].kind
  /\ \A d \in Docs : doc[d].status = "unused" => ~WasPosted(d)

\* A layer has a document.  What a request has written belongs to its own
\* document or to one that was posted, and what it read it can still see.
ForeignIsPosted(row, own) ==
  "doc" \in DOMAIN row /\ \A d \in Docs : ~WasPosted(d) /\ d # own => row.doc # d
OwnRows(c) ==
  /\ DOMAIN written[c] = {"layer", "balance", "moved"}
  /\ DOMAIN read[c] = {"layers", "found", "balance"}
  /\ ~Busy(c) => written[c] = NothingWritten
  /\ \A l \in DOMAIN written[c].layer : ForeignIsPosted(written[c].layer[l], work[c].doc)
  /\ \A n \in DOMAIN read[c].layers : read[c].layers[n].layer \in DOMAIN LayersOf(c)
WrittenIsOwn ==
  /\ \A l \in DOMAIN layer : "doc" \in DOMAIN layer[l]
  /\ DOMAIN written = Clients /\ DOMAIN read = Clients
  /\ \A c \in Clients : OwnRows(c)

\* Numbers and effects belong together, in the tables and in every request.
IInv ==
  RowsAreTyped /\ RequestsAreCurrent /\ WrittenIsOwn /\ NumbersAreUnique /\ UnpostedHasNoEffect

-----------------------------------------------------------------------------
(* Properties that hold as long as no two requests overlapped               *)

\* quantity_available; an item without a row has nothing.
Quantity(rows, i) == IF i \in DOMAIN rows THEN rows[i] ELSE 0
LayersWith(i) == {l \in DOMAIN layer : layer[l].item = i}

\* The stock as the user sees it has both of its sources agree: for each item
\* the rows of the list add up to quantity_available, and every row names the
\* posted document its goods came with.
BalanceIsStock ==
  ~overlapped =>
    /\ \A i \in Items :
         SumFunction([e \in {r \in BalanceLayers : r.item = i} |-> e.quantity]) =
           Quantity(balance, i)
    /\ \A e \in BalanceLayers : e.source > 0

\* The cost of every issue can be rebuilt: what a layer lost is what the
\* movements took from it, and what a posted document shows of them is what it
\* issued, from documents that have a number.
Issued(d) ==
  SumFunction([n \in DOMAIN doc[d].lines |-> Max({0, -Delta(doc[d].kind, doc[d].lines[n])})])
CostIsTraceable ==
  ~overlapped =>
    /\ \A l \in DOMAIN layer :
         layer[l].received - layer[l].left = SumFunction([d \in Docs |-> moved[d][l]])
    /\ \A d \in Docs : doc[d].status = "posted" =>
         /\ SumFunction([e \in FifoMovements(d) |-> e.quantity]) = Issued(d)
         /\ \A e \in FifoMovements(d) : e.source > 0

\* First in, first out: nothing is taken from a layer while an older one of
\* the item has something left.
OldestLayersGoFirst ==
  ~overlapped =>
    \A i \in Items : \A l, m \in LayersWith(i) :
      layer[l].stamp < layer[m].stamp /\ layer[m].left < layer[m].received => layer[l].left = 0

\* A posted or cancelled document is never changed again.
DecidedIsFinal ==
  [][~overlapped =>
       \A d \in Docs : doc[d].status \in {"posted", "cancelled"} => doc'[d] = doc[d]]_vars

\* The effect of a posted document is that of its lines, exactly once.
Effect(d, i) ==
  SumFunction([l \in {m \in LayersWith(i) : layer[m].doc = d} |-> layer[l].received])
    - SumFunction([l \in LayersWith(i) |-> moved[d][l]])
Ordered(d, i) ==
  SumFunction([n \in {m \in DOMAIN doc[d].lines : doc[d].lines[m].item = i} |->
                 Delta(doc[d].kind, doc[d].lines[n])])
TakesEffectOnce ==
  \A d \in Docs : doc[d].status = "posted" => \A i \in Items : Effect(d, i) = Ordered(d, i)
TakesEffectOnceAlone == ~overlapped => TakesEffectOnce

-----------------------------------------------------------------------------
(* Inductive invariant: what a request has written so far, and, as long as  *)
(* no two requests overlapped, the books as it leaves them after each line  *)

IsLayerRow(row) == row \in LayerRow /\ row.left <= row.received

\* What c has read, written and reached has its types.
WritesAreTyped(c) ==
  /\ DOMAIN written[c].layer \subseteq Layers
  /\ \A l \in DOMAIN written[c].layer : IsLayerRow(written[c].layer[l])
  /\ DOMAIN written[c].balance \subseteq Items
  /\ \A i \in DOMAIN written[c].balance : written[c].balance[i] \in Int
  /\ written[c].moved \in [Layers -> Nat]
ReadsAreTyped(c) ==
  /\ read[c].balance \in Int
  /\ read[c].layers \in Seq([layer: Layers, left: Nat])
StepIsTyped(c) ==
  /\ work[c].line \in 1..(Len(work[c].lines) + 1)
  /\ work[c].step # "layers" => work[c].op = "post" /\ InLines(c)
  /\ work[c].step = "take" => LineDelta(c) < 0

\* Nobody else writes a row of its own, no layer changes what it received, and
\* a row that c has read can hold what was read.
RowsAreLocked(c) ==
  /\ \A l \in DOMAIN written[c].layer :
       /\ l \in DOMAIN layer => written[c].layer[l].received = layer[l].received
       /\ \A x \in Clients \ {c} : l \notin DOMAIN written[x].layer
  /\ \A n \in DOMAIN read[c].layers :
       read[c].layers[n].left <= LayersOf(c)[read[c].layers[n].layer].received
RequestIsTyped(c) ==
  WritesAreTyped(c) /\ ReadsAreTyped(c) /\ StepIsTyped(c) /\ RowsAreLocked(c)

\* The movements as c sees them.
MovedOf(c) ==
  [d \in Docs |-> [l \in Layers |->
     moved[d][l] + IF d = work[c].doc THEN written[c].moved[l] ELSE 0]]

\* The lines whose quantities are in the layers, and that of the last of them
\* that is not yet in the balance.
LayersDone(c) == work[c].step \in {"balance", "store"}
Posted(d) == IF doc[d].status = "posted" THEN Len(doc[d].lines) ELSE 0
Done(c) ==
  [d \in Docs |-> IF d = work[c].doc
                  THEN IF LayersDone(c) THEN work[c].line ELSE work[c].line - 1
                  ELSE Posted(d)]
Pending(c) ==
  [i \in Items |-> IF LayersDone(c) /\ Line(c).item = i THEN LineDelta(c) ELSE 0]

\* Sums over the layers of an item, and over the first lines of a document.
IfOf(rows, l, i, quantity) == IF l \in DOMAIN rows /\ rows[l].item = i THEN quantity ELSE 0
LeftIn(rows, i) == SumFunction([l \in Layers |-> IfOf(rows, l, i, rows[l].left)])
ReceivedIn(rows, d, i) ==
  SumFunction([l \in Layers |-> IfOf(rows, l, i, IF rows[l].doc = d THEN rows[l].received ELSE 0)])
MovedIn(rows, moves, d, i) ==
  SumFunction([l \in Layers |-> IfOf(rows, l, i, moves[d][l])])
OrderedBy(d, i, lines) ==
  SumFunction([n \in 1..lines |-> IF doc[d].lines[n].item = i
                                  THEN Delta(doc[d].kind, doc[d].lines[n]) ELSE 0])
IssuedBy(d, lines) ==
  SumFunction([n \in 1..lines |-> Max({0, -Delta(doc[d].kind, doc[d].lines[n])})])

\* The stock is the balance and what is pending; every document has moved what
\* its lines say, as far as they are done; ...
StockAgrees(rows, balances, pending) ==
  \A i \in Items : LeftIn(rows, i) = Quantity(balances, i) + pending[i]
LinesAreMoved(rows, moves, done) ==
  \A d \in Docs :
    /\ \A i \in Items : ReceivedIn(rows, d, i) - MovedIn(rows, moves, d, i) = OrderedBy(d, i, done[d])
    /\ SumFunction(moves[d]) = IssuedBy(d, done[d])
\* ... every layer knows where its goods went; and the older ones went first.
MovesAddUp(rows, moves) ==
  /\ \A l \in DOMAIN rows : rows[l].received - rows[l].left = SumFunction([d \in Docs |-> moves[d][l]])
  /\ \A l \in Layers \ DOMAIN rows : \A d \in Docs : moves[d][l] = 0
OldestGoFirst(rows) ==
  /\ \A l \in DOMAIN rows : rows[l].stamp <= requests
  /\ \A l, m \in DOMAIN rows :
       rows[l].item = rows[m].item /\ rows[l].stamp < rows[m].stamp /\ rows[m].left < rows[m].received
       => rows[l].left = 0
Books(rows, balances, moves, done, pending) ==
  /\ StockAgrees(rows, balances, pending)
  /\ LinesAreMoved(rows, moves, done)
  /\ MovesAddUp(rows, moves)
  /\ OldestGoFirst(rows)

\* A request that is alone has loaded the draft as it is, and what it has read
\* is still so.
ReadInOrder(c) ==
  LET s == [n \in DOMAIN read[c].layers |-> read[c].layers[n].layer] IN
  /\ s \in Orders(Available(c))
  /\ OldestFirst(c, s)
  /\ \A n \in DOMAIN s : read[c].layers[n].left = LayersOf(c)[s[n]].left
  /\ SumFunction([n \in DOMAIN s |-> read[c].layers[n].left]) >= -LineDelta(c)
ReadIsCurrent(c) ==
  /\ doc[work[c].doc].status = "draft"
  /\ doc[work[c].doc].lines = work[c].lines
  /\ ItemsExist(c)
  /\ work[c].stamp = requests
  /\ work[c].step = "take" => ReadInOrder(c)
  /\ work[c].step = "store" => read[c].balance = Quantity(BalanceOf(c), Line(c).item)

DocumentsAreValid ==
  \A d \in Docs : /\ doc[d].status # "unused" => IsValid(doc[d].kind, doc[d].lines)
                  /\ WasPosted(d) = (doc[d].status = "posted")
Alone ==
  /\ DocumentsAreValid
  /\ Books(layer, balance, moved, [d \in Docs |-> Posted(d)], [i \in Items |-> 0])
  /\ \A c \in Clients : Busy(c) =>
       /\ \A x \in Clients \ {c} : ~Busy(x)
       /\ ReadIsCurrent(c)
       /\ Books(LayersOf(c), BalanceOf(c), MovedOf(c), Done(c), Pending(c))

BooksIInv ==
  /\ IInv
  /\ TypeOK
  /\ \A c \in Clients : RequestIsTyped(c)
  /\ ~overlapped => Alone
=============================================================================
