-------------------------- MODULE Warehouse_proofs --------------------------
(***************************************************************************)
(* Proofs about Warehouse, for any number of documents, layers, items and  *)
(* overlapping requests, any lists of lines and any quantities.  What      *)
(* holds whatever overlaps rests on IInv and the types of BooksIInv; what  *)
(* holds while requests follow one another, on its books: they are kept    *)
(* line by line by the only request, and committed with it.                *)
(***************************************************************************)
EXTENDS Warehouse, Sums_proofs, SequenceTheorems, TLAPS

-----------------------------------------------------------------------------
(* Rows *)

\* A request in progress has a document.
LEMMA BusyHasDoc ==
  ASSUME RowsAreTyped, NEW c \in Clients, Busy(c)
  PROVE  work[c].doc \in Docs /\ work[c].kind \in Kinds
BY DEF RowsAreTyped, Request, Busy

\* Nothing in progress is a request row.
LEMMA FreeIsRequest == Free \in Request
<1>1. <<>> \in LineList
  BY EmptySeq DEF LineList
<1> QED
  BY <1>1 DEF Free, Request, Kinds

\* What UPDATEs write are rows.
LEMMA RequestAdvances ==
  ASSUME NEW row \in Request, NEW n \in Nat
  PROVE  [row EXCEPT !.line = n, !.step = "layers"] \in Request
BY DEF Request
LEMMA DocumentChanges ==
  ASSUME NEW row \in DocumentRow, NEW lines \in LineList, NEW n \in Nat
  PROVE  [row EXCEPT !.lines = lines, !.version = n] \in DocumentRow
BY DEF DocumentRow

\* The initial rows are typed.
LEMMA RowsInit == Init => RowsAreTyped
<1> SUFFICES ASSUME Init PROVE RowsAreTyped
  OBVIOUS
<1>1. <<>> \in LineList
  BY EmptySeq DEF LineList
<1>2. doc \in [Docs -> DocumentRow]
  BY <1>1 DEF Init, DocumentRow, Kinds
<1>3. last \in [Kinds -> Nat] /\ requests \in Nat /\ DOMAIN moved = Docs
  BY DEF Init
<1>4. work \in [Clients -> Request]
  BY FreeIsRequest DEF Init
<1> QED
  BY <1>2, <1>3, <1>4 DEF RowsAreTyped

\* Every step keeps the types of the rows.
LEMMA RowsNext == RowsAreTyped /\ [Next]_vars => RowsAreTyped'
<1> SUFFICES ASSUME RowsAreTyped, [Next]_vars PROVE RowsAreTyped'
  OBVIOUS
<1> USE DEF RowsAreTyped
<1>1. ASSUME NEW d \in Docs, NEW kind \in Kinds, NEW lines \in Lines, CreateDocument(d, kind, lines)
      PROVE  RowsAreTyped'
  <2>1. lines \in LineList
    BY WarehouseAssumption DEF LineList, LineRow
  <2> QED
    BY <1>1, <2>1 DEF CreateDocument, DocumentRow
<1>2. ASSUME NEW c \in Clients, NEW d \in Docs, NEW op \in {"post", "update", "cancel"}, Load(c, d, op)
      PROVE  RowsAreTyped'
  <2>1. [doc |-> d, op |-> op, kind |-> doc[d].kind, lines |-> doc[d].lines,
         version |-> doc[d].version, stamp |-> requests + 1, line |-> 1, step |-> "layers"]
          \in Request
    BY DEF Request, DocumentRow
  <2> QED
    BY <1>2, <2>1 DEF Load, db, local
<1>3. ASSUME NEW c \in Clients, Rollback(c)
      PROVE  RowsAreTyped'
  BY <1>3, FreeIsRequest DEF Rollback, Finish, db
<1>4. ASSUME NEW c \in Clients, MarkCancelled(c)
      PROVE  RowsAreTyped'
  <2>1. \A row \in DocumentRow : [row EXCEPT !.status = "cancelled"] \in DocumentRow
    BY DEF DocumentRow
  <2>2. work' \in [Clients -> Request] /\ UNCHANGED <<last, requests, moved>>
    BY <1>4, FreeIsRequest DEF MarkCancelled, Finish
  <2>3. doc' \in [Docs -> DocumentRow]
    BY <1>4, <2>1 DEF MarkCancelled
  <2> QED
    BY <2>2, <2>3
<1>5. ASSUME NEW c \in Clients, NEW lines \in Lines, ReplaceLines(c, lines)
      PROVE  RowsAreTyped'
  <2>1. lines \in LineList
    BY WarehouseAssumption DEF LineList, LineRow
  <2>2. \A d \in Docs : doc[d].lines \in LineList
    BY DEF DocumentRow
  <2>3. \A d \in Docs : doc[d].lines \o lines \in LineList
    BY <2>1, <2>2, ConcatProperties DEF LineList
  <2> DEFINE d == work[c].doc
             row == [doc[d] EXCEPT !.lines = IF ItemsExist(c) THEN lines ELSE @ \o lines,
                                   !.version = @ + 1]
  <2>4. doc' \in [Docs -> DocumentRow]
    <3>1. d \in Docs
      BY <1>5, BusyHasDoc DEF ReplaceLines, At
    <3>2. doc[d].version + 1 \in Nat
      BY <3>1 DEF DocumentRow
    <3>3. (IF ItemsExist(c) THEN lines ELSE doc[d].lines \o lines) \in LineList
      BY <2>1, <2>3, <3>1
    <3>4. row \in DocumentRow
      BY <3>1, <3>2, <3>3, DocumentChanges
    <3>5. doc' = [doc EXCEPT ![d] = row]
      BY <1>5, <3>1 DEF ReplaceLines
    <3> QED
      BY <3>4, <3>5
  <2> QED
    BY <1>5, <2>4, FreeIsRequest DEF ReplaceLines, Finish
<1>6. ASSUME NEW c \in Clients, NEW l \in Layers, AddLayer(c, l)
      PROVE  RowsAreTyped'
  BY <1>6 DEF AddLayer, GoTo, Request, db
<1>7. ASSUME NEW c \in Clients, ReadLayers(c)
      PROVE  RowsAreTyped'
  BY <1>7 DEF ReadLayers, GoTo, Request, db
<1>8. ASSUME NEW c \in Clients, TakeLayers(c)
      PROVE  RowsAreTyped'
  BY <1>8 DEF TakeLayers, GoTo, Request, db
<1>9. ASSUME NEW c \in Clients, ReadBalance(c)
      PROVE  RowsAreTyped'
  BY <1>9 DEF ReadBalance, GoTo, Request, db
<1>10. ASSUME NEW c \in Clients, StoreBalance(c)
      PROVE  RowsAreTyped'
  <2> DEFINE row == [work[c] EXCEPT !.line = @ + 1, !.step = "layers"]
  <2>1. work[c].line + 1 \in Nat
    BY DEF Request
  <2>2. row \in Request
    BY <2>1, RequestAdvances
  <2>3. work' = [work EXCEPT ![c] = row]
    BY <1>10 DEF StoreBalance
  <2> QED
    BY <1>10, <2>2, <2>3 DEF StoreBalance, db
<1>11. ASSUME NEW c \in Clients, MarkPosted(c)
      PROVE  RowsAreTyped'
  BY <1>11, BusyHasDoc, FreeIsRequest DEF MarkPosted, At, Finish, NextNumber, DocumentRow
<1>12. CASE UNCHANGED vars
  BY <1>12 DEF vars, db
<1> QED
  BY <1>1, <1>2, <1>3, <1>4, <1>5, <1>6, <1>7, <1>8, <1>9, <1>10, <1>11, <1>12 DEF Next, PostStep

-----------------------------------------------------------------------------
(* Requests and their documents *)

\* The initial state has no request and no number.
LEMMA CurrentInit == Init => RequestsAreCurrent
BY DEF Init, RequestsAreCurrent, Busy, Free, WasPosted

\* Every step leaves a request with the kind its document has.
LEMMA CurrentNext == RowsAreTyped /\ RequestsAreCurrent /\ [Next]_vars => RequestsAreCurrent'
<1> SUFFICES ASSUME RowsAreTyped, RequestsAreCurrent, [Next]_vars PROVE RequestsAreCurrent'
  OBVIOUS
<1> USE DEF RowsAreTyped, RequestsAreCurrent, Busy, WasPosted
<1>0. ASSUME NEW c \in Clients, Finish(c)
      PROVE  /\ \A x \in Clients \ {c} : work'[x] = work[x]
             /\ work'[c].doc = NoDoc
  BY <1>0 DEF Finish, Free
<1>1. ASSUME NEW d \in Docs, NEW kind \in Kinds, NEW lines \in Lines, CreateDocument(d, kind, lines)
      PROVE  RequestsAreCurrent'
  <2>1. \A e \in Docs : IF e = d
          THEN doc'[e].status = "draft" /\ doc'[e].number = 0
          ELSE doc'[e] = doc[e]
    BY <1>1 DEF CreateDocument
  <2>2. UNCHANGED work /\ \A c \in Clients : Busy(c) => work[c].doc \in Docs \ {d}
    BY <1>1 DEF CreateDocument, Request
  <2> QED
    BY <2>1, <2>2
<1>2. ASSUME NEW c \in Clients, NEW d \in Docs, NEW op \in {"post", "update", "cancel"}, Load(c, d, op)
      PROVE  RequestsAreCurrent'
  BY <1>2 DEF Load, db, Modifiable
<1>3. ASSUME NEW c \in Clients, Rollback(c)
      PROVE  RequestsAreCurrent'
  BY <1>0, <1>3 DEF Rollback, db
<1>4. ASSUME NEW c \in Clients, MarkCancelled(c)
      PROVE  RequestsAreCurrent'
  BY <1>0, <1>4 DEF MarkCancelled, DocumentRow, At
<1>5. ASSUME NEW c \in Clients, NEW lines \in Lines, ReplaceLines(c, lines)
      PROVE  RequestsAreCurrent'
  <2>1. \A d \in Docs : /\ doc'[d].status = doc[d].status
                       /\ doc'[d].kind = doc[d].kind
                       /\ doc'[d].number = doc[d].number
    BY <1>5 DEF ReplaceLines, DocumentRow
  <2>2. /\ \A x \in Clients \ {c} : work'[x] = work[x]
        /\ work'[c].doc = NoDoc
    BY <1>0, <1>5 DEF ReplaceLines
  <2>3. \A x \in Clients : work'[x].doc # NoDoc => work[x].doc \in Docs /\ work'[x] = work[x]
    BY <2>2 DEF Request
  <2> QED
    BY <2>1, <2>3
<1>6. ASSUME NEW c \in Clients, PostStep(c), ~MarkPosted(c)
      PROVE  RequestsAreCurrent'
  <2>1. UNCHANGED doc /\ \A x \in Clients : work'[x].doc = work[x].doc /\ work'[x].kind = work[x].kind
    BY <1>6 DEF PostStep, AddLayer, ReadLayers, TakeLayers, ReadBalance, StoreBalance, GoTo, db, Request
  <2> QED
    BY <2>1
<1>7. ASSUME NEW c \in Clients, MarkPosted(c)
      PROVE  RequestsAreCurrent'
  <2>1. \A d \in Docs : /\ doc'[d].kind = doc[d].kind
                       /\ IF d = work[c].doc
                            THEN doc'[d].status = "posted"
                            ELSE doc'[d].status = doc[d].status /\ doc'[d].number = doc[d].number
    BY <1>7 DEF MarkPosted, DocumentRow
  <2> QED
    BY <1>0, <1>7, <2>1, BusyHasDoc DEF MarkPosted
<1>8. CASE UNCHANGED vars
  BY <1>8 DEF vars, db
<1> QED
  BY <1>1, <1>2, <1>3, <1>4, <1>5, <1>6, <1>7, <1>8 DEF Next

-----------------------------------------------------------------------------
(* Numbers *)

\* Only posting gives a number, or changes the kind of a numbered document.
NumbersStay ==
  /\ UNCHANGED last
  /\ \A d \in Docs : /\ doc'[d].number = doc[d].number
                     /\ doc'[d].kind = doc[d].kind \/ ~WasPosted(d)
LEMMA OnlyPostingNumbers ==
  ASSUME RowsAreTyped, RequestsAreCurrent, [Next]_vars, \A c \in Clients : ~MarkPosted(c)
  PROVE  NumbersStay
<1> USE DEF RowsAreTyped, NumbersStay, WasPosted
<1>1. ASSUME NEW d \in Docs, NEW kind \in Kinds, NEW lines \in Lines, CreateDocument(d, kind, lines)
      PROVE  NumbersStay
  BY <1>1 DEF CreateDocument, RequestsAreCurrent, DocumentRow
<1>2. ASSUME NEW c \in Clients, MarkCancelled(c)
      PROVE  NumbersStay
  BY <1>2 DEF MarkCancelled, DocumentRow
<1>3. ASSUME NEW c \in Clients, NEW lines \in Lines, ReplaceLines(c, lines)
      PROVE  NumbersStay
  <2>1. UNCHANGED last
    BY <1>3 DEF ReplaceLines
  <2>2. \A d \in Docs : doc'[d].kind = doc[d].kind /\ doc'[d].number = doc[d].number
    BY <1>3 DEF ReplaceLines, DocumentRow
  <2> QED
    BY <2>1, <2>2
<1>4. ASSUME UNCHANGED <<doc, last>>
      PROVE  NumbersStay
  BY <1>4
<1>5. ASSUME NEW c \in Clients, PostStep(c)
      PROVE  NumbersStay
  <2>1. UNCHANGED <<doc, last>>
    BY <1>5 DEF PostStep, AddLayer, ReadLayers, TakeLayers, ReadBalance, StoreBalance, db
  <2> QED
    BY <2>1, <1>4
<1>6. ASSUME NEW c \in Clients, NEW d \in Docs, NEW op \in {"post", "update", "cancel"}, Load(c, d, op)
      PROVE  NumbersStay
  BY <1>4, <1>6 DEF Load, db
<1>7. ASSUME NEW c \in Clients, Rollback(c)
      PROVE  NumbersStay
  BY <1>4, <1>7 DEF Rollback, db
<1>8. CASE UNCHANGED vars
  BY <1>4, <1>8 DEF vars, db
<1> QED
  BY <1>1, <1>2, <1>3, <1>5, <1>6, <1>7, <1>8 DEF Next

\* Posting gives the number after the last one of the kind.
LEMMA PostingNumbers ==
  ASSUME RowsAreTyped, RequestsAreCurrent, NEW c \in Clients, MarkPosted(c)
  PROVE  LET d == work[c].doc IN
         /\ d \in Docs
         /\ doc'[d].number = last[doc[d].kind] + 1
         /\ last' = [last EXCEPT ![doc[d].kind] = @ + 1]
         /\ \A e \in Docs : doc'[e].kind = doc[e].kind
         /\ \A e \in Docs \ {d} : doc'[e] = doc[e]
<1>1. work[c].doc \in Docs /\ work[c].kind = doc[work[c].doc].kind
  BY BusyHasDoc DEF MarkPosted, At, RequestsAreCurrent
<1> QED
  BY <1>1 DEF MarkPosted, NextNumber, RowsAreTyped, DocumentRow

\* The numbers stay unique.
LEMMA NumbersNext ==
  RowsAreTyped /\ RequestsAreCurrent /\ NumbersAreUnique /\ [Next]_vars => NumbersAreUnique'
<1> SUFFICES ASSUME RowsAreTyped, RequestsAreCurrent, NumbersAreUnique, [Next]_vars
             PROVE  NumbersAreUnique'
  OBVIOUS
<1>1. ASSUME NEW c \in Clients, MarkPosted(c)
      PROVE  NumbersAreUnique'
  <2> DEFINE d == work[c].doc
  <2>1. /\ d \in Docs
        /\ doc'[d].number = last[doc[d].kind] + 1
        /\ last' = [last EXCEPT ![doc[d].kind] = @ + 1]
        /\ \A e \in Docs : doc'[e].kind = doc[e].kind
        /\ \A e \in Docs \ {d} : doc'[e] = doc[e]
    BY <1>1, PostingNumbers
  <2> HIDE DEF d
  <2>2. \A e \in Docs : doc[e].kind \in Kinds /\ doc[e].number \in Nat /\ last[doc[e].kind] \in Nat
    BY DEF RowsAreTyped, DocumentRow
  <2>3. \A e \in Docs : doc'[e].number > 0 => doc'[e].number <= last'[doc'[e].kind]
    BY <2>1, <2>2 DEF NumbersAreUnique, WasPosted, RowsAreTyped
  <2>4. \A e \in Docs \ {d} : doc[e].number > 0 /\ doc[e].kind = doc[d].kind
          => doc'[e].number # doc'[d].number
    BY <2>1, <2>2 DEF NumbersAreUnique, WasPosted
  <2> QED
    BY <2>1, <2>3, <2>4 DEF NumbersAreUnique, WasPosted
<1>2. CASE \A c \in Clients : ~MarkPosted(c)
  BY <1>2, OnlyPostingNumbers DEF NumbersStay, NumbersAreUnique, WasPosted
<1> QED
  BY <1>1, <1>2

-----------------------------------------------------------------------------
(* Effects *)

\* The initial state has no effects.
LEMMA WrittenInit == Init => WrittenIsOwn /\ UnpostedHasNoEffect
<1> SUFFICES ASSUME Init PROVE WrittenIsOwn /\ UnpostedHasNoEffect
  OBVIOUS
<1>1. WrittenIsOwn
  BY DEF Init, WrittenIsOwn, OwnRows, Nothing, NothingRead, NothingWritten
<1>2. UnpostedHasNoEffect
  BY DEF Init, UnpostedHasNoEffect, Nothing, NoMoves
<1> QED
  BY <1>1, <1>2

\* What a step may do to the numbers without undoing an effect.
LEMMA PostedStaysPosted ==
  ASSUME RowsAreTyped, RequestsAreCurrent, [Next]_vars, NEW d \in Docs, WasPosted(d)
  PROVE  WasPosted(d)'
<1>1. ASSUME NEW c \in Clients, MarkPosted(c)
      PROVE  WasPosted(d)'
  <2>1. \A e \in Docs : doc[e].kind \in Kinds /\ last[doc[e].kind] \in Nat
    BY DEF RowsAreTyped, DocumentRow
  <2> QED
    BY <1>1, <2>1, PostingNumbers DEF WasPosted
<1>2. CASE \A c \in Clients : ~MarkPosted(c)
  BY <1>2, OnlyPostingNumbers DEF NumbersStay, WasPosted
<1> QED
  BY <1>1, <1>2

\* The rows c sees have a document, which is its own or was posted.
LEMMA SeenIsOwn ==
  ASSUME RowsAreTyped, WrittenIsOwn, UnpostedHasNoEffect,
         NEW c \in Clients, NEW l \in DOMAIN LayersOf(c)
  PROVE  ForeignIsPosted(LayersOf(c)[l], work[c].doc)
<1>1. CASE l \in DOMAIN written[c].layer
  BY <1>1 DEF LayersOf, Over, WrittenIsOwn, OwnRows
<1>2. CASE l \notin DOMAIN written[c].layer
  <2>1. l \in DOMAIN layer /\ LayersOf(c)[l] = layer[l]
    BY <1>2 DEF LayersOf, Over
  <2> QED
    BY <2>1 DEF WrittenIsOwn, UnpostedHasNoEffect, ForeignIsPosted
<1> QED
  BY <1>1, <1>2

\* A row that is foreign to nobody's draft stays so.
LEMMA ForeignStaysPosted ==
  ASSUME RowsAreTyped, RequestsAreCurrent, [Next]_vars, NEW row, NEW own, ForeignIsPosted(row, own)
  PROVE  ForeignIsPosted(row, own)'
BY PostedStaysPosted DEF ForeignIsPosted

\* Committed layers are only added or replaced, by rows with a document.
LEMMA LayersGrow ==
  ASSUME WrittenIsOwn, [Next]_vars
  PROVE  /\ DOMAIN layer \subseteq DOMAIN layer'
         /\ \A l \in DOMAIN layer' : "doc" \in DOMAIN layer'[l]
<1>1. ASSUME NEW c \in Clients, MarkPosted(c)
      PROVE  /\ DOMAIN layer \subseteq DOMAIN layer'
             /\ \A l \in DOMAIN layer' : "doc" \in DOMAIN layer'[l]
  <2>1. layer' = Over(written[c].layer, layer)
    BY <1>1 DEF MarkPosted
  <2> QED
    BY <2>1 DEF Over, WrittenIsOwn, OwnRows, ForeignIsPosted
<1>2. CASE UNCHANGED layer
  BY <1>2 DEF WrittenIsOwn
<1>3. (\A c \in Clients : ~MarkPosted(c)) => UNCHANGED layer
  BY DEF Next, PostStep, CreateDocument, Load, Rollback, MarkCancelled, ReplaceLines, AddLayer,
         ReadLayers, TakeLayers, ReadBalance, StoreBalance, db, vars
<1> QED
  BY <1>1, <1>2, <1>3

\* A client that another one's step leaves alone keeps its rows in order.
LEMMA OthersKeepRows ==
  ASSUME RowsAreTyped, RequestsAreCurrent, WrittenIsOwn, [Next]_vars,
         NEW x \in Clients, work'[x] = work[x], written'[x] = written[x], read'[x] = read[x]
  PROVE  OwnRows(x)'
<1>1. \A l \in DOMAIN written[x].layer : \A d \in Docs :
        d # work[x].doc /\ ~WasPosted(d)' => written[x].layer[l].doc # d
  BY PostedStaysPosted DEF WrittenIsOwn, OwnRows, ForeignIsPosted
<1>2. DOMAIN LayersOf(x) \subseteq DOMAIN LayersOf(x)'
  BY LayersGrow DEF LayersOf, Over
<1> QED
  BY <1>1, <1>2 DEF WrittenIsOwn, OwnRows, Busy, ForeignIsPosted

\* The end of a request leaves nothing written or read.
LEMMA FinishedHasNoRows ==
  ASSUME RowsAreTyped, WrittenIsOwn, NEW c \in Clients, Finish(c)
  PROVE  /\ OwnRows(c)'
         /\ DOMAIN written' = Clients /\ DOMAIN read' = Clients
         /\ \A x \in Clients \ {c} :
              work'[x] = work[x] /\ written'[x] = written[x] /\ read'[x] = read[x]
BY DEF Finish, RowsAreTyped, WrittenIsOwn, OwnRows, NothingRead, NothingWritten, Nothing

\* Every step leaves every request with rows of its own.
LEMMA WrittenNext ==
  /\ RowsAreTyped /\ RequestsAreCurrent /\ WrittenIsOwn /\ UnpostedHasNoEffect
  /\ [Next]_vars
  => WrittenIsOwn'
<1> SUFFICES ASSUME RowsAreTyped, RequestsAreCurrent, WrittenIsOwn, UnpostedHasNoEffect, [Next]_vars
             PROVE  WrittenIsOwn'
  OBVIOUS
<1>0. ASSUME DOMAIN written' = Clients, DOMAIN read' = Clients, \A c \in Clients : OwnRows(c)'
      PROVE  WrittenIsOwn'
  BY <1>0, LayersGrow DEF WrittenIsOwn
<1>1. ASSUME UNCHANGED <<work, local>>
      PROVE  WrittenIsOwn'
  BY <1>0, <1>1, OthersKeepRows DEF local, WrittenIsOwn
<1>2. ASSUME NEW c \in Clients, Finish(c)
      PROVE  WrittenIsOwn'
  BY <1>0, <1>2, OthersKeepRows, FinishedHasNoRows
\* What is left is a step inside a request c that changes nothing committed.
<1> DEFINE Inside(c) == /\ UNCHANGED layer
                        /\ DOMAIN written' = Clients /\ DOMAIN read' = Clients
                        /\ \A x \in Clients \ {c} : work'[x] = work[x] /\ written'[x] = written[x]
                                                    /\ read'[x] = read[x]
<1>3. ASSUME NEW c \in Clients, Inside(c), OwnRows(c)'
      PROVE  WrittenIsOwn'
  BY <1>0, <1>3, OthersKeepRows
<1>4. ASSUME NEW c \in Clients
      PROVE  /\ DOMAIN written[c] = {"layer", "balance", "moved"}
             /\ DOMAIN read[c] = {"layers", "found", "balance"}
  BY DEF WrittenIsOwn, OwnRows
<1>5. ASSUME NEW c \in Clients, NEW d \in Docs, NEW op \in {"post", "update", "cancel"}, Load(c, d, op)
      PROVE  WrittenIsOwn'
  <2>1. Inside(c)
    BY <1>5 DEF Load, db, local, WrittenIsOwn, RowsAreTyped
  <2>2. /\ written'[c] = NothingWritten /\ read'[c] = read[c]
        /\ DOMAIN LayersOf(c)' = DOMAIN LayersOf(c)
    BY <1>5 DEF Load, db, local, WrittenIsOwn, OwnRows, LayersOf
  <2>3. OwnRows(c)'
    BY <2>2 DEF OwnRows, NothingWritten, Nothing, WrittenIsOwn
  <2> QED
    BY <2>1, <2>3, <1>3
<1>6. ASSUME NEW c \in Clients, NEW l \in Layers, AddLayer(c, l)
      PROVE  WrittenIsOwn'
  <2>1. Inside(c) /\ Busy(c)' /\ work'[c].doc = work[c].doc /\ read'[c] = read[c]
    BY <1>6 DEF AddLayer, GoTo, At, Busy, db, WrittenIsOwn, RowsAreTyped, Request
  <2>2. /\ written'[c].layer = Over(Only(l, NewLayer(c)), written[c].layer)
        /\ DOMAIN written'[c] = DOMAIN written[c]
    BY <1>4, <1>6 DEF AddLayer, WrittenIsOwn
  <2>3. UNCHANGED doc
    BY <1>6 DEF AddLayer, db
  <2>4. \A k \in DOMAIN written'[c].layer : ForeignIsPosted(written[c].layer[k], work[c].doc)'
    BY <2>1, <2>2, <2>3
    DEF Over, Only, NewLayer, ForeignIsPosted, WasPosted, WrittenIsOwn, OwnRows
  <2>5. DOMAIN LayersOf(c) \subseteq DOMAIN LayersOf(c)'
    BY <2>1, <2>2 DEF LayersOf, Over
  <2>6. OwnRows(c)'
    BY <1>4, <2>1, <2>2, <2>4, <2>5 DEF OwnRows, WrittenIsOwn
  <2> QED
    BY <2>1, <2>6, <1>3
<1>7. ASSUME NEW c \in Clients, ReadLayers(c)
      PROVE  WrittenIsOwn'
  <2>1. Inside(c) /\ Busy(c)' /\ work'[c].doc = work[c].doc /\ UNCHANGED <<written, doc>>
    BY <1>7 DEF ReadLayers, GoTo, At, Busy, db, WrittenIsOwn, RowsAreTyped, Request
  <2>2. PICK s \in Orders(Available(c)) :
          read' = [read EXCEPT ![c].layers =
                     [n \in DOMAIN s |-> [layer |-> s[n], left |-> LayersOf(c)[s[n]].left]]]
    BY <1>7 DEF ReadLayers
  <2>3. \A n \in DOMAIN s : s[n] \in DOMAIN LayersOf(c)
    BY DEF Orders, Available
  <2>4. /\ DOMAIN read'[c] = DOMAIN read[c]
        /\ \A n \in DOMAIN read'[c].layers : read'[c].layers[n].layer \in DOMAIN LayersOf(c)
    BY <1>4, <2>2, <2>3 DEF WrittenIsOwn
  <2>5. LayersOf(c)' = LayersOf(c)
    BY <2>1 DEF LayersOf
  <2>6. OwnRows(c)'
    BY <1>4, <2>1, <2>4, <2>5 DEF OwnRows, WrittenIsOwn, ForeignIsPosted, WasPosted
  <2> QED
    BY <2>1, <2>6, <1>3
<1>8. ASSUME NEW c \in Clients, TakeLayers(c)
      PROVE  WrittenIsOwn'
  <2>1. Inside(c) /\ Busy(c)' /\ work'[c].doc = work[c].doc /\ UNCHANGED doc
    BY <1>8 DEF TakeLayers, GoTo, At, Busy, db, WrittenIsOwn, RowsAreTyped, Request
  <2>2. /\ written'[c].layer = Over([l \in TakenLayers(c) |-> Lessened(c, l)], written[c].layer)
        /\ DOMAIN written'[c] = DOMAIN written[c]
        /\ read'[c] = NothingRead
    BY <1>4, <1>8 DEF TakeLayers, WrittenIsOwn
  <2>3. \A l \in TakenLayers(c) : l \in DOMAIN LayersOf(c)
    BY DEF TakenLayers, Sources, WrittenIsOwn, OwnRows
  <2>4. \A l \in TakenLayers(c) : ForeignIsPosted(Lessened(c, l), work[c].doc)
    BY <2>3, SeenIsOwn DEF Lessened, ForeignIsPosted
  <2>5. \A k \in DOMAIN written'[c].layer : ForeignIsPosted(written[c].layer[k], work[c].doc)'
    BY <2>1, <2>2, <2>4 DEF Over, ForeignIsPosted, WasPosted, WrittenIsOwn, OwnRows
  <2>6. OwnRows(c)'
    BY <1>4, <2>1, <2>2, <2>5 DEF OwnRows, NothingRead
  <2> QED
    BY <2>1, <2>6, <1>3
<1>9. ASSUME NEW c \in Clients, ReadBalance(c)
      PROVE  WrittenIsOwn'
  <2>1. /\ Inside(c) /\ Busy(c)' /\ work'[c].doc = work[c].doc /\ UNCHANGED <<written, doc>>
    BY <1>9 DEF ReadBalance, GoTo, At, Busy, db, WrittenIsOwn, RowsAreTyped, Request
  <2>2. DOMAIN read'[c] = DOMAIN read[c] /\ read'[c].layers = read[c].layers
    BY <1>4, <1>9 DEF ReadBalance, WrittenIsOwn
  <2>3. LayersOf(c)' = LayersOf(c)
    BY <2>1 DEF LayersOf
  <2>4. OwnRows(c)'
    BY <1>4, <2>1, <2>2, <2>3 DEF OwnRows, WrittenIsOwn, ForeignIsPosted, WasPosted
  <2> QED
    BY <2>1, <2>4, <1>3
<1>10. ASSUME NEW c \in Clients, StoreBalance(c)
       PROVE  WrittenIsOwn'
  <2>1. Inside(c) /\ Busy(c)' /\ work'[c].doc = work[c].doc /\ UNCHANGED doc
    BY <1>10 DEF StoreBalance, At, Busy, db, WrittenIsOwn, RowsAreTyped, Request
  <2>2. /\ written'[c].layer = written[c].layer
        /\ DOMAIN written'[c] = DOMAIN written[c]
        /\ read'[c] = NothingRead
    BY <1>4, <1>10 DEF StoreBalance, WrittenIsOwn
  <2>3. OwnRows(c)'
    BY <1>4, <2>1, <2>2 DEF OwnRows, NothingRead, WrittenIsOwn, ForeignIsPosted, WasPosted
  <2> QED
    BY <2>1, <2>3, <1>3
<1>11. ASSUME NEW d \in Docs, NEW kind \in Kinds, NEW lines \in Lines, CreateDocument(d, kind, lines)
       PROVE  WrittenIsOwn'
  BY <1>1, <1>11 DEF CreateDocument
<1>12. ASSUME NEW c \in Clients,
              MarkPosted(c) \/ MarkCancelled(c) \/ Rollback(c) \/ \E lines \in Lines : ReplaceLines(c, lines)
       PROVE  WrittenIsOwn'
  BY <1>2, <1>12 DEF MarkPosted, MarkCancelled, Rollback, ReplaceLines
<1>13. CASE UNCHANGED vars
  BY <1>1, <1>13 DEF vars
<1> HIDE DEF Inside
<1> QED
  BY <1>5, <1>6, <1>7, <1>8, <1>9, <1>10, <1>11, <1>12, <1>13 DEF Next, PostStep

\* A document without a number still has no effect after every step.
LEMMA UnpostedNext ==
  /\ RowsAreTyped /\ RequestsAreCurrent /\ WrittenIsOwn /\ UnpostedHasNoEffect
  /\ [Next]_vars
  => UnpostedHasNoEffect'
<1> SUFFICES ASSUME RowsAreTyped, RequestsAreCurrent, WrittenIsOwn, UnpostedHasNoEffect, [Next]_vars,
                    NEW e \in Docs, ~WasPosted(e)'
             PROVE  /\ \A l \in Layers : moved'[e][l] = 0
                    /\ \A l \in DOMAIN layer' : layer'[l].doc # e
  BY DEF UnpostedHasNoEffect
<1>0. ~WasPosted(e)
  BY PostedStaysPosted
<1>1. ASSUME UNCHANGED <<moved, layer>>
      PROVE  /\ \A l \in Layers : moved'[e][l] = 0
             /\ \A l \in DOMAIN layer' : layer'[l].doc # e
  BY <1>0, <1>1 DEF UnpostedHasNoEffect
<1>2. ASSUME NEW c \in Clients, MarkPosted(c)
      PROVE  /\ \A l \in Layers : moved'[e][l] = 0
             /\ \A l \in DOMAIN layer' : layer'[l].doc # e
  <2>1. work[c].doc # e
    <3>1. \A d \in Docs : doc[d].kind \in Kinds /\ last[doc[d].kind] \in Nat
      BY DEF RowsAreTyped, DocumentRow
    <3> QED
      BY <1>2, <3>1, PostingNumbers DEF WasPosted
  <2>2. moved'[e] = moved[e]
    BY <1>2, <2>1 DEF MarkPosted, RowsAreTyped
  <2>3. layer' = Over(written[c].layer, layer)
    BY <1>2 DEF MarkPosted
  <2>4. \A l \in DOMAIN written[c].layer : written[c].layer[l].doc # e
    BY <1>0, <2>1 DEF WrittenIsOwn, OwnRows, ForeignIsPosted
  <2> QED
    BY <1>0, <2>2, <2>3, <2>4 DEF Over, UnpostedHasNoEffect
<1>3. ASSUME NEW c \in Clients, NEW lines \in Lines, ReplaceLines(c, lines)
      PROVE  /\ \A l \in Layers : moved'[e][l] = 0
             /\ \A l \in DOMAIN layer' : layer'[l].doc # e
  <2>1. UNCHANGED layer /\ (moved'[e] = moved[e] \/ moved'[e] = NoMoves)
    BY <1>3 DEF ReplaceLines, RowsAreTyped
  <2> QED
    BY <1>0, <2>1 DEF UnpostedHasNoEffect, NoMoves
<1>4. ASSUME NEW c \in Clients, PostStep(c), ~MarkPosted(c)
      PROVE  UNCHANGED <<moved, layer>>
  BY <1>4 DEF PostStep, AddLayer, ReadLayers, TakeLayers, ReadBalance, StoreBalance, db
<1>5. ASSUME NEW c \in Clients, NEW d \in Docs, NEW op \in {"post", "update", "cancel"}, Load(c, d, op)
      PROVE  UNCHANGED <<moved, layer>>
  BY <1>5 DEF Load, db
<1>6. ASSUME NEW d \in Docs, NEW kind \in Kinds, NEW lines \in Lines, CreateDocument(d, kind, lines)
      PROVE  UNCHANGED <<moved, layer>>
  BY <1>6 DEF CreateDocument
<1>7. ASSUME NEW c \in Clients, MarkCancelled(c) \/ Rollback(c)
      PROVE  UNCHANGED <<moved, layer>>
  BY <1>7 DEF MarkCancelled, Rollback, db
<1>8. CASE UNCHANGED vars
  BY <1>1, <1>8 DEF vars, db
<1> QED
  BY <1>1, <1>2, <1>3, <1>4, <1>5, <1>6, <1>7, <1>8 DEF Next

-----------------------------------------------------------------------------
(* The books when a layer is added, and when layers give *)

\* Layers in use, with their rows.
RowsOfLayers(rows) == DOMAIN rows \subseteq Layers /\ \A l \in DOMAIN rows : IsLayerRow(rows[l])

\* The numbers of a layer.
LEMMA LayerNumbers ==
  ASSUME NEW row, IsLayerRow(row)
  PROVE  /\ row.doc \in Docs /\ row.item \in Items
         /\ row.received \in Nat /\ row.left \in Nat /\ row.stamp \in Nat
         /\ row.left <= row.received
BY DEF IsLayerRow, LayerRow

\* One row over a table, and two tables over a third.
LEMMA OverOnly ==
  ASSUME NEW f, NEW x, NEW row
  PROVE  /\ DOMAIN Over(Only(x, row), f) = DOMAIN f \union {x}
         /\ Over(Only(x, row), f)[x] = row
         /\ \A y \in DOMAIN f : y # x => Over(Only(x, row), f)[y] = f[y]
BY DEF Over, Only

\* Writing over a table in two steps is writing over it once.
LEMMA OverTwice ==
  ASSUME NEW f, NEW g, NEW h
  PROVE  Over(Over(f, g), h) = Over(f, Over(g, h))
<1>1. DOMAIN Over(Over(f, g), h) = DOMAIN Over(f, Over(g, h))
  BY DEF Over
<1>2. \A x \in DOMAIN Over(Over(f, g), h) : Over(Over(f, g), h)[x] = Over(f, Over(g, h))[x]
  BY DEF Over
<1> QED
  BY <1>1, <1>2 DEF Over

\* The sums over layers are sums of integers on the set of layers.
LEMMA LeftIs ==
  ASSUME NEW rows, RowsOfLayers(rows), NEW i
  PROVE  LET f == [l \in Layers |-> IfOf(rows, l, i, rows[l].left)] IN
         IntsOn(f, Layers) /\ LeftIn(rows, i) = SumFunctionOnSet(f, Layers) /\ LeftIn(rows, i) \in Int
<1> DEFINE f == [l \in Layers |-> IfOf(rows, l, i, rows[l].left)]
<1>1. IntsOn(f, Layers)
  BY LayerNumbers DEF IfOf, IntsOn, RowsOfLayers
<1>2. LeftIn(rows, i) = SumFunctionOnSet(f, Layers)
  BY SumIs DEF LeftIn
<1>3. IsFiniteSet(Layers)
  BY WarehouseAssumption
<1> HIDE DEF f
<1>4. SumFunctionOnSet(f, Layers) \in Int
  BY <1>1, <1>3, SumInt
<1> QED
  BY <1>1, <1>2, <1>4 DEF f

\* The same of what the layers of a document received, ...
LEMMA ReceivedIs ==
  ASSUME NEW rows, RowsOfLayers(rows), NEW d, NEW i
  PROVE  LET f == [l \in Layers |-> IfOf(rows, l, i, IF rows[l].doc = d THEN rows[l].received ELSE 0)] IN
         /\ IntsOn(f, Layers)
         /\ ReceivedIn(rows, d, i) = SumFunctionOnSet(f, Layers)
         /\ ReceivedIn(rows, d, i) \in Int
<1> DEFINE f == [l \in Layers |-> IfOf(rows, l, i, IF rows[l].doc = d THEN rows[l].received ELSE 0)]
<1>1. IntsOn(f, Layers)
  BY LayerNumbers DEF IfOf, IntsOn, RowsOfLayers
<1>2. ReceivedIn(rows, d, i) = SumFunctionOnSet(f, Layers)
  BY SumIs DEF ReceivedIn
<1>3. IsFiniteSet(Layers)
  BY WarehouseAssumption
<1> HIDE DEF f
<1>4. SumFunctionOnSet(f, Layers) \in Int
  BY <1>1, <1>3, SumInt
<1> QED
  BY <1>1, <1>2, <1>4 DEF f

\* ... and of what a document took from the layers.
LEMMA MovedIs ==
  ASSUME NEW rows, NEW moves, NEW d, NEW i, \A l \in Layers : moves[d][l] \in Int
  PROVE  LET f == [l \in Layers |-> IfOf(rows, l, i, moves[d][l])] IN
         /\ IntsOn(f, Layers)
         /\ MovedIn(rows, moves, d, i) = SumFunctionOnSet(f, Layers)
         /\ MovedIn(rows, moves, d, i) \in Int
<1> DEFINE f == [l \in Layers |-> IfOf(rows, l, i, moves[d][l])]
<1>1. IntsOn(f, Layers)
  BY DEF IfOf, IntsOn
<1>2. MovedIn(rows, moves, d, i) = SumFunctionOnSet(f, Layers)
  BY SumIs DEF MovedIn
<1>3. IsFiniteSet(Layers)
  BY WarehouseAssumption
<1> HIDE DEF f
<1>4. SumFunctionOnSet(f, Layers) \in Int
  BY <1>1, <1>3, SumInt
<1> QED
  BY <1>1, <1>2, <1>4 DEF f

\* A sum over all layers changes as one of them does.
LEMMA OneLayerChanges ==
  ASSUME NEW f, NEW g, IntsOn(f, Layers), IntsOn(g, Layers), NEW l \in Layers,
         \A x \in Layers \ {l} : g[x] = f[x]
  PROVE  SumFunctionOnSet(g, Layers) = SumFunctionOnSet(f, Layers) - f[l] + g[l]
<1>1. IsFiniteSet(Layers)
  BY WarehouseAssumption
<1> QED
  BY <1>1, SumChange

\* A new layer adds what it holds to its item and its document.
LEMMA LayerAdded ==
  ASSUME NEW rows, RowsOfLayers(rows), NEW l \in Layers, l \notin DOMAIN rows,
         NEW row, IsLayerRow(row),
         NEW moves, \A e \in Docs : \A x \in Layers : moves[e][x] \in Int,
         \A e \in Docs : moves[e][l] = 0,
         NEW rows2, rows2 = Over(Only(l, row), rows)
  PROVE  /\ RowsOfLayers(rows2)
         /\ \A i \in Items :
              /\ LeftIn(rows2, i) = LeftIn(rows, i) + IF row.item = i THEN row.left ELSE 0
              /\ \A d \in Docs :
                   /\ ReceivedIn(rows2, d, i)
                        = ReceivedIn(rows, d, i)
                            + IF row.item = i /\ row.doc = d THEN row.received ELSE 0
                   /\ MovedIn(rows2, moves, d, i) = MovedIn(rows, moves, d, i)
<1>1. /\ DOMAIN rows2 = DOMAIN rows \union {l} /\ rows2[l] = row
      /\ \A x \in DOMAIN rows : rows2[x] = rows[x]
  BY DEF Over, Only
<1>2. RowsOfLayers(rows2)
  BY <1>1 DEF RowsOfLayers
<1>3. ASSUME NEW i \in Items, NEW d \in Docs
      PROVE  /\ LeftIn(rows2, i) = LeftIn(rows, i) + IF row.item = i THEN row.left ELSE 0
             /\ ReceivedIn(rows2, d, i)
                  = ReceivedIn(rows, d, i) + IF row.item = i /\ row.doc = d THEN row.received ELSE 0
             /\ MovedIn(rows2, moves, d, i) = MovedIn(rows, moves, d, i)
  <2> DEFINE f1 == [x \in Layers |-> IfOf(rows, x, i, rows[x].left)]
             g1 == [x \in Layers |-> IfOf(rows2, x, i, rows2[x].left)]
             f2 == [x \in Layers |-> IfOf(rows, x, i, IF rows[x].doc = d THEN rows[x].received ELSE 0)]
             g2 == [x \in Layers |-> IfOf(rows2, x, i, IF rows2[x].doc = d THEN rows2[x].received ELSE 0)]
             f3 == [x \in Layers |-> IfOf(rows, x, i, moves[d][x])]
             g3 == [x \in Layers |-> IfOf(rows2, x, i, moves[d][x])]
  <2>1. /\ IntsOn(f1, Layers) /\ IntsOn(f2, Layers) /\ IntsOn(f3, Layers)
        /\ LeftIn(rows, i) \in Int /\ ReceivedIn(rows, d, i) \in Int /\ MovedIn(rows, moves, d, i) \in Int
        /\ LeftIn(rows, i) = SumFunctionOnSet(f1, Layers)
        /\ ReceivedIn(rows, d, i) = SumFunctionOnSet(f2, Layers)
        /\ MovedIn(rows, moves, d, i) = SumFunctionOnSet(f3, Layers)
    <3>1. \A x \in Layers : moves[d][x] \in Int
      OBVIOUS
    <3>2. IntsOn(f1, Layers) /\ LeftIn(rows, i) \in Int /\ LeftIn(rows, i) = SumFunctionOnSet(f1, Layers)
      BY LeftIs
    <3>3. /\ IntsOn(f2, Layers) /\ ReceivedIn(rows, d, i) \in Int
          /\ ReceivedIn(rows, d, i) = SumFunctionOnSet(f2, Layers)
      BY ReceivedIs
    <3>4. /\ IntsOn(f3, Layers) /\ MovedIn(rows, moves, d, i) \in Int
          /\ MovedIn(rows, moves, d, i) = SumFunctionOnSet(f3, Layers)
      BY <3>1, MovedIs
    <3> QED
      BY <3>2, <3>3, <3>4
  <2>2. /\ IntsOn(g1, Layers) /\ IntsOn(g2, Layers) /\ IntsOn(g3, Layers)
        /\ LeftIn(rows2, i) = SumFunctionOnSet(g1, Layers)
        /\ ReceivedIn(rows2, d, i) = SumFunctionOnSet(g2, Layers)
        /\ MovedIn(rows2, moves, d, i) = SumFunctionOnSet(g3, Layers)
    <3>1. \A x \in Layers : moves[d][x] \in Int
      OBVIOUS
    <3>2. IntsOn(g1, Layers) /\ LeftIn(rows2, i) = SumFunctionOnSet(g1, Layers)
      BY <1>2, LeftIs
    <3>3. IntsOn(g2, Layers) /\ ReceivedIn(rows2, d, i) = SumFunctionOnSet(g2, Layers)
      BY <1>2, ReceivedIs
    <3>4. IntsOn(g3, Layers) /\ MovedIn(rows2, moves, d, i) = SumFunctionOnSet(g3, Layers)
      BY <3>1, MovedIs
    <3> QED
      BY <3>2, <3>3, <3>4
  <2>3. /\ \A x \in Layers \ {l} : g1[x] = f1[x]
        /\ \A x \in Layers \ {l} : g2[x] = f2[x]
        /\ \A x \in Layers \ {l} : g3[x] = f3[x]
    BY <1>1 DEF IfOf
  <2>4. f1[l] = 0 /\ f2[l] = 0 /\ f3[l] = 0
    BY DEF IfOf
  <2>5. /\ g1[l] = IF row.item = i THEN row.left ELSE 0
        /\ g2[l] = IF row.item = i /\ row.doc = d THEN row.received ELSE 0
        /\ g3[l] = 0
    BY <1>1 DEF IfOf
  <2> HIDE DEF f1, f2, f3, g1, g2, g3
  <2>7. /\ SumFunctionOnSet(g1, Layers) = SumFunctionOnSet(f1, Layers) - f1[l] + g1[l]
        /\ SumFunctionOnSet(g2, Layers) = SumFunctionOnSet(f2, Layers) - f2[l] + g2[l]
        /\ SumFunctionOnSet(g3, Layers) = SumFunctionOnSet(f3, Layers) - f3[l] + g3[l]
    BY <2>1, <2>2, <2>3, OneLayerChanges
  <2>8. row.left \in Int /\ row.received \in Int
    BY LayerNumbers
  <2> QED
    BY <2>1, <2>2, <2>4, <2>5, <2>7, <2>8
<1>4. ASSUME NEW i \in Items, Docs = {}
      PROVE  LeftIn(rows2, i) = LeftIn(rows, i) + IF row.item = i THEN row.left ELSE 0
  BY <1>4, LayerNumbers
<1> QED
  BY <1>2, <1>3, <1>4

\* What is taken from some layers of an item, each of which has it.
Takes(take, rows, item) ==
  /\ take \in [Layers -> Nat]
  /\ \A l \in Layers : take[l] # 0 =>
       l \in DOMAIN rows /\ rows[l].item = item /\ take[l] <= rows[l].left
TakenFrom(rows, take) == [l \in DOMAIN rows |-> [rows[l] EXCEPT !.left = @ - take[l]]]
MovesPlus(moves, d, take) ==
  [e \in Docs |-> [l \in Layers |-> moves[e][l] + IF e = d THEN take[l] ELSE 0]]

\* Layers that gave are rows, which differ only in what is left.
LEMMA RowsTaken ==
  ASSUME NEW rows, RowsOfLayers(rows), NEW item, NEW take, Takes(take, rows, item)
  PROVE  /\ RowsOfLayers(TakenFrom(rows, take))
         /\ DOMAIN TakenFrom(rows, take) = DOMAIN rows
         /\ \A l \in DOMAIN rows : LET row == TakenFrom(rows, take)[l] IN
              /\ row.left = rows[l].left - take[l]
              /\ row.item = rows[l].item /\ row.doc = rows[l].doc
              /\ row.received = rows[l].received /\ row.stamp = rows[l].stamp
<1>1. ASSUME NEW l \in DOMAIN rows
      PROVE  LET row == TakenFrom(rows, take)[l] IN
             /\ IsLayerRow(row)
             /\ row.left = rows[l].left - take[l]
             /\ row.item = rows[l].item /\ row.doc = rows[l].doc
             /\ row.received = rows[l].received /\ row.stamp = rows[l].stamp
  <2>1. TakenFrom(rows, take)[l] = [rows[l] EXCEPT !.left = rows[l].left - take[l]]
    BY DEF TakenFrom
  <2>2. rows[l] \in LayerRow /\ rows[l].left <= rows[l].received
    BY DEF RowsOfLayers, IsLayerRow
  <2>3. rows[l].left \in Nat /\ rows[l].received \in Nat
    BY <2>2 DEF LayerRow
  <2>4. l \in Layers /\ take[l] \in Nat /\ take[l] <= rows[l].left
    BY <2>3 DEF RowsOfLayers, Takes
  <2> DEFINE n == rows[l].left - take[l]
  <2>5. n \in Nat /\ n <= rows[l].received
    BY <2>2, <2>3, <2>4
  <2> HIDE DEF n
  <2>6. /\ [rows[l] EXCEPT !.left = n] \in LayerRow
        /\ [rows[l] EXCEPT !.left = n].left = n
        /\ [rows[l] EXCEPT !.left = n].received = rows[l].received
        /\ [rows[l] EXCEPT !.left = n].item = rows[l].item
        /\ [rows[l] EXCEPT !.left = n].doc = rows[l].doc
        /\ [rows[l] EXCEPT !.left = n].stamp = rows[l].stamp
    BY <2>2, <2>5 DEF LayerRow
  <2> QED
    BY <2>1, <2>5, <2>6 DEF IsLayerRow, n
<1>2. DOMAIN TakenFrom(rows, take) = DOMAIN rows
  BY DEF TakenFrom
<1> HIDE DEF TakenFrom
<1> QED
  BY <1>1, <1>2 DEF RowsOfLayers

\* Taking changes the stock of the item, and the movements of the document.
LEMMA LayersGive ==
  ASSUME NEW rows, RowsOfLayers(rows), NEW item, NEW take, Takes(take, rows, item),
         NEW moves, \A e \in Docs : moves[e] \in [Layers -> Int],
         NEW d \in Docs,
         NEW rows2, rows2 = TakenFrom(rows, take),
         NEW moves2, moves2 = MovesPlus(moves, d, take),
         NEW sum, sum = SumFunctionOnSet(take, Layers)
  PROVE  /\ sum \in Int
         /\ \A i \in Items :
              /\ LeftIn(rows2, i) = LeftIn(rows, i) - IF item = i THEN sum ELSE 0
              /\ \A e \in Docs :
                   /\ ReceivedIn(rows2, e, i) = ReceivedIn(rows, e, i)
                   /\ MovedIn(rows2, moves2, e, i)
                        = MovedIn(rows, moves, e, i) + IF e = d /\ item = i THEN sum ELSE 0
         /\ \A e \in Docs : SumFunction(moves2[e]) = SumFunction(moves[e]) + IF e = d THEN sum ELSE 0
<1>f. IsFiniteSet(Layers)
  BY WarehouseAssumption
<1>t. IntsOn(take, Layers) /\ \A l \in Layers : take[l] \in Nat
  BY DEF Takes, IntsOn
<1>s. sum \in Int
  BY <1>f, <1>t, SumInt
<1>1. /\ RowsOfLayers(rows2) /\ DOMAIN rows2 = DOMAIN rows
      /\ \A l \in DOMAIN rows : /\ rows2[l].left = rows[l].left - take[l]
                                /\ rows2[l].item = rows[l].item /\ rows2[l].doc = rows[l].doc
                                /\ rows2[l].received = rows[l].received
  BY RowsTaken
<1>2. \A e \in Docs : /\ moves2[e] \in [Layers -> Int]
                      /\ \A l \in Layers : moves2[e][l] = moves[e][l] + IF e = d THEN take[l] ELSE 0
  BY <1>t DEF MovesPlus
<1>3. \A l \in Layers : take[l] # 0 => l \in DOMAIN rows /\ rows[l].item = item
  BY DEF Takes
<1>4. ASSUME NEW i \in Items, NEW e \in Docs
      PROVE  /\ LeftIn(rows2, i) = LeftIn(rows, i) - IF item = i THEN sum ELSE 0
             /\ ReceivedIn(rows2, e, i) = ReceivedIn(rows, e, i)
             /\ MovedIn(rows2, moves2, e, i)
                  = MovedIn(rows, moves, e, i) + IF e = d /\ item = i THEN sum ELSE 0
  <2> DEFINE f1 == [x \in Layers |-> IfOf(rows, x, i, rows[x].left)]
             g1 == [x \in Layers |-> IfOf(rows2, x, i, rows2[x].left)]
             f2 == [x \in Layers |-> IfOf(rows, x, i, IF rows[x].doc = e THEN rows[x].received ELSE 0)]
             g2 == [x \in Layers |-> IfOf(rows2, x, i, IF rows2[x].doc = e THEN rows2[x].received ELSE 0)]
             f3 == [x \in Layers |-> IfOf(rows, x, i, moves[e][x])]
             g3 == [x \in Layers |-> IfOf(rows2, x, i, moves2[e][x])]
  <2>1. /\ IntsOn(f1, Layers) /\ IntsOn(f2, Layers) /\ IntsOn(f3, Layers)
        /\ LeftIn(rows, i) \in Int /\ ReceivedIn(rows, e, i) \in Int /\ MovedIn(rows, moves, e, i) \in Int
        /\ LeftIn(rows, i) = SumFunctionOnSet(f1, Layers)
        /\ ReceivedIn(rows, e, i) = SumFunctionOnSet(f2, Layers)
        /\ MovedIn(rows, moves, e, i) = SumFunctionOnSet(f3, Layers)
    <3>1. \A l \in Layers : moves[e][l] \in Int
      OBVIOUS
    <3>2. IntsOn(f1, Layers) /\ LeftIn(rows, i) \in Int /\ LeftIn(rows, i) = SumFunctionOnSet(f1, Layers)
      BY LeftIs
    <3>3. /\ IntsOn(f2, Layers) /\ ReceivedIn(rows, e, i) \in Int
          /\ ReceivedIn(rows, e, i) = SumFunctionOnSet(f2, Layers)
      BY ReceivedIs
    <3>4. /\ IntsOn(f3, Layers) /\ MovedIn(rows, moves, e, i) \in Int
          /\ MovedIn(rows, moves, e, i) = SumFunctionOnSet(f3, Layers)
      BY <3>1, MovedIs
    <3> QED
      BY <3>2, <3>3, <3>4
  <2>2. /\ IntsOn(g1, Layers) /\ IntsOn(g2, Layers) /\ IntsOn(g3, Layers)
        /\ LeftIn(rows2, i) = SumFunctionOnSet(g1, Layers)
        /\ ReceivedIn(rows2, e, i) = SumFunctionOnSet(g2, Layers)
        /\ MovedIn(rows2, moves2, e, i) = SumFunctionOnSet(g3, Layers)
    <3>1. \A l \in Layers : moves2[e][l] \in Int
      BY <1>2
    <3>2. IntsOn(g1, Layers) /\ LeftIn(rows2, i) = SumFunctionOnSet(g1, Layers)
      BY <1>1, LeftIs
    <3>3. IntsOn(g2, Layers) /\ ReceivedIn(rows2, e, i) = SumFunctionOnSet(g2, Layers)
      BY <1>1, ReceivedIs
    <3>4. IntsOn(g3, Layers) /\ MovedIn(rows2, moves2, e, i) = SumFunctionOnSet(g3, Layers)
      BY <3>1, MovedIs
    <3> QED
      BY <3>2, <3>3, <3>4
  <2>3. g2 = f2
    BY <1>1 DEF IfOf
  <2>4. \A x \in Layers : x \in DOMAIN rows => rows[x].left \in Int
    BY LayerNumbers DEF RowsOfLayers
  <2>5. item = i => \A x \in Layers : f1[x] = g1[x] + take[x]
    BY <1>1, <1>3, <1>t, <2>4 DEF IfOf
  <2>6. item # i => \A x \in Layers : g1[x] = f1[x]
    BY <1>1, <1>3, <1>t, <2>4 DEF IfOf
  <2>7. item = i /\ e = d => \A x \in Layers : g3[x] = f3[x] + take[x]
    BY <1>1, <1>2, <1>3, <1>t DEF IfOf
  <2>8. ~(item = i /\ e = d) => \A x \in Layers : g3[x] = f3[x]
    BY <1>1, <1>2, <1>3, <1>t DEF IfOf
  <2> HIDE DEF f1, f2, f3, g1, g2, g3
  <2>10. /\ SumFunctionOnSet(g1, Layers) \in Int
         /\ SumFunctionOnSet(g3, Layers) \in Int
    BY <1>f, <2>2, SumInt
  <2>11. LeftIn(rows2, i) = LeftIn(rows, i) - IF item = i THEN sum ELSE 0
    <3>1. CASE item = i
      <4>1. SumFunctionOnSet(f1, Layers) = SumFunctionOnSet(g1, Layers) + SumFunctionOnSet(take, Layers)
        BY <1>f, <1>t, <2>2, <2>5, <3>1, SumPlus
      <4> QED
        BY <1>s, <2>1, <2>2, <2>10, <3>1, <4>1
    <3>2. CASE item # i
      <4>1. SumFunctionOnSet(g1, Layers) = SumFunctionOnSet(f1, Layers)
        BY <1>f, <2>2, <2>6, <3>2, SumSame
      <4> QED
        BY <2>1, <2>2, <3>2, <4>1
    <3> QED
      BY <3>1, <3>2
  <2>12. MovedIn(rows2, moves2, e, i) = MovedIn(rows, moves, e, i) + IF e = d /\ item = i THEN sum ELSE 0
    <3>1. CASE item = i /\ e = d
      <4>1. SumFunctionOnSet(g3, Layers) = SumFunctionOnSet(f3, Layers) + SumFunctionOnSet(take, Layers)
        BY <1>f, <1>t, <2>1, <2>7, <3>1, SumPlus
      <4> QED
        BY <2>1, <2>2, <3>1, <4>1
    <3>2. CASE ~(item = i /\ e = d)
      <4>1. SumFunctionOnSet(g3, Layers) = SumFunctionOnSet(f3, Layers)
        BY <1>f, <2>2, <2>8, <3>2, SumSame
      <4> QED
        BY <2>1, <2>2, <3>2, <4>1
    <3> QED
      BY <3>1, <3>2
  <2> QED
    BY <2>1, <2>2, <2>3, <2>11, <2>12
<1>5. ASSUME NEW e \in Docs
      PROVE  SumFunction(moves2[e]) = SumFunction(moves[e]) + IF e = d THEN sum ELSE 0
  <2>1. /\ SumFunction(moves2[e]) = SumFunctionOnSet(moves2[e], Layers)
        /\ SumFunction(moves[e]) = SumFunctionOnSet(moves[e], Layers)
    BY <1>2, SumIs
  <2>2. IntsOn(moves[e], Layers) /\ IntsOn(moves2[e], Layers)
    BY <1>2 DEF IntsOn
  <2>3. CASE e = d
    <3>1. \A x \in Layers : moves2[e][x] = moves[e][x] + take[x]
      BY <1>2, <2>3
    <3>2. SumFunctionOnSet(moves2[e], Layers)
            = SumFunctionOnSet(moves[e], Layers) + SumFunctionOnSet(take, Layers)
      BY <1>f, <1>t, <2>2, <3>1, SumPlus
    <3> QED
      BY <2>1, <2>3, <3>2
  <2>4. CASE e # d
    <3>1. \A x \in Layers : moves2[e][x] = moves[e][x]
      BY <1>2, <2>4
    <3>2. SumFunctionOnSet(moves2[e], Layers) = SumFunctionOnSet(moves[e], Layers)
      BY <1>f, <2>2, <3>1, SumSame
    <3>3. SumFunctionOnSet(moves[e], Layers) \in Int
      BY <1>f, <2>2, SumInt
    <3> QED
      BY <2>1, <2>4, <3>2, <3>3
  <2> QED
    BY <2>3, <2>4
<1> QED
  BY <1>s, <1>4, <1>5

-----------------------------------------------------------------------------
(* The books of a document, line by line *)

\* The lines of a document.
LEMMA LineNumbers ==
  ASSUME doc \in [Docs -> DocumentRow], NEW d \in Docs, NEW n \in DOMAIN doc[d].lines
  PROVE  /\ doc[d].lines[n].item \in Items
         /\ Delta(doc[d].kind, doc[d].lines[n]) \in Int
<1>1. doc[d].lines \in Seq(LineRow)
  BY DEF DocumentRow, LineList
<1>2. doc[d].lines[n] \in LineRow
  BY <1>1
<1>3. doc[d].lines[n].item \in Items /\ doc[d].lines[n].qty \in Int
  BY <1>2 DEF LineRow
<1> QED
  BY <1>3 DEF Delta

\* What a line takes from the stock.
LEMMA MaxIs ==
  ASSUME NEW n \in Int
  PROVE  Max({0, n}) = IF n > 0 THEN n ELSE 0
BY DEF Max

\* A sum over the first lines, as one over some more of them.
LEMMA SumOfFirst ==
  ASSUME NEW f, NEW k \in Nat, IntsOn(f, 1..(k + 1))
  PROVE  /\ SumFunctionOnSet([n \in 1..(k + 1) |-> f[n]], 1..(k + 1))
              = SumFunctionOnSet([n \in 1..k |-> f[n]], 1..k) + f[k + 1]
         /\ SumFunctionOnSet([n \in 1..k |-> f[n]], 1..k) \in Int
<1> DEFINE g == [n \in 1..k |-> f[n]]
           h == [n \in 1..(k + 1) |-> f[n]]
           S == 1..k
           T == 1..(k + 1)
<1>1. IsFiniteSet(S)
  BY FS_Interval
<1>2. IsFiniteSet(T)
  <2>1. k + 1 \in Int
    OBVIOUS
  <2> QED
    BY <2>1, FS_Interval
<1>3. IntsOn(g, S) /\ IntsOn(h, T) /\ (\A n \in S : g[n] = f[n]) /\ (\A n \in T : h[n] = f[n])
  BY DEF IntsOn
<1>4. /\ SumFunctionOnSet(f, T) = SumFunctionOnSet(f, S) + f[k + 1]
      /\ SumFunctionOnSet(f, S) \in Int
  BY SumNext
<1> HIDE DEF g, h, S, T
<1>5. SumFunctionOnSet(g, S) = SumFunctionOnSet(f, S)
  BY <1>1, <1>3, SumSame
<1>6. SumFunctionOnSet(h, T) = SumFunctionOnSet(f, T)
  BY <1>2, <1>3, SumSame
<1>7. /\ SumFunctionOnSet(h, T) = SumFunctionOnSet(g, S) + f[k + 1]
      /\ SumFunctionOnSet(g, S) \in Int
  BY <1>4, <1>5, <1>6
<1> QED
  BY <1>7 DEF g, h, S, T

\* The next line of a document.
NextLine(d, k, item, delta) ==
  /\ k \in Nat /\ k + 1 \in DOMAIN doc[d].lines
  /\ item = doc[d].lines[k + 1].item
  /\ delta = Delta(doc[d].kind, doc[d].lines[k + 1])
LEMMA NextLineIs ==
  ASSUME doc \in [Docs -> DocumentRow], NEW d \in Docs, NEW k, NEW item, NEW delta,
         NextLine(d, k, item, delta)
  PROVE  k \in Nat /\ item \in Items /\ delta \in Int
BY LineNumbers DEF NextLine

\* One more line.
LEMMA OneMoreLine ==
  ASSUME doc \in [Docs -> DocumentRow], NEW d \in Docs, NEW k, NEW item, NEW delta,
         NextLine(d, k, item, delta)
  PROVE  /\ IssuedBy(d, k + 1) = IssuedBy(d, k) + IF delta < 0 THEN -delta ELSE 0
         /\ IssuedBy(d, k) \in Int
         /\ \A i \in Items : /\ OrderedBy(d, i, k + 1)
                                  = OrderedBy(d, i, k) + IF item = i THEN delta ELSE 0
                             /\ OrderedBy(d, i, k) \in Int
<1>0. /\ k \in Nat /\ k + 1 \in DOMAIN doc[d].lines
      /\ item = doc[d].lines[k + 1].item
      /\ delta = Delta(doc[d].kind, doc[d].lines[k + 1])
  BY DEF NextLine
<1> DEFINE lines == doc[d].lines
           D(n) == Delta(doc[d].kind, lines[n])
<1>1. 1..(k + 1) \subseteq DOMAIN lines
  <2>1. lines \in Seq(LineRow)
    BY DEF DocumentRow, LineList
  <2>2. DOMAIN lines = 1..Len(lines) /\ Len(lines) \in Nat
    BY <2>1
  <2>3. \A N \in Nat : k + 1 \in 1..N => 1..(k + 1) \subseteq 1..N
    BY <1>0
  <2> QED
    BY <1>0, <2>2, <2>3
<1>2. \A n \in 1..(k + 1) : D(n) \in Int
  BY <1>0, <1>1, LineNumbers
<1>3. ASSUME NEW i \in Items
      PROVE  /\ OrderedBy(d, i, k + 1)
                  = OrderedBy(d, i, k) + IF item = i THEN delta ELSE 0
             /\ OrderedBy(d, i, k) \in Int
  <2> DEFINE f == [n \in 1..(k + 1) |-> IF lines[n].item = i THEN D(n) ELSE 0]
  <2>1. IntsOn(f, 1..(k + 1))
    BY <1>2 DEF IntsOn
  <2>2. /\ [n \in 1..(k + 1) |-> IF lines[n].item = i THEN D(n) ELSE 0] = [n \in 1..(k + 1) |-> f[n]]
        /\ [n \in 1..k |-> IF lines[n].item = i THEN D(n) ELSE 0] = [n \in 1..k |-> f[n]]
    BY <1>0
  <2>3. /\ OrderedBy(d, i, k + 1) = SumFunctionOnSet([n \in 1..(k + 1) |-> f[n]], 1..(k + 1))
        /\ OrderedBy(d, i, k) = SumFunctionOnSet([n \in 1..k |-> f[n]], 1..k)
    BY <2>2, SumIs DEF OrderedBy
  <2>4. f[k + 1] = IF item = i THEN delta ELSE 0
    BY <1>0
  <2> HIDE DEF f
  <2> QED
    BY <1>0, <2>1, <2>3, <2>4, SumOfFirst
<1>4. /\ IssuedBy(d, k + 1) = IssuedBy(d, k) + IF delta < 0 THEN -delta ELSE 0
      /\ IssuedBy(d, k) \in Int
  <2> DEFINE f == [n \in 1..(k + 1) |-> Max({0, -D(n)})]
  <2>1. \A n \in 1..(k + 1) : f[n] = IF D(n) < 0 THEN -D(n) ELSE 0
    <3>1. ASSUME NEW n \in 1..(k + 1) PROVE f[n] = IF D(n) < 0 THEN -D(n) ELSE 0
      <4> DEFINE x == D(n)
      <4>1. x \in Int /\ f[n] = Max({0, -x})
        BY <1>2
      <4> HIDE DEF x, f
      <4>2. -x \in Int
        BY <4>1
      <4>3. Max({0, -x}) = IF -x > 0 THEN -x ELSE 0
        BY <4>2, MaxIs
      <4>4. f[n] = IF x < 0 THEN -x ELSE 0
        BY <4>1, <4>2, <4>3
      <4> QED
        BY <4>4 DEF x
    <3> QED
      BY <3>1
  <2>2. IntsOn(f, 1..(k + 1))
    <3> HIDE DEF f
    <3> QED
      BY <1>2, <2>1 DEF IntsOn
  <2>3. /\ [n \in 1..(k + 1) |-> Max({0, -D(n)})] = [n \in 1..(k + 1) |-> f[n]]
        /\ [n \in 1..k |-> Max({0, -D(n)})] = [n \in 1..k |-> f[n]]
    BY <1>0
  <2>4. /\ IssuedBy(d, k + 1) = SumFunctionOnSet([n \in 1..(k + 1) |-> f[n]], 1..(k + 1))
        /\ IssuedBy(d, k) = SumFunctionOnSet([n \in 1..k |-> f[n]], 1..k)
    BY <2>3, SumIs DEF IssuedBy
  <2>5. f[k + 1] = IF delta < 0 THEN -delta ELSE 0
    <3>1. k + 1 \in 1..(k + 1) /\ delta = D(k + 1)
      BY <1>0
    <3> HIDE DEF f, D
    <3> QED
      BY <2>1, <3>1
  <2> HIDE DEF f
  <2> QED
    BY <1>0, <2>2, <2>4, <2>5, SumOfFirst
<1> QED
  BY <1>3, <1>4

\* No lines are nothing.
LEMMA NoLines ==
  ASSUME NEW d, NEW i
  PROVE  OrderedBy(d, i, 0) = 0 /\ IssuedBy(d, 0) = 0
<1>1. 1..0 = {}
  OBVIOUS
<1> QED
  BY <1>1, SumIs, SumEmpty DEF OrderedBy, IssuedBy

-----------------------------------------------------------------------------
(* A line keeps the books *)

\* Balances, movements and lines that are numbers.
BookNumbers(balances, moves) ==
  /\ \A i \in DOMAIN balances : balances[i] \in Int
  /\ \A e \in Docs : moves[e] \in [Layers -> Int]
NotPending == [i \in Items |-> 0]
PendingLine(item, delta) == [i \in Items |-> IF item = i THEN delta ELSE 0]
Advanced(done, d, k) == [e \in Docs |-> IF e = d THEN k ELSE done[e]]

\* The stock changes by the quantity of the line, which is then pending.
LEMMA StockKept ==
  ASSUME NEW rows, NEW rows2, NEW balances, NEW item, NEW delta \in Int,
         \A i \in DOMAIN balances : balances[i] \in Int,
         \A i \in Items : LeftIn(rows2, i) = LeftIn(rows, i) + IF item = i THEN delta ELSE 0,
         StockAgrees(rows, balances, NotPending)
  PROVE  StockAgrees(rows2, balances, PendingLine(item, delta))
<1> SUFFICES ASSUME NEW i \in Items
             PROVE  LeftIn(rows2, i) = Quantity(balances, i) + PendingLine(item, delta)[i]
  BY DEF StockAgrees
<1>1. LeftIn(rows, i) = Quantity(balances, i) + 0
  BY DEF StockAgrees, NotPending
<1>2. Quantity(balances, i) \in Int
  BY DEF Quantity
<1>3. LeftIn(rows2, i) = LeftIn(rows, i) + IF item = i THEN delta ELSE 0
  OBVIOUS
<1>4. PendingLine(item, delta)[i] = IF item = i THEN delta ELSE 0
  BY DEF PendingLine
<1> QED
  BY <1>1, <1>2, <1>3, <1>4

\* What the documents moved changes by a line of d.
LineIsMoved(rows, moves, rows2, moves2, d, item, delta) ==
  \A e \in Docs :
    /\ \A i \in Items :
         /\ ReceivedIn(rows2, e, i) - MovedIn(rows2, moves2, e, i)
              = ReceivedIn(rows, e, i) - MovedIn(rows, moves, e, i)
                  + IF e = d /\ item = i THEN delta ELSE 0
         /\ ReceivedIn(rows, e, i) - MovedIn(rows, moves, e, i) \in Int
    /\ SumFunction(moves[e]) \in Int
    /\ SumFunction(moves2[e]) = SumFunction(moves[e]) + IF e = d /\ delta < 0 THEN -delta ELSE 0
LEMMA LinesKept ==
  ASSUME doc \in [Docs -> DocumentRow],
         NEW rows, NEW rows2, NEW moves, NEW moves2, NEW done,
         NEW d \in Docs, NEW k, NEW item, NEW delta, NextLine(d, k, item, delta), done[d] = k,
         LineIsMoved(rows, moves, rows2, moves2, d, item, delta),
         LinesAreMoved(rows, moves, done)
  PROVE  LinesAreMoved(rows2, moves2, Advanced(done, d, k + 1))
<1> SUFFICES ASSUME NEW e \in Docs
             PROVE  /\ \A i \in Items : ReceivedIn(rows2, e, i) - MovedIn(rows2, moves2, e, i)
                                          = OrderedBy(e, i, Advanced(done, d, k + 1)[e])
                    /\ SumFunction(moves2[e]) = IssuedBy(e, Advanced(done, d, k + 1)[e])
  BY DEF LinesAreMoved
<1>1. /\ \A i \in Items : ReceivedIn(rows, e, i) - MovedIn(rows, moves, e, i)
                            = OrderedBy(e, i, done[e])
      /\ SumFunction(moves[e]) = IssuedBy(e, done[e])
  BY DEF LinesAreMoved
<1>2. Advanced(done, d, k + 1)[e] = IF e = d THEN k + 1 ELSE done[e]
  BY DEF Advanced
<1>n. delta \in Int
  BY NextLineIs
<1>3. CASE e = d
  <2>1. /\ IssuedBy(d, k + 1) = IssuedBy(d, k) + IF delta < 0 THEN -delta ELSE 0
        /\ IssuedBy(d, k) \in Int
        /\ \A i \in Items : /\ OrderedBy(d, i, k + 1)
                                 = OrderedBy(d, i, k) + IF item = i THEN delta ELSE 0
                            /\ OrderedBy(d, i, k) \in Int
    BY OneMoreLine
  <2>2. ASSUME NEW i \in Items
        PROVE  ReceivedIn(rows2, e, i) - MovedIn(rows2, moves2, e, i) = OrderedBy(e, i, k + 1)
    <3>1. ReceivedIn(rows2, e, i) - MovedIn(rows2, moves2, e, i)
            = ReceivedIn(rows, e, i) - MovedIn(rows, moves, e, i) + IF e = d /\ item = i THEN delta ELSE 0
      BY DEF LineIsMoved
    <3>2. ReceivedIn(rows, e, i) - MovedIn(rows, moves, e, i) = OrderedBy(d, i, k)
      BY <1>1, <1>3
    <3>3. OrderedBy(d, i, k + 1) = OrderedBy(d, i, k) + IF item = i THEN delta ELSE 0
      BY <2>1
    <3> QED
      BY <1>3, <3>1, <3>2, <3>3
  <2>3. SumFunction(moves2[e]) = IssuedBy(e, k + 1)
    <3>1. SumFunction(moves2[e]) = SumFunction(moves[e]) + IF e = d /\ delta < 0 THEN -delta ELSE 0
      BY DEF LineIsMoved
    <3>2. SumFunction(moves[e]) = IssuedBy(d, k)
      BY <1>1, <1>3
    <3> QED
      BY <1>3, <2>1, <3>1, <3>2
  <2> QED
    BY <1>2, <1>3, <2>2, <2>3
<1>4. CASE e # d
  <2>1. ASSUME NEW i \in Items
        PROVE  ReceivedIn(rows2, e, i) - MovedIn(rows2, moves2, e, i) = OrderedBy(e, i, done[e])
    <3>1. ReceivedIn(rows2, e, i) - MovedIn(rows2, moves2, e, i)
            = ReceivedIn(rows, e, i) - MovedIn(rows, moves, e, i) + 0
      BY <1>4 DEF LineIsMoved
    <3> QED
      BY <1>1, <3>1 DEF LineIsMoved
  <2>2. SumFunction(moves2[e]) = SumFunction(moves[e]) + 0
    BY <1>4 DEF LineIsMoved
  <2>3. SumFunction(moves2[e]) = IssuedBy(e, done[e])
    BY <1>1, <2>2 DEF LineIsMoved
  <2> QED
    BY <1>2, <1>4, <2>1, <2>3
<1> QED
  BY <1>3, <1>4

\* A new layer, of the youngest age, with all it received.
FreshRow(row, d, item, delta) ==
  /\ IsLayerRow(row) /\ row.doc = d /\ row.item = item /\ row.received = delta /\ row.left = delta
  /\ row.stamp = requests

\* It has moved nothing, ...
LEMMA FreshMoves ==
  ASSUME NEW rows, NEW moves, MovesAddUp(rows, moves), NEW l \in Layers, l \notin DOMAIN rows,
         NEW row, NEW d, NEW item, NEW delta \in Int, FreshRow(row, d, item, delta)
  PROVE  MovesAddUp(Over(Only(l, row), rows), moves)
<1> DEFINE rows2 == Over(Only(l, row), rows)
           f == [e \in Docs |-> moves[e][l]]
<1>1. /\ DOMAIN rows2 = DOMAIN rows \union {l} /\ rows2[l] = row
      /\ \A x \in DOMAIN rows : rows2[x] = rows[x]
  BY DEF Over, Only
<1>2. IsFiniteSet(Docs) /\ (\A e \in Docs : f[e] = 0) /\ DOMAIN f = Docs
  BY WarehouseAssumption DEF MovesAddUp
<1>3. SumFunction(f) = SumFunctionOnSet(f, Docs)
  BY <1>2, SumIs
<1> HIDE DEF f, rows2
<1>4. SumFunctionOnSet(f, Docs) = 0
  BY <1>2, SumZero
<1>5. row.received - row.left = 0
  BY DEF FreshRow
<1>6. rows2[l].received - rows2[l].left = SumFunction([e \in Docs |-> moves[e][l]])
  BY <1>1, <1>3, <1>4, <1>5 DEF f
<1>7. MovesAddUp(rows2, moves)
  BY <1>1, <1>6 DEF MovesAddUp
<1> QED
  BY <1>7 DEF rows2

\* ... and no layer is younger.
LEMMA FreshIsYoungest ==
  ASSUME requests \in Nat, NEW rows, RowsOfLayers(rows), OldestGoFirst(rows),
         NEW l \in Layers, l \notin DOMAIN rows,
         NEW row, NEW d, NEW item, NEW delta \in Int, FreshRow(row, d, item, delta)
  PROVE  OldestGoFirst(Over(Only(l, row), rows))
<1> DEFINE rows2 == Over(Only(l, row), rows)
<1>1. /\ DOMAIN rows2 = DOMAIN rows \union {l} /\ rows2[l] = row
      /\ \A x \in DOMAIN rows : rows2[x] = rows[x]
  BY DEF Over, Only
<1> HIDE DEF rows2
<1>2. row.stamp = requests /\ row.left = delta /\ row.received = delta
  BY DEF FreshRow
<1>3. \A x \in DOMAIN rows : rows[x].stamp <= requests /\ rows[x].stamp \in Nat
  BY LayerNumbers DEF OldestGoFirst, RowsOfLayers
<1>4. \A x \in DOMAIN rows2 : rows2[x].stamp <= requests /\ rows2[x].stamp \in Nat
  BY <1>1, <1>2, <1>3
<1>5. ASSUME NEW x \in DOMAIN rows2, NEW m \in DOMAIN rows2,
             rows2[x].item = rows2[m].item, rows2[x].stamp < rows2[m].stamp,
             rows2[m].left < rows2[m].received
      PROVE  rows2[x].left = 0
  <2>1. m # l
    BY <1>1, <1>2, <1>5
  <2>2. x # l
    <3>1. SUFFICES ASSUME x = l PROVE FALSE
      OBVIOUS
    <3>2. requests < rows2[m].stamp /\ rows2[m].stamp <= requests /\ rows2[m].stamp \in Nat
      BY <1>1, <1>2, <1>4, <1>5, <3>1
    <3> QED
      BY <3>2
  <2>3. x \in DOMAIN rows /\ m \in DOMAIN rows /\ rows2[x] = rows[x] /\ rows2[m] = rows[m]
    BY <1>1, <2>1, <2>2
  <2> QED
    BY <1>5, <2>3 DEF OldestGoFirst
<1>6. OldestGoFirst(rows2)
  BY <1>4, <1>5 DEF OldestGoFirst
<1> QED
  BY <1>6 DEF rows2

\* The sums of the movements are integers.
LEMMA MovesSum ==
  ASSUME NEW f \in [Layers -> Int]
  PROVE  SumFunction(f) \in Int
<1>1. IsFiniteSet(Layers) /\ IntsOn(f, Layers) /\ SumFunction(f) = SumFunctionOnSet(f, Layers)
  BY SumIs, WarehouseAssumption DEF IntsOn
<1> QED
  BY <1>1, SumInt

\* A new layer of the next line keeps the books.
LEMMA LayerKeepsBooks ==
  ASSUME doc \in [Docs -> DocumentRow], requests \in Nat,
         NEW rows, RowsOfLayers(rows), NEW balances, NEW moves, NEW done,
         BookNumbers(balances, moves), Books(rows, balances, moves, done, NotPending),
         NEW l \in Layers, l \notin DOMAIN rows,
         NEW d \in Docs, NEW k, NEW item, NEW delta, NextLine(d, k, item, delta), delta > 0, done[d] = k,
         NEW row, FreshRow(row, d, item, delta)
  PROVE  LET rows2 == Over(Only(l, row), rows) IN
         /\ Books(rows2, balances, moves, Advanced(done, d, k + 1), PendingLine(item, delta))
         /\ RowsOfLayers(rows2)
<1> DEFINE rows2 == Over(Only(l, row), rows)
<1>1. item \in Items /\ delta \in Int
  BY NextLineIs
<1>2. IsLayerRow(row) /\ row.doc = d /\ row.item = item /\ row.received = delta /\ row.left = delta
  BY DEF FreshRow
<1>3. \A e \in Docs : moves[e][l] = 0
  BY DEF Books, MovesAddUp
<1>4. \A e \in Docs : \A x \in Layers : moves[e][x] \in Int
  BY DEF BookNumbers
<1>5. /\ RowsOfLayers(rows2)
      /\ \A i \in Items :
           /\ LeftIn(rows2, i) = LeftIn(rows, i) + IF row.item = i THEN row.left ELSE 0
           /\ \A e \in Docs :
                /\ ReceivedIn(rows2, e, i)
                     = ReceivedIn(rows, e, i) + IF row.item = i /\ row.doc = e THEN row.received ELSE 0
                /\ MovedIn(rows2, moves, e, i) = MovedIn(rows, moves, e, i)
  <2> HIDE DEF rows2
  <2>1. rows2 = Over(Only(l, row), rows)
    BY DEF rows2
  <2> QED
    BY <1>2, <1>3, <1>4, <2>1, LayerAdded
<1> HIDE DEF rows2
<1>6. StockAgrees(rows2, balances, PendingLine(item, delta))
  <2>1. \A i \in Items : LeftIn(rows2, i) = LeftIn(rows, i) + IF item = i THEN delta ELSE 0
    BY <1>2, <1>5
  <2>2. StockAgrees(rows, balances, NotPending) /\ \A i \in DOMAIN balances : balances[i] \in Int
    BY DEF Books, BookNumbers
  <2> QED
    BY <1>1, <2>1, <2>2, StockKept
<1>7. LinesAreMoved(rows2, moves, Advanced(done, d, k + 1))
  <2>1. \A e \in Docs : \A i \in Items :
          ReceivedIn(rows, e, i) \in Int /\ MovedIn(rows, moves, e, i) \in Int
    <3>1. ASSUME NEW e \in Docs, NEW i \in Items
          PROVE  ReceivedIn(rows, e, i) \in Int /\ MovedIn(rows, moves, e, i) \in Int
      <4>1. \A x \in Layers : moves[e][x] \in Int
        BY <1>4
      <4> QED
        BY <4>1, ReceivedIs, MovedIs
    <3> QED
      BY <3>1
  <2>2. ASSUME NEW e \in Docs, NEW i \in Items
        PROVE  /\ ReceivedIn(rows2, e, i) - MovedIn(rows2, moves, e, i)
                    = ReceivedIn(rows, e, i) - MovedIn(rows, moves, e, i)
                        + IF e = d /\ item = i THEN delta ELSE 0
               /\ ReceivedIn(rows, e, i) - MovedIn(rows, moves, e, i) \in Int
    <3>1. /\ ReceivedIn(rows2, e, i)
               = ReceivedIn(rows, e, i) + IF item = i /\ d = e THEN delta ELSE 0
          /\ MovedIn(rows2, moves, e, i) = MovedIn(rows, moves, e, i)
      BY <1>2, <1>5
    <3> QED
      BY <1>1, <2>1, <3>1
  <2>3. ASSUME NEW e \in Docs
        PROVE  /\ SumFunction(moves[e]) \in Int
               /\ SumFunction(moves[e]) = SumFunction(moves[e]) + IF e = d /\ delta < 0 THEN -delta ELSE 0
    <3>1. moves[e] \in [Layers -> Int]
      BY DEF BookNumbers
    <3>2. SumFunction(moves[e]) \in Int
      BY <3>1, MovesSum
    <3> QED
      BY <1>1, <3>2
  <2>4. LinesAreMoved(rows, moves, done)
    BY DEF Books
  <2>5. LineIsMoved(rows, moves, rows2, moves, d, item, delta)
    BY <2>2, <2>3 DEF LineIsMoved
  <2> QED
    BY <2>4, <2>5, LinesKept
<1>8. MovesAddUp(rows2, moves)
  BY <1>1, FreshMoves DEF Books, rows2
<1>9. OldestGoFirst(rows2)
  BY <1>1, FreshIsYoungest DEF Books, rows2
<1> QED
  BY <1>5, <1>6, <1>7, <1>8, <1>9 DEF Books, rows2

\* The oldest layers give first.
InTurn(take, rows, item) ==
  \A l, m \in DOMAIN rows :
    /\ rows[l].item = item /\ rows[m].item = item
    /\ rows[l].stamp < rows[m].stamp /\ take[m] # 0
    => take[l] = rows[l].left

\* What is taken from a layer is moved by the document.
LEMMA TakenIsMoved ==
  ASSUME NEW rows, RowsOfLayers(rows), NEW item, NEW take, Takes(take, rows, item),
         NEW moves, \A e \in Docs : moves[e] \in [Layers -> Int], MovesAddUp(rows, moves),
         NEW d \in Docs
  PROVE  MovesAddUp(TakenFrom(rows, take), MovesPlus(moves, d, take))
<1> DEFINE rows2 == TakenFrom(rows, take)
           moves2 == MovesPlus(moves, d, take)
<1>1. /\ DOMAIN rows2 = DOMAIN rows
      /\ \A l \in DOMAIN rows : rows2[l].left = rows[l].left - take[l]
                                /\ rows2[l].received = rows[l].received
  BY RowsTaken
<1>2. \A e \in Docs : \A l \in Layers : moves2[e][l] = moves[e][l] + IF e = d THEN take[l] ELSE 0
  BY DEF MovesPlus
<1>3. \A l \in Layers : take[l] \in Nat /\ (take[l] # 0 => l \in DOMAIN rows)
  BY DEF Takes
<1>f. IsFiniteSet(Docs)
  BY WarehouseAssumption
<1> HIDE DEF rows2, moves2
<1>4. ASSUME NEW l \in DOMAIN rows
      PROVE  rows2[l].received - rows2[l].left = SumFunction([e \in Docs |-> moves2[e][l]])
  <2> DEFINE f == [e \in Docs |-> moves[e][l]]
             g == [e \in Docs |-> moves2[e][l]]
  <2>0. l \in Layers /\ take[l] \in Nat
    BY <1>3 DEF RowsOfLayers
  <2>1. IntsOn(f, Docs) /\ IntsOn(g, Docs)
    BY <1>2, <2>0 DEF IntsOn
  <2>2. (\A e \in Docs \ {d} : g[e] = f[e]) /\ g[d] = f[d] + take[l] /\ f[d] \in Int
    BY <1>2, <2>0
  <2>3. SumFunction(f) = SumFunctionOnSet(f, Docs) /\ SumFunction(g) = SumFunctionOnSet(g, Docs)
    BY SumIs
  <2>4. rows[l].received - rows[l].left = SumFunction(f)
    BY DEF MovesAddUp
  <2>5. rows[l].received \in Int /\ rows[l].left \in Int
    BY LayerNumbers DEF RowsOfLayers
  <2> HIDE DEF f, g
  <2>6. SumFunctionOnSet(g, Docs) = SumFunctionOnSet(f, Docs) - f[d] + g[d]
    BY <1>f, <2>1, <2>2, SumChange
  <2>7. SumFunction(g) = SumFunction(f) + take[l]
    <3>1. SumFunctionOnSet(f, Docs) \in Int
      BY <1>f, <2>1, SumInt
    <3> QED
      BY <2>0, <2>2, <2>3, <2>6, <3>1
  <2>8. rows2[l].received - rows2[l].left = SumFunction(g)
    BY <1>1, <2>0, <2>4, <2>5, <2>7
  <2> QED
    BY <2>8 DEF g
<1>5. \A l \in Layers \ DOMAIN rows : \A e \in Docs : moves2[e][l] = 0
  BY <1>2, <1>3 DEF MovesAddUp
<1>6. MovesAddUp(rows2, moves2)
  BY <1>1, <1>4, <1>5 DEF MovesAddUp
<1> QED
  BY <1>6 DEF rows2, moves2

\* Taking in turn leaves the oldest layers empty first.
LEMMA TurnsKeepOrder ==
  ASSUME NEW rows, RowsOfLayers(rows), OldestGoFirst(rows),
         NEW item, NEW take, Takes(take, rows, item), InTurn(take, rows, item)
  PROVE  OldestGoFirst(TakenFrom(rows, take))
<1> DEFINE rows2 == TakenFrom(rows, take)
<1>1. /\ DOMAIN rows2 = DOMAIN rows
      /\ \A l \in DOMAIN rows : /\ rows2[l].left = rows[l].left - take[l]
                                /\ rows2[l].received = rows[l].received
                                /\ rows2[l].item = rows[l].item /\ rows2[l].stamp = rows[l].stamp
  BY RowsTaken
<1> HIDE DEF rows2
<1>2. \A l \in DOMAIN rows2 : rows2[l].stamp <= requests
  BY <1>1 DEF OldestGoFirst
<1>3. ASSUME NEW l \in DOMAIN rows, NEW m \in DOMAIN rows,
             rows2[l].item = rows2[m].item, rows2[l].stamp < rows2[m].stamp,
             rows2[m].left < rows2[m].received
      PROVE  rows2[l].left = 0
  <2>1. /\ rows[l].left \in Nat /\ rows[m].left \in Nat
        /\ take[l] \in Nat /\ take[m] \in Nat /\ take[l] <= rows[l].left
    <3>1. rows[l].left \in Nat /\ rows[m].left \in Nat /\ l \in Layers /\ m \in Layers
      BY LayerNumbers DEF RowsOfLayers
    <3>2. take[l] \in Nat /\ take[m] \in Nat
      BY <3>1 DEF Takes
    <3>3. take[l] <= rows[l].left
      BY <3>1, <3>2 DEF Takes
    <3> QED
      BY <3>1, <3>2, <3>3
  <2>2. rows[l].item = rows[m].item /\ rows[l].stamp < rows[m].stamp
    BY <1>1, <1>3
  <2>3. CASE take[m] # 0
    <3>1. rows[m].item = item
      <4>1. m \in Layers
        BY DEF RowsOfLayers
      <4> QED
        BY <2>3, <4>1 DEF Takes
    <3>2. take[l] = rows[l].left
      BY <2>2, <2>3, <3>1 DEF InTurn
    <3> QED
      BY <1>1, <2>1, <3>2
  <2>4. CASE take[m] = 0
    <3>1. rows[m].left < rows[m].received
      BY <1>1, <1>3, <2>1, <2>4
    <3>2. rows[l].left = 0
      BY <2>2, <3>1 DEF OldestGoFirst
    <3> QED
      BY <1>1, <2>1, <3>2
  <2> QED
    BY <2>3, <2>4
<1>4. OldestGoFirst(rows2)
  BY <1>1, <1>2, <1>3 DEF OldestGoFirst
<1> QED
  BY <1>4 DEF rows2

\* What is taken for the next line, from the oldest layers first, keeps the
\* books.
LEMMA TakingKeepsBooks ==
  ASSUME doc \in [Docs -> DocumentRow],
         NEW rows, RowsOfLayers(rows), NEW balances, NEW moves, NEW done,
         BookNumbers(balances, moves), Books(rows, balances, moves, done, NotPending),
         NEW d \in Docs, NEW k, NEW item, NEW delta, NextLine(d, k, item, delta), delta < 0, done[d] = k,
         NEW take, Takes(take, rows, item), InTurn(take, rows, item),
         SumFunctionOnSet(take, Layers) = -delta
  PROVE  LET rows2 == TakenFrom(rows, take)
             moves2 == MovesPlus(moves, d, take)
         IN Books(rows2, balances, moves2, Advanced(done, d, k + 1), PendingLine(item, delta))
<1> DEFINE rows2 == TakenFrom(rows, take)
           moves2 == MovesPlus(moves, d, take)
           sum == SumFunctionOnSet(take, Layers)
<1>1. item \in Items /\ delta \in Int
  BY NextLineIs
<1>2. \A e \in Docs : moves[e] \in [Layers -> Int]
  BY DEF BookNumbers
<1>3. /\ sum \in Int
      /\ \A i \in Items :
           /\ LeftIn(rows2, i) = LeftIn(rows, i) - IF item = i THEN sum ELSE 0
           /\ \A e \in Docs :
                /\ ReceivedIn(rows2, e, i) = ReceivedIn(rows, e, i)
                /\ MovedIn(rows2, moves2, e, i)
                     = MovedIn(rows, moves, e, i) + IF e = d /\ item = i THEN sum ELSE 0
      /\ \A e \in Docs : SumFunction(moves2[e]) = SumFunction(moves[e]) + IF e = d THEN sum ELSE 0
  <2> HIDE DEF rows2, moves2, sum
  <2>1. rows2 = TakenFrom(rows, take) /\ moves2 = MovesPlus(moves, d, take)
        /\ sum = SumFunctionOnSet(take, Layers)
    BY DEF rows2, moves2, sum
  <2> QED
    BY <1>2, <2>1, LayersGive
<1>4. sum = -delta
  OBVIOUS
<1> HIDE DEF rows2, moves2, sum
<1>5. ASSUME NEW e \in Docs, NEW i \in Items
      PROVE  /\ ReceivedIn(rows, e, i) \in Int /\ MovedIn(rows, moves, e, i) \in Int
             /\ LeftIn(rows, i) \in Int
  <2>1. \A x \in Layers : moves[e][x] \in Int
    BY <1>2
  <2> QED
    BY <2>1, ReceivedIs, MovedIs, LeftIs
<1>6. StockAgrees(rows2, balances, PendingLine(item, delta))
  <2>1. \A i \in Items : LeftIn(rows2, i) = LeftIn(rows, i) + IF item = i THEN delta ELSE 0
    <3>1. ASSUME NEW i \in Items
          PROVE  LeftIn(rows2, i) = LeftIn(rows, i) + IF item = i THEN delta ELSE 0
      <4>1. LeftIn(rows, i) \in Int
        BY LeftIs
      <4>2. LeftIn(rows2, i) = LeftIn(rows, i) - IF item = i THEN sum ELSE 0
        BY <1>3
      <4> QED
        BY <1>1, <1>4, <4>1, <4>2
    <3> QED
      BY <3>1
  <2>2. StockAgrees(rows, balances, NotPending) /\ \A i \in DOMAIN balances : balances[i] \in Int
    BY DEF Books, BookNumbers
  <2> QED
    BY <1>1, <2>1, <2>2, StockKept
<1>7. LinesAreMoved(rows2, moves2, Advanced(done, d, k + 1))
  <2>1. ASSUME NEW e \in Docs, NEW i \in Items
        PROVE  /\ ReceivedIn(rows2, e, i) - MovedIn(rows2, moves2, e, i)
                    = ReceivedIn(rows, e, i) - MovedIn(rows, moves, e, i)
                        + IF e = d /\ item = i THEN delta ELSE 0
               /\ ReceivedIn(rows, e, i) - MovedIn(rows, moves, e, i) \in Int
    <3>1. /\ ReceivedIn(rows2, e, i) = ReceivedIn(rows, e, i)
          /\ MovedIn(rows2, moves2, e, i)
               = MovedIn(rows, moves, e, i) + IF e = d /\ item = i THEN sum ELSE 0
      BY <1>3
    <3> QED
      BY <1>1, <1>4, <1>5, <3>1
  <2>2. ASSUME NEW e \in Docs
        PROVE  /\ SumFunction(moves[e]) \in Int
               /\ SumFunction(moves2[e]) = SumFunction(moves[e]) + IF e = d /\ delta < 0 THEN -delta ELSE 0
    <3>1. SumFunction(moves[e]) \in Int
      BY <1>2, MovesSum
    <3>2. SumFunction(moves2[e]) = SumFunction(moves[e]) + IF e = d THEN sum ELSE 0
      BY <1>3
    <3> QED
      BY <1>4, <3>1, <3>2
  <2>3. LineIsMoved(rows, moves, rows2, moves2, d, item, delta)
    BY <2>1, <2>2 DEF LineIsMoved
  <2>4. LinesAreMoved(rows, moves, done)
    BY DEF Books
  <2> QED
    BY <2>3, <2>4, LinesKept
<1>8. MovesAddUp(rows2, moves2)
  BY <1>2, TakenIsMoved DEF Books, rows2, moves2
<1>9. OldestGoFirst(rows2)
  BY TurnsKeepOrder DEF Books, rows2
<1> QED
  BY <1>6, <1>7, <1>8, <1>9 DEF Books, rows2, moves2

-----------------------------------------------------------------------------
(* What TakeLayers takes *)

\* An order of a set has every element once.
LEMMA OrdersAreOnto ==
  ASSUME NEW S, IsFiniteSet(S), NEW s \in Orders(S)
  PROVE  /\ DOMAIN s = 1..Cardinality(S) /\ Cardinality(S) \in Nat
         /\ s \in [1..Cardinality(S) -> S]
         /\ \A m, n \in DOMAIN s : m # n => s[m] # s[n]
         /\ \A x \in S : \E n \in DOMAIN s : s[n] = x
<1> DEFINE N == Cardinality(S)
           D == 1..N
<1>1. N \in Nat
  BY FS_CardinalityType
<1>2. s \in [D -> S] /\ DOMAIN s = D /\ \A m, n \in D : m # n => s[m] # s[n]
  BY DEF Orders
<1>3. ASSUME NEW x \in S, \A n \in D : s[n] # x PROVE FALSE
  <2> DEFINE T == S \ {x}
  <2>1. IsFiniteSet(T) /\ Cardinality(T) = N - 1
    BY FS_RemoveElement
  <2>2. IsFiniteSet(D) /\ Cardinality(D) = N
    BY <1>1, FS_Interval
  <2>3. s \in [D -> T]
    BY <1>2, <1>3
  <2>4. Cardinality(T) < Cardinality(D)
    BY <1>1, <2>1, <2>2
  <2> HIDE DEF T, D
  <2>5. \E m, n \in D : m # n /\ s[m] = s[n]
    BY <2>1, <2>2, <2>3, <2>4, FS_PigeonHole
  <2> QED
    BY <1>2, <2>5
<1> QED
  BY <1>1, <1>2, <1>3

-----------------------------------------------------------------------------
(* What a request reads, and takes in turn *)

\* The lesser of two integers.
LEMMA MinIs ==
  ASSUME NEW m \in Int, NEW n \in Int
  PROVE  Min({m, n}) = IF m <= n THEN m ELSE n
BY DEF Min

\* A function on the first numbers is a sequence.
LEMMA IsSequence ==
  ASSUME NEW S, NEW n \in Nat, NEW f \in [1..n -> S]
  PROVE  f \in Seq(S)
OBVIOUS

\* The quantity of the line that a request is at.
LEMMA LineIs ==
  ASSUME RowsAreTyped, NEW c \in Clients, work[c].line \in 1..(Len(work[c].lines) + 1), InLines(c)
  PROVE  /\ work[c].line \in DOMAIN work[c].lines
         /\ Line(c).item \in Items /\ LineDelta(c) \in Int
<1>1. work[c].lines \in Seq(LineRow)
  BY DEF RowsAreTyped, Request, LineList
<1>2. Len(work[c].lines) \in Nat /\ DOMAIN work[c].lines = 1..Len(work[c].lines)
  BY <1>1
<1>3. work[c].line \in 1..Len(work[c].lines)
  BY <1>2 DEF InLines
<1>4. Line(c) \in LineRow
  BY <1>1, <1>3 DEF Line
<1>5. Line(c).item \in Items /\ Line(c).qty \in Int
  BY <1>4 DEF LineRow
<1> QED
  BY <1>2, <1>3, <1>5 DEF LineDelta, Delta

\* What was left in the layers read.
LeftRead(c) == [n \in DOMAIN read[c].layers |-> read[c].layers[n].left]
LEMMA LeftReadIs ==
  ASSUME NEW c \in Clients, ReadsAreTyped(c)
  PROVE  \E N \in Nat :
           /\ DOMAIN read[c].layers = 1..N
           /\ \A n \in 1..N : /\ LeftRead(c)[n] = read[c].layers[n].left /\ LeftRead(c)[n] \in Nat
                              /\ read[c].layers[n].layer \in Layers
<1> DEFINE S == [layer: Layers, left: Nat]
           rows == read[c].layers
<1>1. rows \in Seq(S)
  BY DEF ReadsAreTyped
<1> HIDE DEF S, rows
<1>2. Len(rows) \in Nat /\ DOMAIN rows = 1..Len(rows)
  BY <1>1
<1>3. \A n \in 1..Len(rows) : rows[n] \in S
  BY <1>1
<1>4. \A n \in 1..Len(rows) : rows[n].left \in Nat /\ rows[n].layer \in Layers
  BY <1>3 DEF S
<1>5. \A n \in 1..Len(rows) : LeftRead(c)[n] = rows[n].left
  BY <1>2 DEF LeftRead, rows
<1> QED
  BY <1>2, <1>4, <1>5 DEF rows

\* What an element gives is no more than it has.
LEMMA GivenIs ==
  ASSUME NEW N \in Nat, NEW left, \A n \in 1..N : left[n] \in Nat, NEW need \in Nat, NEW n \in 1..N
  PROVE  /\ Rest(left, need, n) \in Int
         /\ GivenOf(left, need, n) \in Nat /\ GivenOf(left, need, n) <= left[n]
<1>1. n - 1 \in Int /\ 1..(n - 1) \subseteq 1..N
  OBVIOUS
<1>2. SumFunctionOnSet(left, 1..(n - 1)) \in Int
  BY <1>1, SumOfPart
<1>3. Rest(left, need, n) \in Int
  BY <1>2 DEF Rest
<1> QED
  BY <1>3 DEF GivenOf

\* What TakeLayers takes from the n-th layer read is what it gives in its turn.
LEMMA TakeIs ==
  ASSUME NEW c \in Clients, ReadsAreTyped(c), LineDelta(c) \in Int, LineDelta(c) < 0,
         NEW n \in DOMAIN read[c].layers
  PROVE  /\ Take(c, n) = GivenOf(LeftRead(c), -LineDelta(c), n)
         /\ Take(c, n) \in Nat /\ Take(c, n) <= read[c].layers[n].left
<1> DEFINE left == LeftRead(c)
           need == -LineDelta(c)
           f == [m \in 1..(n - 1) |-> read[c].layers[m].left]
           S == 1..(n - 1)
<1>1. PICK N \in Nat :
        /\ DOMAIN read[c].layers = 1..N
        /\ \A m \in 1..N : left[m] = read[c].layers[m].left /\ left[m] \in Nat
  BY LeftReadIs
<1>2. need \in Nat
  OBVIOUS
<1>3. n \in 1..N /\ n - 1 \in Int /\ S \subseteq 1..N
  BY <1>1
<1>4. IsFiniteSet(S)
  BY <1>3, FS_Interval
<1>5. IntsOn(f, S) /\ (\A m \in S : f[m] = left[m]) /\ DOMAIN f = S
  BY <1>1, <1>3 DEF IntsOn
<1>6. Take(c, n) = Min({read[c].layers[n].left, Max({0, need - SumFunction(f)})})
  BY DEF Take
<1> HIDE DEF f, S, left, need
<1>7. SumFunction(f) = SumFunctionOnSet(left, S) /\ SumFunction(f) \in Int
  <2>1. SumFunction(f) = SumFunctionOnSet(f, S)
    BY <1>5, SumIs
  <2>2. SumFunctionOnSet(f, S) = SumFunctionOnSet(left, S)
    BY <1>4, <1>5, SumSame
  <2>3. SumFunctionOnSet(f, S) \in Int
    BY <1>4, <1>5, SumInt
  <2> QED
    BY <2>1, <2>2, <2>3
<1>8. Rest(left, need, n) = need - SumFunction(f) /\ Rest(left, need, n) \in Int
  BY <1>2, <1>7 DEF Rest, S
<1>9. left[n] \in Nat /\ left[n] = read[c].layers[n].left
  BY <1>1, <1>3
<1>10. Take(c, n) = GivenOf(left, need, n)
  <2> DEFINE r == Rest(left, need, n)
  <2>1. Take(c, n) = Min({left[n], Max({0, r})}) /\ r \in Int
    BY <1>6, <1>8, <1>9
  <2>2. GivenOf(left, need, n) = IF r <= 0 THEN 0 ELSE IF left[n] <= r THEN left[n] ELSE r
    BY DEF GivenOf
  <2> HIDE DEF r
  <2>3. Max({0, r}) = IF r > 0 THEN r ELSE 0
    BY <2>1, MaxIs
  <2>4. Min({left[n], Max({0, r})}) = IF left[n] <= Max({0, r}) THEN left[n] ELSE Max({0, r})
    <3> DEFINE x == left[n]
               y == Max({0, r})
    <3>1. x \in Int /\ y \in Int
      BY <1>9, <2>1, <2>3
    <3> HIDE DEF x, y
    <3>2. Min({x, y}) = IF x <= y THEN x ELSE y
      BY <3>1, MinIs
    <3> QED
      BY <3>2 DEF x, y
  <2> QED
    BY <1>9, <2>1, <2>2, <2>3, <2>4
<1>11. GivenOf(left, need, n) \in Nat /\ GivenOf(left, need, n) <= left[n]
  BY <1>1, <1>2, <1>3, GivenIs
<1> QED
  BY <1>9, <1>10, <1>11 DEF left, need

\* The place of a layer that something is taken from.
LEMMA PlaceIs ==
  ASSUME NEW c \in Clients, NEW l \in TakenLayers(c)
  PROVE  /\ Place(c, l) \in DOMAIN read[c].layers
         /\ read[c].layers[Place(c, l)].layer = l /\ Take(c, Place(c, l)) # 0
<1>1. \E n \in Sources(c) : read[c].layers[n].layer = l
  BY DEF TakenLayers
<1>2. Place(c, l) \in Sources(c) /\ read[c].layers[Place(c, l)].layer = l
  BY <1>1 DEF Place
<1> QED
  BY <1>2 DEF Sources

\* What TakeLayers takes from each layer.
TakeOf(c) == [l \in Layers |-> IF l \in TakenLayers(c) THEN Take(c, Place(c, l)) ELSE 0]

\* The layers read, without repetition.
InOrder(s, rows, item) ==
  /\ \E N \in Nat : s \in [1..N -> {l \in DOMAIN rows : rows[l].item = item /\ rows[l].left > 0}]
  /\ \A m, n \in DOMAIN s : m # n => s[m] # s[n]
  /\ \A l \in DOMAIN rows : rows[l].item = item /\ rows[l].left > 0 => \E n \in DOMAIN s : s[n] = l
  /\ \A m, n \in DOMAIN s : m < n => rows[s[m]].stamp <= rows[s[n]].stamp

\* What the layers of an item, in the order of their age, give in turn.
GivenInOrder(take, s, rows, need) ==
  /\ take \in [Layers -> Nat]
  /\ \A l \in Layers : take[l] # 0 => \E n \in DOMAIN s : s[n] = l
  /\ \A n \in DOMAIN s : take[s[n]] = GivenOf([m \in DOMAIN s |-> rows[s[m]].left], need, n)

\* The layers of an item, read in the order of their age, give what is needed
\* in turn, if they have enough.
LEMMA OrderGives ==
  ASSUME NEW rows, RowsOfLayers(rows), NEW item, NEW s, InOrder(s, rows, item),
         NEW take, NEW need \in Nat, GivenInOrder(take, s, rows, need),
         SumFunction([m \in DOMAIN s |-> rows[s[m]].left]) >= need
  PROVE  /\ Takes(take, rows, item)
         /\ InTurn(take, rows, item)
         /\ SumFunctionOnSet(take, Layers) = need
<1> DEFINE left == [m \in DOMAIN s |-> rows[s[m]].left]
           S == {l \in DOMAIN rows : rows[l].item = item /\ rows[l].left > 0}
<1>1. PICK N \in Nat : s \in [1..N -> S]
  BY DEF InOrder
<1>2. \A l \in DOMAIN rows : rows[l].left \in Nat /\ rows[l].stamp \in Nat /\ l \in Layers
  BY LayerNumbers DEF RowsOfLayers
<1>3. \A n \in 1..N : left[n] \in Nat /\ left[n] = rows[s[n]].left /\ s[n] \in S
  BY <1>1, <1>2
<1>4. SumFunction(left) = SumFunctionOnSet(left, 1..N)
  BY <1>1, SumIs
<1>5. \A n \in 1..N : take[s[n]] = GivenOf(left, need, n)
  BY <1>1 DEF GivenInOrder
<1>6. SumFunction(left) >= need
  OBVIOUS
<1> HIDE DEF left
<1>7. \A n \in 1..N : take[s[n]] <= left[n]
  BY <1>3, <1>5, GivenIs
<1>8. take \in [Layers -> Nat] /\ \A l \in Layers : take[l] # 0 => \E n \in 1..N : s[n] = l
  BY <1>1 DEF GivenInOrder
<1>9. Takes(take, rows, item)
  <2>1. ASSUME NEW l \in Layers, take[l] # 0
        PROVE  l \in DOMAIN rows /\ rows[l].item = item /\ take[l] <= rows[l].left
    <3>1. PICK n \in 1..N : s[n] = l
      BY <1>8, <2>1
    <3> QED
      BY <1>3, <1>7, <3>1
  <2> QED
    BY <1>8, <2>1 DEF Takes
<1> DEFINE f == [n \in 1..N |-> take[s[n]]]
<1>10. Queue(N, left, need, f)
  <2>1. \A n \in 1..N : f[n] = GivenOf(left, need, n)
    BY <1>5
  <2>2. \A n \in 1..N : left[n] \in Nat
    BY <1>3
  <2> HIDE DEF f
  <2> QED
    BY <2>1, <2>2 DEF Queue
<1>11. InTurn(take, rows, item)
  <2>1. ASSUME NEW l \in DOMAIN rows, NEW m \in DOMAIN rows,
               rows[l].item = item, rows[m].item = item, rows[l].stamp < rows[m].stamp, take[m] # 0
        PROVE  take[l] = rows[l].left
    <3>1. PICK k \in 1..N : s[k] = m
      BY <1>2, <1>8, <2>1
    <3>2. CASE rows[l].left = 0
      <4>1. take[l] # 0 => take[l] <= 0
        BY <1>2, <1>9, <3>2 DEF Takes
      <4>2. take[l] \in Nat
        BY <1>2, <1>8
      <4> QED
        BY <3>2, <4>1, <4>2
    <3>3. CASE rows[l].left # 0
      <4>1. PICK j \in 1..N : s[j] = l
        <5>1. rows[l].left > 0
          BY <1>2, <3>3
        <5> QED
          BY <1>1, <2>1, <5>1 DEF InOrder
      <4>2. j # k /\ ~(k < j)
        <5>1. k < j => rows[s[k]].stamp <= rows[s[j]].stamp
          BY <1>1 DEF InOrder
        <5> QED
          BY <1>2, <2>1, <3>1, <4>1, <5>1
      <4>3. j < k
        BY <4>2
      <4>4. f[k] # 0
        BY <2>1, <3>1
      <4> HIDE DEF f
      <4>5. f[j] = left[j]
        BY <1>10, <4>3, <4>4, FirstOnesGiveAll
      <4> QED
        BY <1>3, <4>1, <4>5 DEF f
    <3> QED
      BY <3>2, <3>3
  <2> QED
    BY <2>1 DEF InTurn
<1>12. SumFunctionOnSet(take, Layers) = need
  <2>1. IsFiniteSet(Layers) /\ S \subseteq Layers /\ IsFiniteSet(S)
    BY <1>2, FS_Subset, WarehouseAssumption
  <2>2. IntsOn(take, Layers) /\ IntsOn(take, S)
    BY <1>8, <2>1 DEF IntsOn
  <2>3. \A l \in Layers \ S : take[l] = 0
    BY <1>3, <1>8
  <2>4. SumFunctionOnSet(take, Layers) = SumFunctionOnSet(take, S)
    <3> HIDE DEF S
    <3> QED
      BY <2>1, <2>2, <2>3, SumSupport
  <2>5. SumFunctionOnSet(take, S) = SumFunctionOnSet(f, 1..N)
    <3> DEFINE D == 1..N
    <3>1. IsFiniteSet(D)
      BY FS_Interval
    <3>2. IntsOn(f, D) /\ (\A n \in D : take[s[n]] = f[n])
      BY <1>1, <1>8, <2>1 DEF IntsOn
    <3>3. s \in [D -> S] /\ (\A z \in S : \E n \in D : z = s[n])
          /\ (\A m, n \in D : s[m] = s[n] => m = n)
      BY <1>1 DEF InOrder
    <3> HIDE DEF D, f, S
    <3>4. SumFunctionOnSet(take, S) = SumFunctionOnSet(f, D)
      BY <3>1, <3>2, <3>3, SumRenamed
    <3> QED
      BY <3>4 DEF D
  <2>6. SumFunctionOnSet(f, 1..N) = need
    <3> HIDE DEF f
    <3>1. \A k \in 0..N : SumFunctionOnSet(f, 1..k) =
             IF SumFunctionOnSet(left, 1..k) <= need THEN SumFunctionOnSet(left, 1..k) ELSE need
      BY <1>10, TakenInTurn
    <3>2. SumFunctionOnSet(left, 1..N) \in Int
      <4>1. N \in Int /\ 1..N \subseteq 1..N /\ \A i \in 1..N : left[i] \in Nat
        BY <1>3
      <4> QED
        BY <4>1, SumOfPart
    <3> QED
      BY <1>4, <1>6, <3>1, <3>2
  <2> QED
    BY <2>4, <2>5, <2>6
<1> QED
  BY <1>9, <1>11, <1>12

\* What a request takes is what the layers it read could give.
LEMMA TakeOfIs ==
  ASSUME RowsAreTyped, NEW c \in Clients, ReadsAreTyped(c), LineDelta(c) \in Int, LineDelta(c) < 0
  PROVE  /\ TakeOf(c) \in [Layers -> Nat]
         /\ \A l \in TakenLayers(c) :
              /\ l \in Layers
              /\ TakeOf(c)[l] = Take(c, Place(c, l))
              /\ Place(c, l) \in DOMAIN read[c].layers /\ read[c].layers[Place(c, l)].layer = l
              /\ TakeOf(c)[l] <= read[c].layers[Place(c, l)].left
         /\ \A l \in Layers \ TakenLayers(c) : TakeOf(c)[l] = 0
<1>1. ASSUME NEW l \in TakenLayers(c)
      PROVE  /\ Place(c, l) \in DOMAIN read[c].layers /\ read[c].layers[Place(c, l)].layer = l
             /\ l \in Layers
             /\ Take(c, Place(c, l)) \in Nat
             /\ Take(c, Place(c, l)) <= read[c].layers[Place(c, l)].left
  <2>1. Place(c, l) \in DOMAIN read[c].layers /\ read[c].layers[Place(c, l)].layer = l
    BY PlaceIs
  <2>2. l \in Layers
    BY <2>1, LeftReadIs
  <2>3. Take(c, Place(c, l)) \in Nat /\ Take(c, Place(c, l)) <= read[c].layers[Place(c, l)].left
    BY <2>1, TakeIs
  <2> QED
    BY <2>1, <2>2, <2>3
<1> QED
  BY <1>1 DEF TakeOf

\* What is taken when nothing has changed since it was read.
LEMMA TakeOfGives ==
  ASSUME RowsAreTyped, NEW c \in Clients, RowsOfLayers(LayersOf(c)), ReadsAreTyped(c),
         LineDelta(c) \in Int, LineDelta(c) < 0, ReadInOrder(c)
  PROVE  /\ Takes(TakeOf(c), LayersOf(c), Line(c).item)
         /\ InTurn(TakeOf(c), LayersOf(c), Line(c).item)
         /\ SumFunctionOnSet(TakeOf(c), Layers) = -LineDelta(c)
         /\ Over([l \in TakenLayers(c) |-> Lessened(c, l)], LayersOf(c))
              = TakenFrom(LayersOf(c), TakeOf(c))
<1> DEFINE rows == LayersOf(c)
           item == Line(c).item
           s == [n \in DOMAIN read[c].layers |-> read[c].layers[n].layer]
           need == -LineDelta(c)
           take == TakeOf(c)
           S == {l \in DOMAIN rows : rows[l].item = item /\ rows[l].left > 0}
<1>1. /\ s \in Orders(S)
      /\ \A m, n \in DOMAIN s : m < n => rows[s[m]].stamp <= rows[s[n]].stamp
      /\ \A n \in DOMAIN s : read[c].layers[n].left = rows[s[n]].left
      /\ SumFunction([n \in DOMAIN s |-> read[c].layers[n].left]) >= need
  BY DEF ReadInOrder, OldestFirst, Available
<1>2. /\ take \in [Layers -> Nat]
      /\ \A l \in TakenLayers(c) :
           /\ l \in Layers
           /\ take[l] = Take(c, Place(c, l))
           /\ Place(c, l) \in DOMAIN s /\ s[Place(c, l)] = l
           /\ take[l] <= read[c].layers[Place(c, l)].left
      /\ \A l \in Layers \ TakenLayers(c) : take[l] = 0
  BY TakeOfIs
<1>3. RowsOfLayers(rows) /\ need \in Nat
  OBVIOUS
<1>4. \A n \in DOMAIN s : Take(c, n) = GivenOf(LeftRead(c), need, n) /\ s[n] = read[c].layers[n].layer
  BY TakeIs
<1>5. DOMAIN s = DOMAIN read[c].layers
  OBVIOUS
<1>6. LeftRead(c) = [m \in DOMAIN s |-> rows[s[m]].left]
  BY <1>1 DEF LeftRead
<1>7. [n \in DOMAIN s |-> read[c].layers[n].left] = [m \in DOMAIN s |-> rows[s[m]].left]
  BY <1>1
<1>8. TakenLayers(c) = {s[n] : n \in {m \in DOMAIN s : Take(c, m) # 0}}
  BY <1>4, <1>5 DEF TakenLayers, Sources
<1>9. \A l \in DOMAIN rows : rows[l] \in LayerRow /\ l \in Layers
  BY DEF RowsOfLayers, IsLayerRow
<1>r. /\ (\A l \in TakenLayers(c) : Lessened(c, l)
              = [rows[l] EXCEPT !.left = read[c].layers[Place(c, l)].left - Take(c, Place(c, l))])
      /\ TakenFrom(rows, take) = [l \in DOMAIN rows |-> [rows[l] EXCEPT !.left = @ - take[l]]]
  BY DEF Lessened, TakenFrom
<1> HIDE DEF rows, item, s, need, take
<1>10. S \subseteq Layers /\ IsFiniteSet(S)
  BY <1>9, FS_Subset, WarehouseAssumption
<1> HIDE DEF S
<1>11. /\ Cardinality(S) \in Nat /\ s \in [1..Cardinality(S) -> S]
       /\ \A m, n \in DOMAIN s : m # n => s[m] # s[n]
       /\ \A x \in S : \E n \in DOMAIN s : s[n] = x
  BY <1>1, <1>10, OrdersAreOnto
<1>12. InOrder(s, rows, item)
  <2>1. \E N \in Nat : s \in [1..N -> {l \in DOMAIN rows : rows[l].item = item /\ rows[l].left > 0}]
    BY <1>11 DEF S
  <2>2. \A l \in DOMAIN rows : rows[l].item = item /\ rows[l].left > 0 => \E n \in DOMAIN s : s[n] = l
    BY <1>11 DEF S
  <2> QED
    BY <1>1, <1>11, <2>1, <2>2 DEF InOrder
<1>13. \A n \in DOMAIN s : take[s[n]] = Take(c, n)
  <2>1. ASSUME NEW n \in DOMAIN s PROVE take[s[n]] = Take(c, n)
    <3>1. s[n] \in Layers
      BY <1>10, <1>11
    <3>2. CASE Take(c, n) # 0
      <4>1. s[n] \in TakenLayers(c)
        BY <1>8, <3>2
      <4>2. Place(c, s[n]) = n
        BY <1>2, <1>11, <4>1
      <4> QED
        BY <1>2, <4>1, <4>2
    <3>3. CASE Take(c, n) = 0
      <4>1. s[n] \notin TakenLayers(c)
        BY <1>8, <1>11, <3>3
      <4> QED
        BY <1>2, <3>1, <3>3, <4>1
    <3> QED
      BY <3>2, <3>3
  <2> QED
    BY <2>1
<1>14. GivenInOrder(take, s, rows, need)
  <2>1. \A l \in Layers : take[l] # 0 => \E n \in DOMAIN s : s[n] = l
    BY <1>2
  <2>2. \A n \in DOMAIN s : take[s[n]] = GivenOf([m \in DOMAIN s |-> rows[s[m]].left], need, n)
    BY <1>4, <1>6, <1>13
  <2> QED
    BY <1>2, <2>1, <2>2 DEF GivenInOrder
<1>15. SumFunction([m \in DOMAIN s |-> rows[s[m]].left]) >= need
  BY <1>1, <1>7
<1>16. /\ Takes(take, rows, item)
       /\ InTurn(take, rows, item)
       /\ SumFunctionOnSet(take, Layers) = need
  BY <1>3, <1>12, <1>14, <1>15, OrderGives
<1>17. Over([l \in TakenLayers(c) |-> Lessened(c, l)], rows) = TakenFrom(rows, take)
  <2> DEFINE f == [l \in TakenLayers(c) |-> Lessened(c, l)]
             g == Over(f, rows)
             h == TakenFrom(rows, take)
  <2>1. TakenLayers(c) \subseteq DOMAIN rows
    BY <1>8, <1>11 DEF S
  <2>2. DOMAIN g = DOMAIN rows /\ DOMAIN h = DOMAIN rows
    BY <1>r, <2>1 DEF Over
  <2>3. ASSUME NEW l \in DOMAIN rows PROVE g[l] = h[l]
    <3>1. h[l] = [rows[l] EXCEPT !.left = rows[l].left - take[l]]
      BY <1>r
    <3>2. CASE l \in TakenLayers(c)
      <4>1. g[l] = [rows[l] EXCEPT !.left = read[c].layers[Place(c, l)].left - Take(c, Place(c, l))]
        BY <1>r, <3>2 DEF Over
      <4>2. read[c].layers[Place(c, l)].left = rows[l].left /\ Take(c, Place(c, l)) = take[l]
        BY <1>1, <1>2, <3>2
      <4> QED
        BY <3>1, <4>1, <4>2
    <3>3. CASE l \notin TakenLayers(c)
      <4>1. g[l] = rows[l]
        BY <3>3 DEF Over
      <4>2. take[l] = 0
        BY <1>2, <1>9, <3>3
      <4>3. rows[l] \in LayerRow
        BY <1>9
      <4>4. [rows[l] EXCEPT !.left = rows[l].left - 0] = rows[l]
        BY <4>3 DEF LayerRow
      <4> QED
        BY <3>1, <4>1, <4>2, <4>4
    <3> QED
      BY <3>2, <3>3
  <2>4. g = [l \in DOMAIN g |-> g[l]] /\ h = [l \in DOMAIN h |-> h[l]]
    BY DEF Over, TakenFrom
  <2> HIDE DEF g, h
  <2>5. g = h
    BY <2>2, <2>3, <2>4
  <2> QED
    BY <2>5 DEF g, h
<1> QED
  BY <1>16, <1>17 DEF rows, take, item, need

-----------------------------------------------------------------------------
(* The types, and the rows a request has locked *)

\* The types of the tables, and of what the requests have read and written.
Typed == TypeOK /\ \A c \in Clients : RequestIsTyped(c)

\* A row of a layer that a request sees.
LEMMA SeenIsTyped ==
  ASSUME Typed, NEW c \in Clients
  PROVE  RowsOfLayers(layer) /\ RowsOfLayers(LayersOf(c))
BY DEF Typed, TypeOK, RequestIsTyped, WritesAreTyped, RowsOfLayers, LayersOf, Over, IsLayerRow

\* The line that a request is posting.
LEMMA PostedLine ==
  ASSUME RowsAreTyped, Typed, NEW c \in Clients, InLines(c)
  PROVE  /\ work[c].line \in DOMAIN work[c].lines
         /\ Line(c).item \in Items /\ LineDelta(c) \in Int
BY LineIs DEF Typed, RequestIsTyped, StepIsTyped

\* What a step leaves as it is for a request that does not take it.
LayersStay == \A l \in DOMAIN layer : l \in DOMAIN layer' /\ layer'[l].received = layer[l].received
LocksStay(x) ==
  \A l \in DOMAIN written[x].layer :
    /\ l \in DOMAIN layer' => l \in DOMAIN layer
    /\ \A y \in Clients \ {x} : l \notin DOMAIN written'[y].layer
LEMMA OthersStayTyped ==
  ASSUME WrittenIsOwn, NEW x \in Clients, RequestIsTyped(x),
         work'[x] = work[x], read'[x] = read[x], written'[x] = written[x],
         LayersStay, LocksStay(x)
  PROVE  RequestIsTyped(x)'
<1>1. WritesAreTyped(x)' /\ ReadsAreTyped(x)' /\ StepIsTyped(x)'
  BY DEF RequestIsTyped, WritesAreTyped, ReadsAreTyped, StepIsTyped, IsLayerRow, InLines, LineDelta, Line
<1>2. \A l \in DOMAIN written[x].layer :
        /\ l \in DOMAIN layer' => written[x].layer[l].received = layer'[l].received
        /\ \A y \in Clients \ {x} : l \notin DOMAIN written'[y].layer
  BY DEF RequestIsTyped, RowsAreLocked, LayersStay, LocksStay
<1>3. \A l \in DOMAIN LayersOf(x) : LayersOf(x)'[l].received = LayersOf(x)[l].received
  BY DEF LayersOf, Over, LayersStay
<1>4. \A n \in DOMAIN read[x].layers : read[x].layers[n].layer \in DOMAIN LayersOf(x)
  BY DEF WrittenIsOwn, OwnRows
<1>5. \A n \in DOMAIN read[x].layers :
        read[x].layers[n].left <= LayersOf(x)'[read[x].layers[n].layer].received
  BY <1>3, <1>4 DEF RequestIsTyped, RowsAreLocked
<1>6. RowsAreLocked(x)'
  BY <1>2, <1>5 DEF RowsAreLocked
<1> QED
  BY <1>1, <1>6 DEF RequestIsTyped

\* A request that is not there has its types.
LEMMA FreeIsTyped ==
  ASSUME NEW c \in Clients, work'[c] = Free, read'[c] = NothingRead, written'[c] = NothingWritten
  PROVE  RequestIsTyped(c)'
<1>1. WritesAreTyped(c)'
  BY DEF WritesAreTyped, NothingWritten, Nothing, NoMoves
<1>2. ReadsAreTyped(c)'
  <2>1. <<>> \in Seq([layer: Layers, left: Nat])
    BY EmptySeq
  <2> QED
    BY <2>1 DEF ReadsAreTyped, NothingRead
<1>3. StepIsTyped(c)'
  BY DEF StepIsTyped, Free
<1>4. RowsAreLocked(c)'
  BY DEF RowsAreLocked, NothingWritten, Nothing, NothingRead
<1> QED
  BY <1>1, <1>2, <1>3, <1>4 DEF RequestIsTyped

\* A step inside a request keeps the types if it keeps those of the request.
StepOf(c) ==
  /\ UNCHANGED <<doc, layer, moved, balance, last>>
  /\ \A x \in Clients \ {c} : work'[x] = work[x] /\ read'[x] = read[x] /\ written'[x] = written[x]
  /\ requests' \in 0..MaxRequests /\ overlapped' \in BOOLEAN
Keeps(c) ==
  /\ \A x \in Clients \ {c} : \A l \in DOMAIN written[x].layer : l \notin DOMAIN written'[c].layer
  /\ RequestIsTyped(c)'
LEMMA StepStaysTyped ==
  ASSUME WrittenIsOwn, Typed, RowsAreTyped', NEW c \in Clients, StepOf(c), Keeps(c)
  PROVE  Typed'
<1>1. TypeOK'
  BY DEF TypeOK, Typed, StepOf, RowsAreTyped
<1>2. ASSUME NEW x \in Clients \ {c} PROVE RequestIsTyped(x)'
  <2>1. LayersStay /\ work'[x] = work[x] /\ read'[x] = read[x] /\ written'[x] = written[x]
    BY DEF LayersStay, StepOf
  <2>2. LocksStay(x)
    BY DEF LocksStay, StepOf, Keeps, Typed, RequestIsTyped, RowsAreLocked
  <2> QED
    BY <2>1, <2>2, OthersStayTyped DEF Typed
<1> QED
  BY <1>1, <1>2 DEF Typed, Keeps

\* So does the end of a request, if the tables keep theirs.
TablesAreTyped ==
  /\ DOMAIN layer \subseteq Layers
  /\ layer \in [DOMAIN layer -> LayerRow]
  /\ \A l \in DOMAIN layer : IsLayerRow(layer[l])
  /\ moved \in [Docs -> [Layers -> Nat]]
  /\ DOMAIN balance \subseteq Items
  /\ balance \in [DOMAIN balance -> Int]
LEMMA EndStaysTyped ==
  ASSUME RowsAreTyped, WrittenIsOwn, Typed, RowsAreTyped', NEW c \in Clients, Finish(c),
         TablesAreTyped', LayersStay, \A x \in Clients \ {c} : LocksStay(x)
  PROVE  Typed'
<1>1. TypeOK'
  BY DEF TypeOK, Typed, Finish, RowsAreTyped, TablesAreTyped, IsLayerRow
<1>2. /\ \A x \in Clients \ {c} : work'[x] = work[x] /\ read'[x] = read[x] /\ written'[x] = written[x]
      /\ work'[c] = Free /\ read'[c] = NothingRead /\ written'[c] = NothingWritten
  BY DEF Finish, RowsAreTyped, WrittenIsOwn
<1>3. ASSUME NEW x \in Clients \ {c} PROVE RequestIsTyped(x)'
  BY <1>2, OthersStayTyped DEF Typed
<1>4. RequestIsTyped(c)'
  BY <1>2, FreeIsTyped
<1> QED
  BY <1>1, <1>3, <1>4 DEF Typed

\* What an entry read can hold stays when the layers that a request sees stay,
\* with what they received.
LEMMA ReadsStayLocked ==
  ASSUME NEW c \in Clients, WrittenIsOwn, RequestIsTyped(c),
         \A l \in DOMAIN LayersOf(c) : LayersOf(c)'[l].received = LayersOf(c)[l].received,
         NEW n \in DOMAIN read[c].layers
  PROVE  read[c].layers[n].left <= LayersOf(c)'[read[c].layers[n].layer].received
<1>1. read[c].layers[n].layer \in DOMAIN LayersOf(c)
  BY DEF WrittenIsOwn, OwnRows
<1> QED
  BY <1>1 DEF RequestIsTyped, RowsAreLocked

\* The steps of a request keep the types, each of them.
LEMMA LoadStaysTyped ==
  ASSUME RowsAreTyped, WrittenIsOwn, Typed, RowsAreTyped', NEW c \in Clients, NEW d \in Docs,
         NEW op \in {"post", "update", "cancel"}, Load(c, d, op)
  PROVE  Typed'
<1>1. StepOf(c)
  <2>1. requests' \in 0..MaxRequests
    BY WarehouseAssumption DEF Load, Typed, TypeOK
  <2>2. overlapped' \in BOOLEAN
    BY DEF Load
  <2>3. /\ UNCHANGED <<doc, layer, moved, balance, last>>
        /\ \A x \in Clients \ {c} : work'[x] = work[x] /\ read'[x] = read[x] /\ written'[x] = written[x]
    BY DEF Load, db, local, RowsAreTyped
  <2> QED
    BY <2>1, <2>2, <2>3 DEF StepOf
<1>2. /\ UNCHANGED <<layer, read, written>>
      /\ work'[c].step = "layers" /\ work'[c].line = 1 /\ work'[c].lines = doc[d].lines
  BY DEF Load, db, local, RowsAreTyped
<1>3. WritesAreTyped(c)' /\ ReadsAreTyped(c)' /\ RowsAreLocked(c)'
  BY <1>2 DEF Typed, RequestIsTyped, WritesAreTyped, IsLayerRow, ReadsAreTyped, RowsAreLocked, LayersOf
<1>4. StepIsTyped(c)'
  <2>1. Len(doc[d].lines) \in Nat
    BY DEF RowsAreTyped, DocumentRow, LineList
  <2> QED
    BY <1>2, <2>1 DEF StepIsTyped
<1>5. \A x \in Clients \ {c} : \A l \in DOMAIN written[x].layer : l \notin DOMAIN written'[c].layer
  BY <1>2 DEF Typed, RequestIsTyped, RowsAreLocked
<1>6. Keeps(c)
  BY <1>3, <1>4, <1>5 DEF Keeps, RequestIsTyped
<1> QED
  BY <1>1, <1>6, StepStaysTyped

\* A step of a posting goes from a line to the same one.
SameLineAt(c, step) ==
  /\ work'[c].step = step
  /\ work'[c].op = work[c].op
  /\ work'[c].line = work[c].line /\ work'[c].lines = work[c].lines
  /\ work'[c].kind = work[c].kind /\ work'[c].doc = work[c].doc
  /\ work'[c].stamp = work[c].stamp /\ work'[c].version = work[c].version
  /\ \A x \in Clients \ {c} : work'[x] = work[x]
LEMMA SameLine ==
  ASSUME RowsAreTyped, NEW c \in Clients, NEW step, GoTo(c, step)
  PROVE  SameLineAt(c, step)
<1>1. work[c] \in Request /\ work \in [Clients -> Request]
  BY DEF RowsAreTyped
<1>2. work'[c] = [work[c] EXCEPT !.step = step] /\ \A x \in Clients \ {c} : work'[x] = work[x]
  BY <1>1 DEF GoTo
<1> QED
  BY <1>1, <1>2 DEF SameLineAt, Request

\* The request is then at the same line.
LEMMA LineStays ==
  ASSUME NEW c \in Clients, NEW step, SameLineAt(c, step)
  PROVE  InLines(c)' = InLines(c) /\ LineDelta(c)' = LineDelta(c) /\ Line(c)' = Line(c)
BY DEF SameLineAt, InLines, LineDelta, Line

\* Its step is right when it has a line, which is negative if it is to take.
LEMMA NextStepIsTyped ==
  ASSUME NEW c \in Clients, RequestIsTyped(c), NEW step, SameLineAt(c, step),
         work[c].op = "post", InLines(c), step = "take" => LineDelta(c) < 0
  PROVE  StepIsTyped(c)'
<1>1. StepIsTyped(c)
  BY DEF RequestIsTyped
<1>2. InLines(c)' = InLines(c) /\ LineDelta(c)' = LineDelta(c)
  BY LineStays
<1> QED
  BY <1>1, <1>2 DEF StepIsTyped, SameLineAt

\* A layer added is a row that nobody else has written.
LEMMA AddStaysTyped ==
  ASSUME RowsAreTyped, WrittenIsOwn, Typed, RowsAreTyped', NEW c \in Clients, NEW l \in Layers,
         AddLayer(c, l)
  PROVE  Typed'
<1>1. At(c, "post", "layers") /\ GoTo(c, "balance") /\ InLines(c) /\ LineDelta(c) > 0
  BY DEF AddLayer
<1>2. StepOf(c)
  BY <1>1, SameLine DEF SameLineAt, AddLayer, StepOf, db, WrittenIsOwn, Typed, TypeOK
<1>3. LineDelta(c) \in Int /\ Line(c).item \in Items
  BY <1>1, PostedLine
<1>4. IsLayerRow(NewLayer(c))
  <2>1. work[c].doc \in Docs /\ work[c].stamp \in Nat
    BY <1>1, BusyHasDoc DEF At, RowsAreTyped, Request
  <2> QED
    BY <1>1, <1>3, <2>1 DEF NewLayer, IsLayerRow, LayerRow
<1>5. /\ written'[c].layer = Over(Only(l, NewLayer(c)), written[c].layer)
      /\ written'[c].balance = written[c].balance /\ written'[c].moved = written[c].moved
      /\ UNCHANGED <<layer, read>>
  BY DEF AddLayer, WrittenIsOwn, OwnRows, db
<1>6. l \notin DOMAIN layer /\ \A x \in Clients : l \notin DOMAIN written[x].layer
  BY DEF AddLayer
<1>7. /\ DOMAIN written'[c].layer = DOMAIN written[c].layer \union {l}
      /\ written'[c].layer[l] = NewLayer(c)
      /\ \A k \in DOMAIN written[c].layer : written'[c].layer[k] = written[c].layer[k]
  <2> DEFINE f == written[c].layer
             row == NewLayer(c)
  <2>1. l \notin DOMAIN f /\ written'[c].layer = Over(Only(l, row), f)
    BY <1>5, <1>6
  <2> HIDE DEF f, row
  <2>2. /\ DOMAIN written'[c].layer = DOMAIN f \union {l}
        /\ written'[c].layer[l] = row
        /\ \A k \in DOMAIN f : written'[c].layer[k] = f[k]
    BY <2>1 DEF Over, Only
  <2> QED
    BY <2>2 DEF f, row
<1>8. WritesAreTyped(c)'
  BY <1>4, <1>5, <1>7 DEF Typed, RequestIsTyped, WritesAreTyped, IsLayerRow
<1>9. ReadsAreTyped(c)' /\ StepIsTyped(c)'
  <2>1. ReadsAreTyped(c)'
    BY <1>5 DEF Typed, RequestIsTyped, ReadsAreTyped
  <2>2. StepIsTyped(c)'
    BY <1>1, SameLine, NextStepIsTyped DEF At, Typed
  <2> QED
    BY <2>1, <2>2
<1>10. RowsAreLocked(c)'
  <2>1. \A x \in Clients \ {c} : written'[x] = written[x]
    BY <1>2 DEF StepOf
  <2>2. \A k \in DOMAIN LayersOf(c) : LayersOf(c)'[k].received = LayersOf(c)[k].received
    BY <1>5, <1>6, <1>7 DEF LayersOf, Over
  <2>3. \A n \in DOMAIN read[c].layers :
          read[c].layers[n].left <= LayersOf(c)'[read[c].layers[n].layer].received
    BY <2>2, ReadsStayLocked DEF Typed
  <2> QED
    BY <1>5, <1>6, <1>7, <2>1, <2>3 DEF RowsAreLocked, Typed, RequestIsTyped
<1>11. Keeps(c)
  BY <1>6, <1>7, <1>8, <1>9, <1>10 DEF Keeps, Typed, RequestIsTyped, RowsAreLocked
<1> QED
  BY <1>2, <1>11, StepStaysTyped

\* The layers read are layers the request sees, with what they have left.
LEMMA ReadLayersStaysTyped ==
  ASSUME RowsAreTyped, WrittenIsOwn, Typed, RowsAreTyped', NEW c \in Clients, ReadLayers(c)
  PROVE  Typed'
<1>1. At(c, "post", "layers") /\ GoTo(c, "take") /\ InLines(c) /\ LineDelta(c) < 0
  BY DEF ReadLayers
<1>2. StepOf(c)
  BY <1>1, SameLine DEF SameLineAt, ReadLayers, StepOf, db, WrittenIsOwn, Typed, TypeOK
<1>3. UNCHANGED <<layer, written>>
  BY DEF ReadLayers, db
<1>4. PICK s \in Orders(Available(c)) :
        read' = [read EXCEPT ![c].layers =
                   [n \in DOMAIN s |-> [layer |-> s[n], left |-> LayersOf(c)[s[n]].left]]]
  BY DEF ReadLayers
<1>5. /\ read'[c].balance = read[c].balance
      /\ read'[c].layers = [n \in DOMAIN s |-> [layer |-> s[n], left |-> LayersOf(c)[s[n]].left]]
  BY <1>4 DEF WrittenIsOwn, OwnRows
<1>6. \A k \in DOMAIN LayersOf(c) :
        k \in Layers /\ LayersOf(c)[k].left \in Nat /\ LayersOf(c)[k].left <= LayersOf(c)[k].received
  BY SeenIsTyped, LayerNumbers DEF RowsOfLayers
<1>7. Available(c) \subseteq DOMAIN LayersOf(c) /\ Available(c) \subseteq Layers
  BY <1>6 DEF Available
<1>8. /\ DOMAIN s = 1..Cardinality(Available(c)) /\ Cardinality(Available(c)) \in Nat
      /\ \A n \in DOMAIN s : s[n] \in Available(c)
  <2> DEFINE S == Available(c)
  <2>1. IsFiniteSet(S) /\ s \in Orders(S)
    BY <1>7, FS_Subset, WarehouseAssumption
  <2> HIDE DEF S
  <2>2. DOMAIN s = 1..Cardinality(S) /\ Cardinality(S) \in Nat /\ s \in [1..Cardinality(S) -> S]
    BY <2>1, OrdersAreOnto
  <2>3. \A n \in DOMAIN s : s[n] \in S
    BY <2>2
  <2> QED
    BY <2>2, <2>3 DEF S
<1>9. \A n \in DOMAIN s : s[n] \in Layers /\ s[n] \in DOMAIN LayersOf(c)
  BY <1>7, <1>8
<1>10. ReadsAreTyped(c)'
  <2> DEFINE N == Cardinality(Available(c))
             S == [layer: Layers, left: Nat]
             f == [n \in DOMAIN s |-> [layer |-> s[n], left |-> LayersOf(c)[s[n]].left]]
  <2>1. f \in [1..N -> S] /\ N \in Nat
    BY <1>6, <1>8, <1>9
  <2> HIDE DEF N, S, f
  <2>2. f \in Seq(S)
    BY <2>1, IsSequence
  <2>3. read'[c].layers \in Seq([layer: Layers, left: Nat])
    BY <1>5, <2>2 DEF f, S
  <2> QED
    BY <1>5, <2>3 DEF ReadsAreTyped, Typed, RequestIsTyped
<1>11. WritesAreTyped(c)' /\ StepIsTyped(c)'
  <2>1. WritesAreTyped(c)'
    BY <1>3 DEF Typed, RequestIsTyped, WritesAreTyped, IsLayerRow
  <2>2. StepIsTyped(c)'
    BY <1>1, SameLine, NextStepIsTyped DEF At, Typed
  <2> QED
    BY <2>1, <2>2
<1>12. RowsAreLocked(c)'
  <2>1. LayersOf(c)' = LayersOf(c)
    BY <1>3 DEF LayersOf
  <2>2. \A n \in DOMAIN read'[c].layers :
          read'[c].layers[n].left <= LayersOf(c)'[read'[c].layers[n].layer].received
    BY <1>5, <1>6, <1>9, <2>1
  <2> QED
    BY <1>3, <2>2 DEF RowsAreLocked, Typed, RequestIsTyped
<1>13. Keeps(c)
  BY <1>3, <1>10, <1>11, <1>12 DEF Keeps, Typed, RequestIsTyped, RowsAreLocked
<1> QED
  BY <1>2, <1>13, StepStaysTyped

\* What is taken of a layer is what was read of it at most, so its row stays one.
LEMMA TakeStaysTyped ==
  ASSUME RowsAreTyped, WrittenIsOwn, Typed, RowsAreTyped', NEW c \in Clients, TakeLayers(c)
  PROVE  Typed'
<1>1. At(c, "post", "take") /\ GoTo(c, "balance")
  BY DEF TakeLayers
<1>2. StepOf(c)
  BY <1>1, SameLine DEF SameLineAt, TakeLayers, StepOf, db, WrittenIsOwn, Typed, TypeOK
<1>3. InLines(c) /\ LineDelta(c) < 0
  BY <1>1 DEF At, Typed, RequestIsTyped, StepIsTyped
<1>4. LineDelta(c) \in Int
  BY <1>3, PostedLine
<1>5. ReadsAreTyped(c)
  BY DEF Typed, RequestIsTyped
<1>6. /\ written'[c].layer = Over([l \in TakenLayers(c) |-> Lessened(c, l)], written[c].layer)
      /\ written'[c].balance = written[c].balance
      /\ written'[c].moved =
           [l \in Layers |-> written[c].moved[l]
                               + IF l \in TakenLayers(c) THEN Take(c, Place(c, l)) ELSE 0]
      /\ read'[c] = NothingRead /\ UNCHANGED layer
  BY DEF TakeLayers, WrittenIsOwn, OwnRows, db
<1>7. /\ TakeOf(c) \in [Layers -> Nat]
      /\ \A l \in TakenLayers(c) :
           /\ l \in Layers
           /\ TakeOf(c)[l] = Take(c, Place(c, l))
           /\ Place(c, l) \in DOMAIN read[c].layers /\ read[c].layers[Place(c, l)].layer = l
           /\ TakeOf(c)[l] <= read[c].layers[Place(c, l)].left
      /\ \A l \in Layers \ TakenLayers(c) : TakeOf(c)[l] = 0
  BY <1>3, <1>4, <1>5, TakeOfIs
<1>8. written'[c].moved = [l \in Layers |-> written[c].moved[l] + TakeOf(c)[l]]
  BY <1>6 DEF TakeOf
<1>9. ASSUME NEW l \in TakenLayers(c)
      PROVE  /\ l \in DOMAIN LayersOf(c) /\ l \in Layers
             /\ IsLayerRow(Lessened(c, l))
             /\ Lessened(c, l).received = LayersOf(c)[l].received
  <2> DEFINE n == Place(c, l)
             row == LayersOf(c)[l]
             left == read[c].layers[n].left
  <2>1. n \in DOMAIN read[c].layers /\ read[c].layers[n].layer = l /\ l \in Layers
    BY <1>7
  <2>2. l \in DOMAIN LayersOf(c)
    BY <2>1 DEF WrittenIsOwn, OwnRows
  <2>3. IsLayerRow(row)
    BY <2>2, SeenIsTyped DEF RowsOfLayers
  <2>4. left \in Nat /\ left <= row.received
    <3>1. left \in Nat
      BY <1>5, <2>1, LeftReadIs
    <3>2. left <= row.received
      BY <2>1 DEF Typed, RequestIsTyped, RowsAreLocked
    <3> QED
      BY <3>1, <3>2
  <2>5. Take(c, n) \in Nat /\ Take(c, n) <= left
    BY <1>7
  <2>6. Lessened(c, l) = [row EXCEPT !.left = left - Take(c, n)]
    BY DEF Lessened
  <2> HIDE DEF n, row, left
  <2>7. row \in LayerRow /\ row.received \in Nat
    BY <2>3 DEF IsLayerRow, LayerRow
  <2>8. left - Take(c, n) \in Nat /\ left - Take(c, n) <= row.received
    BY <2>4, <2>5, <2>7
  <2>9. IsLayerRow(Lessened(c, l)) /\ Lessened(c, l).received = row.received
    BY <2>6, <2>7, <2>8 DEF IsLayerRow, LayerRow
  <2> QED
    BY <2>1, <2>2, <2>9 DEF row
<1>10. WritesAreTyped(c)'
  <2>1. /\ DOMAIN written'[c].layer \subseteq Layers
        /\ \A l \in DOMAIN written'[c].layer : IsLayerRow(written'[c].layer[l])
    BY <1>6, <1>9 DEF Over, Typed, RequestIsTyped, WritesAreTyped
  <2>2. written'[c].moved \in [Layers -> Nat]
    BY <1>7, <1>8 DEF Typed, RequestIsTyped, WritesAreTyped
  <2> QED
    BY <1>6, <2>1, <2>2 DEF Typed, RequestIsTyped, WritesAreTyped, IsLayerRow
<1>11. ReadsAreTyped(c)'
  <2>1. <<>> \in Seq([layer: Layers, left: Nat])
    BY EmptySeq
  <2> QED
    BY <1>6, <2>1 DEF ReadsAreTyped, NothingRead
<1>12. StepIsTyped(c)'
  BY <1>1, <1>3, SameLine, NextStepIsTyped DEF At, Typed
<1>13. \A x \in Clients \ {c} : written'[x] = written[x] /\ TakenLayers(c) \cap DOMAIN written[x].layer = {}
  BY <1>2 DEF StepOf, TakeLayers
<1>14. RowsAreLocked(c)'
  <2>1. \A l \in DOMAIN written'[c].layer : l \in DOMAIN layer =>
          written'[c].layer[l].received = layer[l].received
    <3>1. ASSUME NEW l \in TakenLayers(c), l \in DOMAIN layer
          PROVE  LayersOf(c)[l].received = layer[l].received
      BY <3>1 DEF LayersOf, Over, Typed, RequestIsTyped, RowsAreLocked
    <3>2. \A l \in DOMAIN written[c].layer : l \in DOMAIN layer =>
            written[c].layer[l].received = layer[l].received
      BY DEF Typed, RequestIsTyped, RowsAreLocked
    <3> QED
      BY <1>6, <1>9, <3>1, <3>2 DEF Over
  <2>2. \A l \in DOMAIN written'[c].layer : \A x \in Clients \ {c} : l \notin DOMAIN written'[x].layer
    BY <1>6, <1>13 DEF Over, Typed, RequestIsTyped, RowsAreLocked
  <2> QED
    BY <1>6, <2>1, <2>2 DEF RowsAreLocked, NothingRead
<1>15. Keeps(c)
  <2>1. \A x \in Clients \ {c} : \A l \in DOMAIN written[x].layer : l \notin DOMAIN written'[c].layer
    BY <1>6, <1>13 DEF Over, Typed, RequestIsTyped, RowsAreLocked
  <2> QED
    BY <1>10, <1>11, <1>12, <1>14, <2>1 DEF Keeps, RequestIsTyped
<1> QED
  BY <1>2, <1>15, StepStaysTyped

\* The balance read is a number, ...
LEMMA ReadBalanceStaysTyped ==
  ASSUME RowsAreTyped, WrittenIsOwn, Typed, RowsAreTyped', NEW c \in Clients, ReadBalance(c)
  PROVE  Typed'
<1>1. At(c, "post", "balance") /\ GoTo(c, "store")
  BY DEF ReadBalance
<1>2. StepOf(c)
  BY <1>1, SameLine DEF SameLineAt, ReadBalance, StepOf, db, WrittenIsOwn, Typed, TypeOK
<1>3. /\ UNCHANGED <<layer, written>> /\ read'[c].layers = read[c].layers
      /\ read'[c].balance = IF HasBalance(c) THEN BalanceOf(c)[Line(c).item] ELSE 0
  BY DEF ReadBalance, db, WrittenIsOwn, OwnRows
<1>4. read'[c].balance \in Int
  <2>1. \A i \in DOMAIN BalanceOf(c) : BalanceOf(c)[i] \in Int
    BY DEF BalanceOf, Over, Typed, TypeOK, RequestIsTyped, WritesAreTyped
  <2> QED
    BY <1>3, <2>1 DEF HasBalance
<1>5. WritesAreTyped(c)' /\ RowsAreLocked(c)'
  BY <1>3 DEF Typed, RequestIsTyped, WritesAreTyped, IsLayerRow, RowsAreLocked, LayersOf
<1>6. ReadsAreTyped(c)'
  BY <1>3, <1>4 DEF Typed, RequestIsTyped, ReadsAreTyped
<1>7. StepIsTyped(c)'
  <2>1. InLines(c) /\ work[c].op = "post"
    BY <1>1 DEF At, Typed, RequestIsTyped, StepIsTyped
  <2> QED
    BY <1>1, <2>1, SameLine, NextStepIsTyped DEF Typed
<1>8. Keeps(c)
  BY <1>3, <1>5, <1>6, <1>7 DEF Keeps, Typed, RequestIsTyped, RowsAreLocked
<1> QED
  BY <1>2, <1>8, StepStaysTyped

\* ... and so is the one written.
LEMMA StoreStaysTyped ==
  ASSUME RowsAreTyped, WrittenIsOwn, Typed, RowsAreTyped', NEW c \in Clients, StoreBalance(c)
  PROVE  Typed'
<1>1. At(c, "post", "store") /\ InLines(c)
  BY DEF StoreBalance, At, Typed, RequestIsTyped, StepIsTyped
<1>2. StepOf(c)
  BY DEF StoreBalance, StepOf, db, WrittenIsOwn, RowsAreTyped, Typed, TypeOK
<1>3. /\ UNCHANGED layer /\ read'[c] = NothingRead
      /\ written'[c].layer = written[c].layer /\ written'[c].moved = written[c].moved
      /\ written'[c].balance = Over(Only(Line(c).item, read[c].balance + LineDelta(c)), written[c].balance)
      /\ \A x \in Clients \ {c} : written'[x] = written[x]
  BY DEF StoreBalance, db, WrittenIsOwn, OwnRows
<1>4. LineDelta(c) \in Int /\ Line(c).item \in Items
  BY <1>1, PostedLine
<1>5. read[c].balance + LineDelta(c) \in Int
  BY <1>4 DEF Typed, RequestIsTyped, ReadsAreTyped
<1>6. WritesAreTyped(c)'
  <2>1. DOMAIN written'[c].balance \subseteq Items /\ \A i \in DOMAIN written'[c].balance : written'[c].balance[i] \in Int
    BY <1>3, <1>4, <1>5 DEF Over, Only, Typed, RequestIsTyped, WritesAreTyped
  <2> QED
    BY <1>3, <2>1 DEF Typed, RequestIsTyped, WritesAreTyped, IsLayerRow
<1>7. ReadsAreTyped(c)'
  <2>1. <<>> \in Seq([layer: Layers, left: Nat])
    BY EmptySeq
  <2> QED
    BY <1>3, <2>1 DEF ReadsAreTyped, NothingRead
<1>8. StepIsTyped(c)'
  <2>1. work'[c].step = "layers" /\ work'[c].line = work[c].line + 1 /\ work'[c].lines = work[c].lines
    BY DEF StoreBalance, RowsAreTyped, Request
  <2>2. Len(work[c].lines) \in Nat
    BY DEF RowsAreTyped, Request, LineList
  <2> QED
    BY <1>1, <2>1, <2>2 DEF Typed, RequestIsTyped, StepIsTyped, InLines
<1>9. RowsAreLocked(c)'
  BY <1>3 DEF Typed, RequestIsTyped, RowsAreLocked, NothingRead
<1>10. Keeps(c)
  BY <1>3, <1>6, <1>7, <1>8, <1>9 DEF Keeps, Typed, RequestIsTyped, RowsAreLocked
<1> QED
  BY <1>2, <1>10, StepStaysTyped

\* Rows are typed where nothing is committed.
LEMMA NoLayerCommitted ==
  ASSUME Typed, UNCHANGED layer, NEW c \in Clients, Finish(c), DOMAIN written = Clients
  PROVE  LayersStay /\ \A x \in Clients \ {c} : LocksStay(x)
BY DEF LayersStay, LocksStay, Finish, Typed, RequestIsTyped, RowsAreLocked, NothingWritten, Nothing

\* So do the ends that post nothing.
LEMMA EndsStayTyped ==
  ASSUME RowsAreTyped, WrittenIsOwn, Typed, RowsAreTyped', NEW c \in Clients,
         Rollback(c) \/ MarkCancelled(c) \/ \E lines \in Lines : ReplaceLines(c, lines)
  PROVE  Typed'
<1>1. Finish(c) /\ UNCHANGED <<layer, balance>>
  BY DEF Rollback, MarkCancelled, ReplaceLines, db
<1>2. moved' \in [Docs -> [Layers -> Nat]]
  <2>1. NoMoves \in [Layers -> Nat]
    BY DEF NoMoves
  <2>2. UNCHANGED moved \/ moved' = [moved EXCEPT ![work[c].doc] = NoMoves]
    BY DEF Rollback, MarkCancelled, ReplaceLines, db
  <2> QED
    BY <2>1, <2>2 DEF Typed, TypeOK
<1>3. TablesAreTyped'
  BY <1>1, <1>2 DEF TablesAreTyped, Typed, TypeOK, IsLayerRow
<1>4. LayersStay /\ \A x \in Clients \ {c} : LocksStay(x)
  BY <1>1, NoLayerCommitted DEF WrittenIsOwn
<1> QED
  BY <1>1, <1>3, <1>4, EndStaysTyped

\* A posting commits rows that are typed.
LEMMA PostingStaysTyped ==
  ASSUME RowsAreTyped, WrittenIsOwn, Typed, RowsAreTyped', NEW c \in Clients, MarkPosted(c)
  PROVE  Typed'
<1>1. /\ Finish(c)
      /\ layer' = Over(written[c].layer, layer) /\ balance' = Over(written[c].balance, balance)
      /\ moved' = [moved EXCEPT ![work[c].doc] = [l \in Layers |-> @[l] + written[c].moved[l]]]
  BY DEF MarkPosted
<1>2. WritesAreTyped(c) /\ RowsAreLocked(c)
  BY DEF Typed, RequestIsTyped
<1>3. /\ DOMAIN layer' \subseteq Layers
      /\ \A l \in DOMAIN layer' : IsLayerRow(layer'[l])
  BY <1>1, <1>2 DEF Over, WritesAreTyped, Typed, TypeOK, IsLayerRow
<1>4. /\ DOMAIN balance' \subseteq Items
      /\ \A i \in DOMAIN balance' : balance'[i] \in Int
  BY <1>1, <1>2 DEF Over, WritesAreTyped, Typed, TypeOK
<1>5. moved' \in [Docs -> [Layers -> Nat]]
  <2> DEFINE m == written[c].moved
             d == work[c].doc
  <2>1. m \in [Layers -> Nat] /\ moved \in [Docs -> [Layers -> Nat]]
    BY <1>2 DEF WritesAreTyped, Typed, TypeOK
  <2>2. moved' = [moved EXCEPT ![d] = [l \in Layers |-> moved[d][l] + m[l]]]
    BY <1>1
  <2>3. d \in Docs
    BY BusyHasDoc DEF MarkPosted, At
  <2> HIDE DEF m, d
  <2>4. [l \in Layers |-> moved[d][l] + m[l]] \in [Layers -> Nat]
    BY <2>1, <2>3
  <2> QED
    BY <2>1, <2>2, <2>4
<1>f. /\ layer' = [l \in DOMAIN layer' |-> layer'[l]]
      /\ balance' = [i \in DOMAIN balance' |-> balance'[i]]
  BY <1>1 DEF Over
<1>6. TablesAreTyped'
  <2>1. layer' \in [DOMAIN layer' -> LayerRow]
    BY <1>3, <1>f DEF IsLayerRow
  <2>2. balance' \in [DOMAIN balance' -> Int]
    BY <1>4, <1>f
  <2> QED
    BY <1>3, <1>4, <1>5, <2>1, <2>2 DEF TablesAreTyped, IsLayerRow
<1>7. LayersStay
  BY <1>1, <1>2 DEF LayersStay, Over, RowsAreLocked
<1>8. \A x \in Clients \ {c} : LocksStay(x)
  <2>1. /\ written'[c] = NothingWritten /\ \A x \in Clients \ {c} : written'[x] = written[x]
        /\ DOMAIN layer' = DOMAIN written[c].layer \union DOMAIN layer
    BY <1>1 DEF Finish, WrittenIsOwn, Over
  <2> QED
    BY <2>1 DEF LocksStay, Typed, RequestIsTyped, RowsAreLocked, NothingWritten, Nothing
<1> QED
  BY <1>1, <1>6, <1>7, <1>8, EndStaysTyped

\* So does what concerns no request.
LEMMA SameStaysTyped ==
  ASSUME Typed, RowsAreTyped',
         UNCHANGED <<layer, moved, balance, last, work, local, requests, overlapped>>
  PROVE  Typed'
<1>1. UNCHANGED <<layer, moved, balance, last, work, read, written, requests, overlapped>>
  BY DEF local
<1>2. TypeOK'
  BY <1>1 DEF TypeOK, Typed, RowsAreTyped
<1>3. ASSUME NEW c \in Clients PROVE RequestIsTyped(c)'
  <2>1. RequestIsTyped(c)
    BY DEF Typed
  <2>2. WritesAreTyped(c)' /\ ReadsAreTyped(c)'
    BY <1>1, <2>1 DEF RequestIsTyped, WritesAreTyped, ReadsAreTyped, IsLayerRow
  <2>3. StepIsTyped(c)'
    BY <1>1, <2>1 DEF RequestIsTyped, StepIsTyped, InLines, LineDelta, Line
  <2>4. RowsAreLocked(c)'
    BY <1>1, <2>1 DEF RequestIsTyped, RowsAreLocked, LayersOf, Over
  <2> QED
    BY <2>2, <2>3, <2>4 DEF RequestIsTyped
<1> QED
  BY <1>2, <1>3 DEF Typed

\* Every step keeps the types, whatever requests overlap.
LEMMA TypedNext == IInv /\ Typed /\ [Next]_vars => Typed'
<1> SUFFICES ASSUME IInv, Typed, [Next]_vars PROVE Typed'
  OBVIOUS
<1>0. RowsAreTyped /\ WrittenIsOwn /\ RowsAreTyped'
  BY RowsNext DEF IInv
<1>1. ASSUME NEW c \in Clients, NEW d \in Docs, NEW op \in {"post", "update", "cancel"}, Load(c, d, op)
      PROVE  Typed'
  BY <1>0, <1>1, LoadStaysTyped
<1>2. ASSUME NEW c \in Clients, NEW l \in Layers, AddLayer(c, l)
      PROVE  Typed'
  BY <1>0, <1>2, AddStaysTyped
<1>3. ASSUME NEW c \in Clients, ReadLayers(c) \/ TakeLayers(c) \/ ReadBalance(c) \/ StoreBalance(c)
      PROVE  Typed'
  BY <1>0, <1>3, ReadLayersStaysTyped, TakeStaysTyped, ReadBalanceStaysTyped, StoreStaysTyped
<1>4. ASSUME NEW c \in Clients, MarkPosted(c)
      PROVE  Typed'
  BY <1>0, <1>4, PostingStaysTyped
<1>5. ASSUME NEW c \in Clients,
             Rollback(c) \/ MarkCancelled(c) \/ \E lines \in Lines : ReplaceLines(c, lines)
      PROVE  Typed'
  BY <1>0, <1>5, EndsStayTyped
<1>6. ASSUME NEW d \in Docs, NEW kind \in Kinds, NEW lines \in Lines, CreateDocument(d, kind, lines)
      PROVE  Typed'
  <2>1. UNCHANGED <<layer, moved, balance, last, work, local, requests, overlapped>>
    BY <1>6 DEF CreateDocument
  <2> QED
    BY <1>0, <2>1, SameStaysTyped
<1>7. CASE UNCHANGED vars
  <2>1. UNCHANGED <<layer, moved, balance, last, work, local, requests, overlapped>>
    BY <1>7 DEF vars, db
  <2> QED
    BY <1>0, <2>1, SameStaysTyped
<1> QED
  BY <1>1, <1>2, <1>3, <1>4, <1>5, <1>6, <1>7 DEF Next, PostStep

\* The initial state has its types.
LEMMA TypedInit == Init => Typed
<1> SUFFICES ASSUME Init PROVE Typed
  OBVIOUS
<1>1. TypeOK
  <2>1. RowsAreTyped
    BY RowsInit
  <2>2. requests \in 0..MaxRequests /\ overlapped \in BOOLEAN
    <3>1. MaxRequests \in Nat
      BY WarehouseAssumption
    <3>2. requests = 0
      BY DEF Init
    <3>3. requests \in 0..MaxRequests
      BY <3>1, <3>2
    <3>4. overlapped \in BOOLEAN
      BY DEF Init
    <3> QED
      BY <3>3, <3>4
  <2>3. moved \in [Docs -> [Layers -> Nat]]
    BY DEF Init, NoMoves
  <2> QED
    BY <2>1, <2>2, <2>3 DEF Init, TypeOK, RowsAreTyped, Nothing
<1>2. ASSUME NEW c \in Clients PROVE RequestIsTyped(c)
  <2>1. work[c] = Free /\ read[c] = NothingRead /\ written[c] = NothingWritten
    BY DEF Init
  <2>2. WritesAreTyped(c)
    BY <2>1 DEF WritesAreTyped, NothingWritten, Nothing, NoMoves
  <2>3. ReadsAreTyped(c)
    <3>1. <<>> \in Seq([layer: Layers, left: Nat])
      BY EmptySeq
    <3> QED
      BY <2>1, <3>1 DEF ReadsAreTyped, NothingRead
  <2>4. StepIsTyped(c)
    BY <2>1 DEF StepIsTyped, Free
  <2>5. RowsAreLocked(c)
    BY <2>1 DEF RowsAreLocked, NothingWritten, Nothing, NothingRead
  <2> QED
    BY <2>2, <2>3, <2>4, <2>5 DEF RequestIsTyped
<1> QED
  BY <1>1, <1>2 DEF Typed

-----------------------------------------------------------------------------
(* Books that no step touches *)

\* No lines are nothing, also after a step.
LEMMA NoLinesNext ==
  ASSUME NEW d, NEW i
  PROVE  OrderedBy(d, i, 0)' = 0 /\ IssuedBy(d, 0)' = 0
<1>1. 1..0 = {}
  OBVIOUS
<1> QED
  BY <1>1, SumIs, SumEmpty DEF OrderedBy, IssuedBy

\* The first lines of a document that keeps them say the same.
LEMMA SameLines ==
  ASSUME NEW d, NEW i, NEW k,
         (doc'[d].lines = doc[d].lines /\ doc'[d].kind = doc[d].kind) \/ k = 0
  PROVE  OrderedBy(d, i, k)' = OrderedBy(d, i, k) /\ IssuedBy(d, k)' = IssuedBy(d, k)
<1>1. CASE doc'[d].lines = doc[d].lines /\ doc'[d].kind = doc[d].kind
  BY <1>1 DEF OrderedBy, IssuedBy
<1>2. CASE k = 0
  BY <1>2, NoLines, NoLinesNext
<1> QED
  BY <1>1, <1>2

\* Books stay when the lines that are done do.
DoneLinesStay(done) ==
  \A e \in Docs :
    (doc'[e].lines = doc[e].lines /\ doc'[e].kind = doc[e].kind) \/ done[e] = 0
LEMMA BooksStay ==
  ASSUME NEW rows, RowsOfLayers(rows), NEW balances, NEW moves, NEW done, NEW pending,
         Books(rows, balances, moves, done, pending),
         DoneLinesStay(done), requests \in Nat, requests' \in Nat, requests <= requests'
  PROVE  Books(rows, balances, moves, done, pending)'
<1>1. StockAgrees(rows, balances, pending)' /\ MovesAddUp(rows, moves)'
  BY DEF Books, StockAgrees, MovesAddUp
<1>2. LinesAreMoved(rows, moves, done)'
  BY SameLines DEF Books, LinesAreMoved, DoneLinesStay
<1>3. OldestGoFirst(rows)'
  <2>1. \A l \in DOMAIN rows : rows[l].stamp \in Nat /\ rows[l].stamp <= requests
    BY LayerNumbers DEF RowsOfLayers, Books, OldestGoFirst
  <2>2. \A l \in DOMAIN rows : rows[l].stamp <= requests'
    BY <2>1
  <2> QED
    BY <2>2 DEF Books, OldestGoFirst
<1> QED
  BY <1>1, <1>2, <1>3 DEF Books

-----------------------------------------------------------------------------
(* The books that are committed, and those of a request *)

\* The books of what is committed, and those that a request sees.
Committed == Books(layer, balance, moved, [d \in Docs |-> Posted(d)], NotPending)
InRequest(c) == Books(LayersOf(c), BalanceOf(c), MovedOf(c), Done(c), Pending(c))
LEMMA AloneIs ==
  Alone <=> /\ DocumentsAreValid
            /\ Committed
            /\ \A c \in Clients : Busy(c) =>
                 (\A x \in Clients \ {c} : ~Busy(x)) /\ ReadIsCurrent(c) /\ InRequest(c)
BY DEF Alone, Committed, InRequest, NotPending

\* The quantities that a request sees are numbers.
LEMMA SeenIsNumbers ==
  ASSUME Typed, NEW c \in Clients
  PROVE  BookNumbers(BalanceOf(c), MovedOf(c)) /\ BookNumbers(balance, moved)
<1>1. \A i \in DOMAIN BalanceOf(c) : BalanceOf(c)[i] \in Int
  BY DEF BalanceOf, Over, Typed, TypeOK, RequestIsTyped, WritesAreTyped
<1>2. \A e \in Docs : MovedOf(c)[e] \in [Layers -> Int] /\ moved[e] \in [Layers -> Int]
  BY DEF MovedOf, Typed, TypeOK, RequestIsTyped, WritesAreTyped
<1> QED
  BY <1>1, <1>2 DEF BookNumbers, Typed, TypeOK

-----------------------------------------------------------------------------
(* The books of the only request *)

\* Committed books stay when nothing is committed.
LEMMA CommittedStay ==
  ASSUME Typed, Committed, RowsAreTyped, requests' \in Nat, requests <= requests',
         UNCHANGED <<layer, balance, moved>>,
         \A d \in Docs : Posted(d)' = Posted(d),
         DoneLinesStay([d \in Docs |-> Posted(d)])
  PROVE  Committed'
<1>1. RowsOfLayers(layer) /\ requests \in Nat
  BY DEF Typed, TypeOK, RowsOfLayers, IsLayerRow, RowsAreTyped
<1> DEFINE done == [d \in Docs |-> Posted(d)]
<1>2. Books(layer, balance, moved, done, NotPending) /\ DoneLinesStay(done)
  BY DEF Committed
<1>3. done = [d \in Docs |-> Posted(d)']
  OBVIOUS
<1> HIDE DEF done
<1>4. Books(layer, balance, moved, done, NotPending)'
  <2>1. done' = done
    BY <1>3 DEF done
  <2> QED
    BY <1>1, <1>2, <2>1, BooksStay
<1>5. done' = [d \in Docs |-> Posted(d)']
  BY DEF done
<1> QED
  BY <1>4, <1>5 DEF Committed, done

\* A step inside the only request keeps the books if it keeps those of the
\* request.
LEMMA StepKeepsAlone ==
  ASSUME RowsAreTyped, Typed, Alone, NEW c \in Clients, Busy(c), StepOf(c), UNCHANGED requests,
         ReadIsCurrent(c)', InRequest(c)'
  PROVE  Alone'
<1>1. UNCHANGED <<doc, layer, balance, moved>>
  BY DEF StepOf
<1>2. DocumentsAreValid'
  BY <1>1, AloneIs DEF DocumentsAreValid, IsValid, WasPosted
<1>3. Committed'
  <2>1. \A d \in Docs : Posted(d)' = Posted(d)
    BY <1>1 DEF Posted
  <2>2. DoneLinesStay([d \in Docs |-> Posted(d)])
    BY <1>1 DEF DoneLinesStay
  <2>3. requests' \in Nat /\ requests <= requests'
    BY DEF RowsAreTyped
  <2> QED
    BY <1>1, <2>1, <2>2, <2>3, AloneIs, CommittedStay
<1>4. \A x \in Clients \ {c} : ~Busy(x)'
  BY AloneIs DEF StepOf, Busy
<1>5. \A x \in Clients : Busy(x)' =>
        (\A y \in Clients \ {x} : ~Busy(y)') /\ ReadIsCurrent(x)' /\ InRequest(x)'
  BY <1>4
<1> QED
  BY <1>2, <1>3, <1>5 DEF Alone, Committed, InRequest, NotPending

\* The line that the only request is about to post.
LEMMA LineToPost ==
  ASSUME RowsAreTyped, RequestsAreCurrent, Typed, NEW c \in Clients, Busy(c), ReadIsCurrent(c),
         InLines(c)
  PROVE  /\ work[c].doc \in Docs /\ doc[work[c].doc].status = "draft"
         /\ work[c].line - 1 \in Nat /\ work[c].line = work[c].line - 1 + 1
         /\ NextLine(work[c].doc, work[c].line - 1, Line(c).item, LineDelta(c))
         /\ LineDelta(c) \in Int /\ Line(c).item \in Items
<1>1. work[c].doc \in Docs /\ work[c].kind = doc[work[c].doc].kind
  BY BusyHasDoc DEF RequestsAreCurrent
<1>2. work[c].line \in DOMAIN work[c].lines /\ LineDelta(c) \in Int /\ Line(c).item \in Items
  BY PostedLine
<1>3. work[c].line - 1 \in Nat /\ work[c].line = work[c].line - 1 + 1
  <2>1. work[c].lines \in Seq(LineRow)
    BY DEF RowsAreTyped, Request, LineList
  <2>2. work[c].line \in 1..Len(work[c].lines) /\ Len(work[c].lines) \in Nat
    BY <1>2, <2>1
  <2> QED
    BY <2>2
<1>4. doc[work[c].doc].lines = work[c].lines /\ doc[work[c].doc].status = "draft"
  BY DEF ReadIsCurrent
<1>5. Line(c) = doc[work[c].doc].lines[work[c].line]
  BY <1>4 DEF Line
<1>6. LineDelta(c) = Delta(doc[work[c].doc].kind, doc[work[c].doc].lines[work[c].line])
  BY <1>1, <1>5 DEF LineDelta
<1>7. NextLine(work[c].doc, work[c].line - 1, Line(c).item, LineDelta(c))
  BY <1>2, <1>3, <1>4, <1>5, <1>6 DEF NextLine
<1> QED
  BY <1>1, <1>2, <1>3, <1>4, <1>7

\* The lines done before and after the quantities of a line are moved.
LEMMA DoneBefore ==
  ASSUME NEW c \in Clients, ~LayersDone(c), work[c].doc \in Docs
  PROVE  Done(c)[work[c].doc] = work[c].line - 1 /\ Pending(c) = NotPending
BY DEF Done, Pending, NotPending
LEMMA DoneAfter ==
  ASSUME NEW c \in Clients, UNCHANGED doc, work[c].doc \in Docs, ~LayersDone(c),
         SameLineAt(c, "balance")
  PROVE  /\ Done(c)' = Advanced(Done(c), work[c].doc, work[c].line)
         /\ Pending(c)' = PendingLine(Line(c).item, LineDelta(c))
<1>1. Line(c)' = Line(c) /\ LineDelta(c)' = LineDelta(c)
  BY LineStays
<1>2. work'[c].doc = work[c].doc /\ work'[c].line = work[c].line /\ LayersDone(c)'
  BY DEF SameLineAt, LayersDone
<1>3. \A d \in Docs : Posted(d)' = Posted(d)
  BY DEF Posted
<1>4. Done(c)' = [d \in Docs |-> IF d = work[c].doc THEN work[c].line ELSE Posted(d)]
  BY <1>2, <1>3 DEF Done
<1>5. \A d \in Docs : Advanced(Done(c), work[c].doc, work[c].line)[d]
                        = IF d = work[c].doc THEN work[c].line ELSE Posted(d)
  BY DEF Advanced, Done
<1>6. Done(c)' = Advanced(Done(c), work[c].doc, work[c].line)
  BY <1>4, <1>5 DEF Advanced
<1>7. Pending(c)' = PendingLine(Line(c).item, LineDelta(c))
  BY <1>1, <1>2 DEF Pending, PendingLine
<1> QED
  BY <1>6, <1>7

\* What a request is told when it is alone.
LEMMA AloneRequest ==
  ASSUME IInv, Typed, Alone, NEW c \in Clients, Busy(c)
  PROVE  /\ RowsAreTyped /\ RequestsAreCurrent /\ WrittenIsOwn /\ RequestIsTyped(c)
         /\ ReadIsCurrent(c) /\ InRequest(c)
         /\ \A x \in Clients \ {c} : ~Busy(x)
BY AloneIs DEF IInv, Typed

\* Nothing changes for a request that only reads.
LEMMA SeesTheSame ==
  ASSUME NEW c \in Clients, UNCHANGED <<doc, layer, balance, moved>>, written'[c] = written[c],
         work'[c].doc = work[c].doc
  PROVE  /\ LayersOf(c)' = LayersOf(c) /\ BalanceOf(c)' = BalanceOf(c) /\ MovedOf(c)' = MovedOf(c)
         /\ \A d \in Docs : Posted(d)' = Posted(d)
BY DEF LayersOf, BalanceOf, MovedOf, Posted

\* Books are kept by what leaves the documents alone.
LEMMA BooksStayInside ==
  ASSUME RowsAreTyped, UNCHANGED <<doc, requests>>,
         NEW rows, RowsOfLayers(rows), NEW balances, NEW moves, NEW done, NEW pending,
         Books(rows, balances, moves, done, pending)
  PROVE  Books(rows, balances, moves, done, pending)'
<1>1. DoneLinesStay(done)
  BY DEF DoneLinesStay
<1>2. requests \in Nat /\ requests' \in Nat /\ requests <= requests'
  BY DEF RowsAreTyped
<1> QED
  BY <1>1, <1>2, BooksStay

\* A request stays current as long as its document and its row do.
LEMMA StaysCurrent ==
  ASSUME NEW c \in Clients, ReadIsCurrent(c), UNCHANGED <<doc, requests>>,
         work'[c].doc = work[c].doc, work'[c].lines = work[c].lines,
         work'[c].version = work[c].version, work'[c].stamp = work[c].stamp,
         work'[c].step = "take" => ReadInOrder(c)',
         work'[c].step = "store" => read'[c].balance = Quantity(BalanceOf(c)', Line(c)'.item)
  PROVE  ReadIsCurrent(c)'
BY DEF ReadIsCurrent, ItemsExist

\* A layer added keeps the books of the only request.
LEMMA AddKeepsAlone ==
  ASSUME IInv, Typed, Alone, NEW c \in Clients, NEW l \in Layers, AddLayer(c, l)
  PROVE  Alone'
<1>1. At(c, "post", "layers") /\ GoTo(c, "balance") /\ InLines(c) /\ LineDelta(c) > 0 /\ Busy(c)
  BY DEF AddLayer, At
<1>2. /\ RowsAreTyped /\ RequestsAreCurrent /\ WrittenIsOwn /\ RequestIsTyped(c)
      /\ ReadIsCurrent(c) /\ InRequest(c)
  BY <1>1, AloneRequest
<1>3. SameLineAt(c, "balance")
  BY <1>1, <1>2, SameLine
<1>4. StepOf(c) /\ UNCHANGED <<doc, requests, layer, balance, moved>>
  BY <1>2, <1>3 DEF SameLineAt, AddLayer, StepOf, db, WrittenIsOwn, Typed, TypeOK
<1> DEFINE d == work[c].doc
           k == work[c].line - 1
           item == Line(c).item
           delta == LineDelta(c)
           row == NewLayer(c)
           rows == LayersOf(c)
           rows2 == Over(Only(l, row), rows)
<1>5. /\ d \in Docs /\ k \in Nat /\ work[c].line = k + 1
      /\ NextLine(d, k, item, delta) /\ delta \in Int /\ item \in Items
  BY <1>1, <1>2, LineToPost
<1>6. ~LayersDone(c) /\ Done(c)[d] = k /\ Pending(c) = NotPending
  <2>1. ~LayersDone(c)
    BY <1>1 DEF At, LayersDone
  <2> QED
    BY <1>5, <2>1, DoneBefore
<1>7. /\ written'[c].layer = Over(Only(l, row), written[c].layer)
      /\ written'[c].balance = written[c].balance /\ written'[c].moved = written[c].moved
  BY <1>2 DEF AddLayer, WrittenIsOwn, OwnRows
<1>8. l \notin DOMAIN rows
  BY DEF AddLayer, LayersOf, Over
<1>9. FreshRow(row, d, item, delta)
  <2>1. work[c].stamp = requests /\ requests \in Nat
    BY <1>2 DEF ReadIsCurrent, RowsAreTyped
  <2> QED
    BY <1>1, <1>5, <2>1 DEF FreshRow, NewLayer, IsLayerRow, LayerRow
<1>10. RowsOfLayers(rows) /\ BookNumbers(BalanceOf(c), MovedOf(c))
  BY SeenIsTyped, SeenIsNumbers
<1>11. /\ LayersOf(c)' = rows2 /\ BalanceOf(c)' = BalanceOf(c) /\ MovedOf(c)' = MovedOf(c)
  <2>1. LayersOf(c)' = Over(Over(Only(l, row), written[c].layer), layer)
    BY <1>4, <1>7 DEF LayersOf
  <2>2. LayersOf(c)' = rows2
    BY <2>1, OverTwice DEF LayersOf
  <2>3. BalanceOf(c)' = BalanceOf(c)
    BY <1>4, <1>7 DEF BalanceOf
  <2>4. MovedOf(c)' = MovedOf(c)
    BY <1>3, <1>4, <1>7 DEF MovedOf, SameLineAt
  <2> QED
    BY <2>2, <2>3, <2>4
<1>12. /\ Done(c)' = Advanced(Done(c), d, k + 1)
       /\ Pending(c)' = PendingLine(item, delta)
  BY <1>3, <1>4, <1>5, <1>6, DoneAfter
<1>13. Books(rows, BalanceOf(c), MovedOf(c), Done(c), NotPending)
  BY <1>2, <1>6 DEF InRequest
<1>14. ReadIsCurrent(c)'
  BY <1>2, <1>3, <1>4, StaysCurrent DEF SameLineAt
<1>15. doc \in [Docs -> DocumentRow] /\ requests \in Nat /\ delta > 0
  BY <1>1, <1>2 DEF RowsAreTyped
<1> HIDE DEF d, k, item, delta, row, rows, rows2
<1>16. /\ Books(rows2, BalanceOf(c), MovedOf(c), Advanced(Done(c), d, k + 1), PendingLine(item, delta))
       /\ RowsOfLayers(rows2)
  <2>1. rows2 = Over(Only(l, row), rows)
    BY DEF rows2
  <2> QED
    BY <1>5, <1>6, <1>8, <1>9, <1>10, <1>13, <1>15, <2>1, LayerKeepsBooks
<1>17. InRequest(c)'
  <2>1. Books(LayersOf(c)', BalanceOf(c)', MovedOf(c)', Done(c)', Pending(c)')
    BY <1>11, <1>12, <1>16
  <2>2. RowsOfLayers(LayersOf(c)')
    BY <1>11, <1>16
  <2> QED
    BY <1>2, <1>4, <2>1, <2>2, BooksStayInside DEF InRequest
<1> QED
  BY <1>1, <1>2, <1>4, <1>14, <1>17, StepKeepsAlone

\* The movements that a request sees grow by what it takes.
LEMMA SeenMoves ==
  ASSUME RowsAreTyped, Typed, NEW c \in Clients, UNCHANGED moved, work'[c].doc = work[c].doc,
         NEW take \in [Layers -> Nat],
         written'[c].moved = [l \in Layers |-> written[c].moved[l] + take[l]]
  PROVE  MovedOf(c)' = MovesPlus(MovedOf(c), work[c].doc, take)
<1> DEFINE d == work[c].doc
           m == written[c].moved
           old == MovedOf(c)
           new == MovesPlus(old, d, take)
<1>1. m \in [Layers -> Nat] /\ moved \in [Docs -> [Layers -> Nat]]
  BY DEF Typed, TypeOK, RequestIsTyped, WritesAreTyped
<1>2. MovedOf(c)' = [e \in Docs |-> [l \in Layers |->
                       moved[e][l] + IF e = d THEN m[l] + take[l] ELSE 0]]
  BY DEF MovedOf
<1>3. old = [e \in Docs |-> [l \in Layers |-> moved[e][l] + IF e = d THEN m[l] ELSE 0]]
  BY DEF MovedOf
<1>4. new = [e \in Docs |-> [l \in Layers |-> old[e][l] + IF e = d THEN take[l] ELSE 0]]
  BY DEF MovesPlus
<1> HIDE DEF d, m, old, new
<1>5. ASSUME NEW e \in Docs, NEW l \in Layers
      PROVE  moved[e][l] + (IF e = d THEN m[l] + take[l] ELSE 0)
               = old[e][l] + (IF e = d THEN take[l] ELSE 0)
  <2>1. moved[e][l] \in Nat /\ m[l] \in Nat /\ take[l] \in Nat
    BY <1>1
  <2>2. old[e][l] = moved[e][l] + IF e = d THEN m[l] ELSE 0
    BY <1>3
  <2> QED
    BY <2>1, <2>2
<1>6. MovedOf(c)' = new
  BY <1>2, <1>4, <1>5
<1> QED
  BY <1>6 DEF new, old, d

\* What is taken from the layers keeps them.
LEMMA TakeKeepsAlone ==
  ASSUME IInv, Typed, Alone, NEW c \in Clients, TakeLayers(c)
  PROVE  Alone'
<1>1. At(c, "post", "take") /\ GoTo(c, "balance") /\ Busy(c) /\ work[c].step = "take"
  BY DEF TakeLayers, At
<1>2. /\ RowsAreTyped /\ RequestsAreCurrent /\ WrittenIsOwn /\ RequestIsTyped(c)
      /\ ReadIsCurrent(c) /\ InRequest(c)
  BY <1>1, AloneRequest
<1>3. SameLineAt(c, "balance")
  BY <1>1, <1>2, SameLine
<1>4. StepOf(c) /\ UNCHANGED <<doc, requests, layer, balance, moved>>
  BY <1>2, <1>3 DEF SameLineAt, TakeLayers, StepOf, db, WrittenIsOwn, Typed, TypeOK
<1>i. InLines(c) /\ LineDelta(c) < 0
  BY <1>1, <1>2 DEF At, RequestIsTyped, StepIsTyped
<1> DEFINE d == work[c].doc
           k == work[c].line - 1
           item == Line(c).item
           delta == LineDelta(c)
           rows == LayersOf(c)
           take == TakeOf(c)
           rows2 == TakenFrom(rows, take)
           moves2 == MovesPlus(MovedOf(c), d, take)
<1>5. /\ d \in Docs /\ k \in Nat /\ work[c].line = k + 1
      /\ NextLine(d, k, item, delta) /\ delta \in Int /\ item \in Items
  BY <1>1, <1>2, <1>i, LineToPost
<1>6. ~LayersDone(c) /\ Done(c)[d] = k /\ Pending(c) = NotPending
  <2>1. ~LayersDone(c)
    BY <1>1 DEF At, LayersDone
  <2> QED
    BY <1>5, <2>1, DoneBefore
<1>7. /\ written'[c].layer = Over([l \in TakenLayers(c) |-> Lessened(c, l)], written[c].layer)
      /\ written'[c].balance = written[c].balance
      /\ written'[c].moved = [l \in Layers |-> written[c].moved[l] + take[l]]
  BY <1>2 DEF TakeLayers, WrittenIsOwn, OwnRows, TakeOf
<1>8. RowsOfLayers(rows) /\ BookNumbers(BalanceOf(c), MovedOf(c))
  BY SeenIsTyped, SeenIsNumbers
<1>9. ReadsAreTyped(c) /\ ReadInOrder(c)
  BY <1>1, <1>2 DEF RequestIsTyped, ReadIsCurrent
<1>10. /\ Takes(take, rows, item) /\ InTurn(take, rows, item)
       /\ SumFunctionOnSet(take, Layers) = -delta
       /\ Over([l \in TakenLayers(c) |-> Lessened(c, l)], rows) = rows2
  BY <1>2, <1>5, <1>8, <1>9, <1>i, TakeOfGives
<1>11. LayersOf(c)' = rows2 /\ BalanceOf(c)' = BalanceOf(c) /\ MovedOf(c)' = moves2
  <2>1. LayersOf(c)' = Over(Over([l \in TakenLayers(c) |-> Lessened(c, l)], written[c].layer), layer)
    BY <1>4, <1>7 DEF LayersOf
  <2>2. LayersOf(c)' = rows2
    BY <1>10, <2>1, OverTwice DEF LayersOf
  <2>3. BalanceOf(c)' = BalanceOf(c)
    BY <1>4, <1>7 DEF BalanceOf
  <2>4. MovedOf(c)' = moves2
    <3>1. take \in [Layers -> Nat]
      BY <1>10 DEF Takes
    <3>2. work'[c].doc = d
      BY <1>3 DEF SameLineAt
    <3> HIDE DEF take
    <3> QED
      BY <1>2, <1>4, <1>7, <3>1, <3>2, SeenMoves
  <2> QED
    BY <2>2, <2>3, <2>4
<1>12. /\ Done(c)' = Advanced(Done(c), d, k + 1)
       /\ Pending(c)' = PendingLine(item, delta)
  BY <1>3, <1>4, <1>5, <1>6, DoneAfter
<1>13. Books(rows, BalanceOf(c), MovedOf(c), Done(c), NotPending)
  BY <1>2, <1>6 DEF InRequest
<1>14. ReadIsCurrent(c)'
  BY <1>2, <1>3, <1>4, StaysCurrent DEF SameLineAt
<1>15. doc \in [Docs -> DocumentRow] /\ requests \in Nat /\ delta < 0
  BY <1>2, <1>i DEF RowsAreTyped
<1> HIDE DEF d, k, item, delta, rows, take, rows2, moves2
<1>16. /\ Books(rows2, BalanceOf(c), moves2, Advanced(Done(c), d, k + 1), PendingLine(item, delta))
       /\ RowsOfLayers(rows2)
  <2>1. rows2 = TakenFrom(rows, take) /\ moves2 = MovesPlus(MovedOf(c), d, take)
    BY DEF rows2, moves2
  <2>2. Books(rows2, BalanceOf(c), moves2, Advanced(Done(c), d, k + 1), PendingLine(item, delta))
    BY <1>5, <1>6, <1>8, <1>10, <1>13, <1>15, <2>1, TakingKeepsBooks
  <2>3. RowsOfLayers(rows2)
    BY <1>8, <1>10, <2>1, RowsTaken
  <2> QED
    BY <2>2, <2>3
<1>17. InRequest(c)'
  <2>1. Books(LayersOf(c)', BalanceOf(c)', MovedOf(c)', Done(c)', Pending(c)')
    BY <1>11, <1>12, <1>16
  <2>2. RowsOfLayers(LayersOf(c)')
    BY <1>11, <1>16
  <2> QED
    BY <1>2, <1>4, <2>1, <2>2, BooksStayInside DEF InRequest
<1> QED
  BY <1>1, <1>2, <1>4, <1>14, <1>17, StepKeepsAlone

\* A SELECT leaves the books of the request.
LEMMA ReadingKeepsBooks ==
  ASSUME RowsAreTyped, Typed, NEW c \in Clients, InRequest(c), StepOf(c), UNCHANGED <<requests, written>>,
         NEW step, SameLineAt(c, step), LayersDone(c)' = LayersDone(c)
  PROVE  InRequest(c)'
<1>1. UNCHANGED <<doc, layer, balance, moved>> /\ work'[c].doc = work[c].doc
  BY DEF StepOf, SameLineAt
<1>2. /\ LayersOf(c)' = LayersOf(c) /\ BalanceOf(c)' = BalanceOf(c) /\ MovedOf(c)' = MovedOf(c)
      /\ \A d \in Docs : Posted(d)' = Posted(d)
  BY <1>1, SeesTheSame
<1>3. Done(c)' = Done(c) /\ Pending(c)' = Pending(c)
  <2>1. Line(c)' = Line(c) /\ LineDelta(c)' = LineDelta(c)
    BY LineStays
  <2>2. Done(c)' = Done(c)
    BY <1>2 DEF Done, SameLineAt
  <2>3. Pending(c)' = Pending(c)
    BY <2>1 DEF Pending
  <2> QED
    BY <2>2, <2>3
<1>4. Books(LayersOf(c)', BalanceOf(c)', MovedOf(c)', Done(c)', Pending(c)')
  BY <1>2, <1>3 DEF InRequest
<1>5. RowsOfLayers(LayersOf(c)')
  BY <1>2, SeenIsTyped
<1> QED
  BY <1>1, <1>4, <1>5, BooksStayInside DEF InRequest

\* What is left in the layers, added up in the order in which they are read.
LEMMA OrderedSum ==
  ASSUME NEW rows, NEW S, IsFiniteSet(S), \A l \in S : rows[l].left \in Nat, NEW s \in Orders(S)
  PROVE  SumFunction([n \in DOMAIN s |-> rows[s[n]].left]) = SumFunction([l \in S |-> rows[l].left])
<1> DEFINE N == Cardinality(S)
           D == 1..N
           f == [n \in DOMAIN s |-> rows[s[n]].left]
           g == [l \in S |-> rows[l].left]
<1>1. /\ DOMAIN s = D /\ N \in Nat /\ s \in [D -> S]
      /\ \A m, n \in D : m # n => s[m] # s[n]
      /\ \A x \in S : \E n \in D : s[n] = x
  BY OrdersAreOnto
<1>2. IsFiniteSet(D)
  BY <1>1, FS_Interval
<1>3. IntsOn(f, D) /\ DOMAIN f = D /\ \A n \in D : g[s[n]] = f[n]
  BY <1>1 DEF IntsOn
<1>4. DOMAIN g = S
  OBVIOUS
<1> HIDE DEF N, D, f, g
<1>5. SumFunctionOnSet(g, S) = SumFunctionOnSet(f, D)
  BY <1>1, <1>2, <1>3, SumRenamed
<1>6. SumFunction(f) = SumFunction(g)
  BY <1>3, <1>4, <1>5, SumIs
<1> QED
  BY <1>6 DEF f, g

\* The SELECT of the layers finds them in their order, and enough of them.
LEMMA ReadLayersKeepsAlone ==
  ASSUME IInv, Typed, Alone, NEW c \in Clients, ReadLayers(c)
  PROVE  Alone'
<1>1. At(c, "post", "layers") /\ GoTo(c, "take") /\ Busy(c) /\ work[c].step = "layers"
  BY DEF ReadLayers, At
<1>2. /\ RowsAreTyped /\ RequestsAreCurrent /\ WrittenIsOwn /\ RequestIsTyped(c)
      /\ ReadIsCurrent(c) /\ InRequest(c)
  BY <1>1, AloneRequest
<1>3. SameLineAt(c, "take")
  BY <1>1, <1>2, SameLine
<1>4. StepOf(c) /\ UNCHANGED <<doc, requests, layer, balance, moved, written>>
  BY <1>2, <1>3 DEF SameLineAt, ReadLayers, StepOf, db, WrittenIsOwn, Typed, TypeOK
<1>5. PICK s \in Orders(Available(c)) :
        /\ OldestFirst(c, s)
        /\ read' = [read EXCEPT ![c].layers =
                     [n \in DOMAIN s |-> [layer |-> s[n], left |-> LayersOf(c)[s[n]].left]]]
  BY DEF ReadLayers
<1>6. read'[c].layers = [n \in DOMAIN s |-> [layer |-> s[n], left |-> LayersOf(c)[s[n]].left]]
  BY <1>2, <1>5 DEF WrittenIsOwn, OwnRows
<1> DEFINE t == [n \in DOMAIN read[c].layers |-> read[c].layers[n].layer]
           S == Available(c)
           N == Cardinality(S)
<1>s. s \in [1..N -> S] /\ DOMAIN s = 1..N
  BY DEF Orders
<1>7. t' = s
  <2>1. t' = [n \in DOMAIN s |-> s[n]]
    BY <1>6
  <2> QED
    BY <1>s, <2>1
<1>8. LayersOf(c)' = LayersOf(c) /\ Line(c)' = Line(c) /\ LineDelta(c)' = LineDelta(c)
  BY <1>3, <1>4, LineStays DEF LayersOf
<1>9. Available(c)' = S
  BY <1>8 DEF Available
<1>10. SumFunction([n \in DOMAIN s |-> LayersOf(c)[s[n]].left]) >= -LineDelta(c)
  <2> DEFINE rows == LayersOf(c)
  <2>1. RowsOfLayers(rows) /\ S \subseteq DOMAIN rows
    BY SeenIsTyped DEF Available
  <2>2. IsFiniteSet(S) /\ \A l \in S : rows[l].left \in Nat
    BY <2>1, LayerNumbers, FS_Subset, WarehouseAssumption DEF RowsOfLayers
  <2>3. SumFunction([l \in S |-> rows[l].left]) >= -LineDelta(c)
    BY DEF ReadLayers
  <2> HIDE DEF S, rows
  <2>4. SumFunction([n \in DOMAIN s |-> rows[s[n]].left]) = SumFunction([l \in S |-> rows[l].left])
    BY <1>5, <2>2, OrderedSum DEF S
  <2> QED
    BY <2>3, <2>4 DEF rows
<1>11. \A n \in DOMAIN s : read'[c].layers[n].left = LayersOf(c)[s[n]].left
  BY <1>6
<1>12. [n \in DOMAIN s |-> read'[c].layers[n].left] = [n \in DOMAIN s |-> LayersOf(c)[s[n]].left]
  BY <1>11
<1>13. ReadInOrder(c)'
  <2> HIDE DEF S, N
  <2>1. /\ t' \in Orders(Available(c)')
        /\ \A m, n \in DOMAIN t' : m < n => LayersOf(c)'[t'[m]].stamp <= LayersOf(c)'[t'[n]].stamp
        /\ \A n \in DOMAIN t' : read'[c].layers[n].left = LayersOf(c)'[t'[n]].left
        /\ SumFunction([n \in DOMAIN t' |-> read'[c].layers[n].left]) >= -LineDelta(c)'
    <3> HIDE DEF t
    <3> QED
      BY <1>5, <1>7, <1>8, <1>9, <1>10, <1>11, <1>12 DEF OldestFirst, S
  <2> QED
    BY <2>1 DEF ReadInOrder, OldestFirst
<1>14. ReadIsCurrent(c)'
  BY <1>2, <1>3, <1>4, <1>13, StaysCurrent DEF SameLineAt
<1>15. LayersDone(c)' = LayersDone(c)
  BY <1>1, <1>3 DEF LayersDone, SameLineAt
<1>16. InRequest(c)'
  BY <1>2, <1>3, <1>4, <1>15, ReadingKeepsBooks
<1> QED
  BY <1>1, <1>2, <1>4, <1>14, <1>16, StepKeepsAlone

\* The SELECT of the balance finds what the books say it is.
LEMMA ReadBalanceKeepsAlone ==
  ASSUME IInv, Typed, Alone, NEW c \in Clients, ReadBalance(c)
  PROVE  Alone'
<1>1. At(c, "post", "balance") /\ GoTo(c, "store") /\ Busy(c) /\ work[c].step = "balance"
  BY DEF ReadBalance, At
<1>2. /\ RowsAreTyped /\ RequestsAreCurrent /\ WrittenIsOwn /\ RequestIsTyped(c)
      /\ ReadIsCurrent(c) /\ InRequest(c)
  BY <1>1, AloneRequest
<1>3. SameLineAt(c, "store")
  BY <1>1, <1>2, SameLine
<1>4. StepOf(c) /\ UNCHANGED <<doc, requests, layer, balance, moved, written>>
  BY <1>2, <1>3 DEF SameLineAt, ReadBalance, StepOf, db, WrittenIsOwn, Typed, TypeOK
<1>5. read'[c].balance = Quantity(BalanceOf(c), Line(c).item)
  BY <1>2 DEF ReadBalance, HasBalance, Quantity, WrittenIsOwn, OwnRows
<1>6. BalanceOf(c)' = BalanceOf(c) /\ Line(c)' = Line(c)
  BY <1>3, <1>4, LineStays DEF BalanceOf
<1>7. ReadIsCurrent(c)'
  BY <1>2, <1>3, <1>4, <1>5, <1>6, StaysCurrent DEF SameLineAt
<1>8. LayersDone(c)' = LayersDone(c)
  BY <1>1, <1>3 DEF LayersDone, SameLineAt
<1>9. InRequest(c)'
  BY <1>2, <1>3, <1>4, <1>8, ReadingKeepsBooks
<1> QED
  BY <1>1, <1>2, <1>4, <1>7, <1>9, StepKeepsAlone

\* Writing the balance settles what was pending.
LEMMA BalanceSettles ==
  ASSUME NEW rows, NEW balances, NEW moves, NEW done, NEW item \in Items, NEW delta \in Int,
         \A i \in DOMAIN balances : balances[i] \in Int,
         Books(rows, balances, moves, done, PendingLine(item, delta)),
         NEW sum, sum = Quantity(balances, item) + delta
  PROVE  Books(rows, Over(Only(item, sum), balances), moves, done, NotPending)
<1> DEFINE new == Over(Only(item, sum), balances)
<1>1. /\ Quantity(new, item) = sum
      /\ \A i \in Items \ {item} : Quantity(new, i) = Quantity(balances, i)
  BY DEF Quantity, Over, Only
<1> HIDE DEF new
<1>2. ASSUME NEW i \in Items PROVE LeftIn(rows, i) = Quantity(new, i) + NotPending[i]
  <2>1. LeftIn(rows, i) = Quantity(balances, i) + PendingLine(item, delta)[i]
    BY DEF Books, StockAgrees
  <2>2. Quantity(balances, i) \in Int
    BY DEF Quantity
  <2>3. PendingLine(item, delta)[i] = (IF item = i THEN delta ELSE 0) /\ NotPending[i] = 0
    BY DEF PendingLine, NotPending
  <2> QED
    BY <1>1, <2>1, <2>2, <2>3
<1>3. Books(rows, new, moves, done, NotPending)
  BY <1>2 DEF Books, StockAgrees
<1> QED
  BY <1>3 DEF new

\* The UPDATE or INSERT of the balance completes the line.
LEMMA StoreKeepsAlone ==
  ASSUME IInv, Typed, Alone, NEW c \in Clients, StoreBalance(c)
  PROVE  Alone'
<1>1. At(c, "post", "store") /\ Busy(c) /\ work[c].step = "store"
  BY DEF StoreBalance, At
<1>2. /\ RowsAreTyped /\ RequestsAreCurrent /\ WrittenIsOwn /\ RequestIsTyped(c)
      /\ ReadIsCurrent(c) /\ InRequest(c)
  BY <1>1, AloneRequest
<1>3. /\ work'[c].step = "layers" /\ work'[c].line = work[c].line + 1
      /\ work'[c].doc = work[c].doc /\ work'[c].lines = work[c].lines
      /\ work'[c].version = work[c].version /\ work'[c].stamp = work[c].stamp
  BY <1>2 DEF StoreBalance, RowsAreTyped, Request
<1>4. StepOf(c) /\ UNCHANGED <<doc, requests, layer, balance, moved>>
  BY <1>2 DEF StoreBalance, StepOf, db, WrittenIsOwn, RowsAreTyped, Typed, TypeOK
<1>5. InLines(c)
  BY <1>1, <1>2 DEF RequestIsTyped, StepIsTyped
<1>6. Line(c).item \in Items /\ LineDelta(c) \in Int
  BY <1>2, <1>5, PostedLine
<1>7. /\ written'[c].layer = written[c].layer /\ written'[c].moved = written[c].moved
      /\ written'[c].balance = Over(Only(Line(c).item, read[c].balance + LineDelta(c)), written[c].balance)
  BY <1>2 DEF StoreBalance, WrittenIsOwn, OwnRows
<1> DEFINE item == Line(c).item
           delta == LineDelta(c)
           sum == read[c].balance + delta
           new == Over(Only(item, sum), BalanceOf(c))
<1>8. LayersOf(c)' = LayersOf(c) /\ BalanceOf(c)' = new /\ MovedOf(c)' = MovedOf(c)
  <2>1. LayersOf(c)' = LayersOf(c) /\ MovedOf(c)' = MovedOf(c)
    BY <1>3, <1>4, <1>7 DEF LayersOf, MovedOf
  <2>2. BalanceOf(c)' = Over(Over(Only(item, sum), written[c].balance), balance)
    BY <1>4, <1>7 DEF BalanceOf
  <2> QED
    BY <2>1, <2>2, OverTwice DEF BalanceOf
<1>9. Pending(c) = PendingLine(item, delta) /\ LayersDone(c)
  BY <1>1 DEF LayersDone, Pending, PendingLine
<1>10. Done(c)' = Done(c) /\ Pending(c)' = NotPending
  <2>1. ~LayersDone(c)' /\ work'[c].line - 1 = work[c].line
    <3>1. work[c].line \in Nat
      BY <1>2 DEF RowsAreTyped, Request
    <3> QED
      BY <1>3, <3>1 DEF LayersDone
  <2>2. \A d \in Docs : Posted(d)' = Posted(d)
    BY <1>4 DEF Posted
  <2>3. Done(c)' = [d \in Docs |-> IF d = work[c].doc THEN work[c].line ELSE Posted(d)]
    BY <1>3, <2>1, <2>2 DEF Done
  <2>4. Done(c) = [d \in Docs |-> IF d = work[c].doc THEN work[c].line ELSE Posted(d)]
    BY <1>9 DEF Done
  <2>5. Pending(c)' = NotPending
    BY <2>1 DEF Pending, NotPending
  <2> QED
    BY <2>3, <2>4, <2>5
<1>11. sum = Quantity(BalanceOf(c), item) + delta
  BY <1>1, <1>2 DEF ReadIsCurrent
<1>12. Books(LayersOf(c), BalanceOf(c), MovedOf(c), Done(c), PendingLine(item, delta))
  BY <1>2, <1>9 DEF InRequest
<1>13. \A i \in DOMAIN BalanceOf(c) : BalanceOf(c)[i] \in Int
  BY SeenIsNumbers DEF BookNumbers
<1>14. RowsOfLayers(LayersOf(c))
  BY SeenIsTyped
<1>15. ReadIsCurrent(c)'
  BY <1>2, <1>3, <1>4, StaysCurrent
<1> HIDE DEF item, delta, sum, new
<1>16. Books(LayersOf(c), new, MovedOf(c), Done(c), NotPending)
  BY <1>6, <1>11, <1>12, <1>13, BalanceSettles DEF new, item, delta
<1>17. InRequest(c)'
  <2>1. Books(LayersOf(c)', BalanceOf(c)', MovedOf(c)', Done(c)', Pending(c)')
    BY <1>8, <1>10, <1>16
  <2>2. RowsOfLayers(LayersOf(c)')
    BY <1>8, <1>14
  <2> QED
    BY <1>2, <1>4, <2>1, <2>2, BooksStayInside DEF InRequest
<1> QED
  BY <1>1, <1>2, <1>4, <1>15, <1>17, StepKeepsAlone

\* A draft has moved nothing, and is not done.
LEMMA DraftsAreEmpty ==
  ASSUME IInv, Typed, Alone, NEW d \in Docs, doc[d].status # "posted"
  PROVE  /\ ~WasPosted(d) /\ Posted(d) = 0
         /\ moved[d] = NoMoves
<1>1. ~WasPosted(d)
  BY AloneIs DEF DocumentsAreValid
<1>2. moved[d] \in [Layers -> Nat] /\ \A l \in Layers : moved[d][l] = 0
  BY <1>1 DEF IInv, UnpostedHasNoEffect, Typed, TypeOK
<1> QED
  BY <1>1, <1>2 DEF Posted, NoMoves

\* Without a request, the valid documents and the committed books are all.
LEMMA NobodyIsAlone ==
  ASSUME DocumentsAreValid', Committed', \A c \in Clients : ~Busy(c)'
  PROVE  Alone'
BY DEF Alone, Committed, NotPending

\* After the end of the only request nobody is busy.
LEMMA EndLeavesNobody ==
  ASSUME IInv, Typed, Alone, NEW c \in Clients, Busy(c), Finish(c)
  PROVE  \A x \in Clients : ~Busy(x)'
<1>1. \A x \in Clients \ {c} : ~Busy(x)
  BY AloneIs
<1> QED
  BY <1>1 DEF Finish, Busy, Free, IInv, RowsAreTyped

\* Documents that change only while they are drafts keep the committed books.
LEMMA DraftsKeepCommitted ==
  ASSUME IInv, Typed, Alone, UNCHANGED <<layer, balance, moved>>,
         requests' \in Nat, requests <= requests',
         NEW d \in Docs, doc[d].status # "posted", doc'[d].status # "posted",
         \A e \in Docs \ {d} : doc'[e] = doc[e]
  PROVE  Committed'
<1>1. \A e \in Docs : Posted(e)' = Posted(e)
  BY DEF Posted
<1>2. DoneLinesStay([e \in Docs |-> Posted(e)])
  BY DEF DoneLinesStay, Posted
<1> QED
  BY <1>1, <1>2, AloneIs, CommittedStay DEF IInv

\* A rollback leaves the committed books, ...
LEMMA RollbackKeepsAlone ==
  ASSUME IInv, Typed, Alone, NEW c \in Clients, Rollback(c)
  PROVE  Alone'
<1>1. Busy(c) /\ Finish(c) /\ UNCHANGED <<doc, layer, balance, moved, requests>>
  BY DEF Rollback, Finish, db
<1>2. DocumentsAreValid'
  BY <1>1, AloneIs DEF DocumentsAreValid, IsValid, WasPosted
<1>3. Committed'
  <2>1. \A d \in Docs : Posted(d)' = Posted(d)
    BY <1>1 DEF Posted
  <2>2. DoneLinesStay([d \in Docs |-> Posted(d)])
    BY <1>1 DEF DoneLinesStay
  <2>3. requests' \in Nat /\ requests <= requests' /\ RowsAreTyped
    BY <1>1 DEF IInv, RowsAreTyped
  <2> QED
    BY <1>1, <2>1, <2>2, <2>3, AloneIs, CommittedStay
<1> QED
  BY <1>1, <1>2, <1>3, EndLeavesNobody, NobodyIsAlone

\* ... and so does cancelling a draft.
LEMMA CancelKeepsAlone ==
  ASSUME IInv, Typed, Alone, NEW c \in Clients, MarkCancelled(c)
  PROVE  Alone'
<1> DEFINE d == work[c].doc
<1>1. /\ Busy(c) /\ Finish(c) /\ UNCHANGED <<layer, balance, moved, requests>>
      /\ doc' = [doc EXCEPT ![d].status = "cancelled"]
  BY DEF MarkCancelled, At, Finish
<1>2. d \in Docs /\ doc[d].status = "draft" /\ RowsAreTyped
  BY <1>1, AloneRequest, BusyHasDoc DEF ReadIsCurrent
<1> HIDE DEF d
<1>3. /\ \A e \in Docs \ {d} : doc'[e] = doc[e]
      /\ doc'[d].status = "cancelled" /\ doc'[d].kind = doc[d].kind
      /\ doc'[d].lines = doc[d].lines /\ doc'[d].number = doc[d].number
  BY <1>1, <1>2 DEF RowsAreTyped, DocumentRow
<1>4. DocumentsAreValid'
  <2>1. IsValid(doc'[d].kind, doc'[d].lines) /\ ~(doc'[d].number > 0)
    <3>1. ~WasPosted(d) /\ IsValid(doc[d].kind, doc[d].lines)
      BY <1>2, AloneIs, DraftsAreEmpty DEF DocumentsAreValid
    <3>2. IsValid(doc'[d].kind, doc'[d].lines)
      BY <1>3, <3>1
    <3>3. ~(doc'[d].number > 0)
      BY <1>3, <3>1 DEF WasPosted
    <3> QED
      BY <3>2, <3>3
  <2> QED
    BY <1>2, <1>3, <2>1, AloneIs DEF DocumentsAreValid, WasPosted
<1>5. Committed'
  <2>1. requests' \in Nat /\ requests <= requests'
    BY <1>1, <1>2 DEF RowsAreTyped
  <2> QED
    BY <1>1, <1>2, <1>3, <2>1, DraftsKeepCommitted
<1> QED
  BY <1>1, <1>4, <1>5, EndLeavesNobody, NobodyIsAlone

\* The lines of a draft are nowhere in the books.
LEMMA ReplaceKeepsAlone ==
  ASSUME IInv, Typed, Alone, NEW c \in Clients, NEW lines \in Lines, ReplaceLines(c, lines)
  PROVE  Alone'
<1> DEFINE d == work[c].doc
<1>1. /\ Busy(c) /\ Finish(c) /\ UNCHANGED <<layer, balance, requests>>
      /\ IsValid(doc[d].kind, lines)
  BY DEF ReplaceLines, At, Finish
<1>2. d \in Docs /\ doc[d].status = "draft" /\ RowsAreTyped /\ ItemsExist(c)
  BY <1>1, AloneRequest, BusyHasDoc DEF ReadIsCurrent
<1>3. /\ doc' = [doc EXCEPT ![d].lines = lines, ![d].version = @ + 1]
      /\ moved' = [moved EXCEPT ![d] = NoMoves]
  BY <1>2 DEF ReplaceLines
<1> HIDE DEF d
<1>4. UNCHANGED moved
  <2>1. moved[d] = NoMoves
    BY <1>2, DraftsAreEmpty
  <2> QED
    BY <1>2, <1>3, <2>1 DEF Typed, TypeOK
<1>5. /\ \A e \in Docs \ {d} : doc'[e] = doc[e]
      /\ doc'[d].status = "draft" /\ doc'[d].kind = doc[d].kind
      /\ doc'[d].lines = lines /\ doc'[d].number = doc[d].number
  BY <1>2, <1>3 DEF RowsAreTyped, DocumentRow
<1>6. DocumentsAreValid'
  <2>1. IsValid(doc'[d].kind, doc'[d].lines) /\ ~(doc'[d].number > 0)
    <3>1. ~WasPosted(d) /\ IsValid(doc[d].kind, doc[d].lines)
      BY <1>2, AloneIs, DraftsAreEmpty DEF DocumentsAreValid
    <3>2. IsValid(doc'[d].kind, doc'[d].lines)
      BY <1>1, <1>5, <3>1
    <3>3. ~(doc'[d].number > 0)
      BY <1>1, <1>5, <3>1 DEF WasPosted
    <3> QED
      BY <3>2, <3>3
  <2> QED
    BY <1>2, <1>5, <2>1, AloneIs DEF DocumentsAreValid, WasPosted
<1>7. Committed'
  <2>1. requests' \in Nat /\ requests <= requests'
    BY <1>1, <1>2 DEF RowsAreTyped
  <2> QED
    BY <1>1, <1>2, <1>4, <1>5, <2>1, DraftsKeepCommitted
<1> QED
  BY <1>1, <1>6, <1>7, EndLeavesNobody, NobodyIsAlone

\* Nor is a document that did not exist.
LEMMA CreateKeepsAlone ==
  ASSUME IInv, Typed, Alone, NEW d \in Docs, NEW kind \in Kinds, NEW lines \in Lines,
         CreateDocument(d, kind, lines)
  PROVE  Alone'
<1>1. /\ UNCHANGED <<layer, balance, moved, work, read, written, requests>>
      /\ doc[d].status = "unused" /\ IsValid(kind, lines) /\ RowsAreTyped
      /\ doc' = [doc EXCEPT ![d] =
           [status |-> "draft", kind |-> kind, lines |-> lines, version |-> 0, number |-> 0]]
  BY DEF CreateDocument, local, IInv
<1>2. /\ \A e \in Docs \ {d} : doc'[e] = doc[e]
      /\ doc'[d].status = "draft" /\ doc'[d].kind = kind /\ doc'[d].lines = lines
      /\ doc'[d].number = 0
  BY <1>1 DEF RowsAreTyped
<1>3. DocumentsAreValid'
  BY <1>1, <1>2, AloneIs DEF DocumentsAreValid, WasPosted
<1>4. requests \in Nat /\ requests' \in Nat /\ requests <= requests'
  BY <1>1 DEF RowsAreTyped
<1>5. Committed'
  BY <1>1, <1>2, <1>4, DraftsKeepCommitted
<1>6. ASSUME NEW c \in Clients, Busy(c)'
      PROVE  (\A x \in Clients \ {c} : ~Busy(x)') /\ ReadIsCurrent(c)' /\ InRequest(c)'
  <2>1. Busy(c) /\ \A x \in Clients : Busy(x)' = Busy(x)
    BY <1>1, <1>6 DEF Busy
  <2>2. ReadIsCurrent(c) /\ InRequest(c) /\ \A x \in Clients \ {c} : ~Busy(x)
    BY <2>1, AloneRequest
  <2>3. work[c].doc \in Docs \ {d}
    BY <1>1, <2>1, <2>2, BusyHasDoc DEF ReadIsCurrent
  <2>4. /\ LayersOf(c)' = LayersOf(c) /\ BalanceOf(c)' = BalanceOf(c) /\ MovedOf(c)' = MovedOf(c)
        /\ Line(c)' = Line(c) /\ LineDelta(c)' = LineDelta(c) /\ Pending(c)' = Pending(c)
        /\ Available(c)' = Available(c)
    BY <1>1 DEF LayersOf, BalanceOf, MovedOf, Line, LineDelta, Pending, LayersDone, Available
  <2>5. ReadIsCurrent(c)'
    <3>1. ReadInOrder(c)' = ReadInOrder(c)
      BY <1>1, <2>4 DEF ReadInOrder, OldestFirst
    <3> QED
      BY <1>1, <1>2, <2>2, <2>3, <2>4, <3>1 DEF ReadIsCurrent, ItemsExist
  <2>6. DoneLinesStay(Done(c))
    <3>1. Done(c)[d] = 0
      BY <1>1, <2>3 DEF Done, Posted
    <3> QED
      BY <1>2, <3>1 DEF DoneLinesStay
  <2>7. Done(c)' = Done(c)
    <3>1. \A e \in Docs : Posted(e)' = Posted(e)
      BY <1>1, <1>2 DEF Posted
    <3> QED
      BY <1>1, <3>1 DEF Done, LayersDone
  <2>8. InRequest(c)'
    <3>1. Books(LayersOf(c), BalanceOf(c), MovedOf(c), Done(c), Pending(c))
      BY <2>2 DEF InRequest
    <3>2. RowsOfLayers(LayersOf(c))
      BY SeenIsTyped
    <3>3. Books(LayersOf(c), BalanceOf(c), MovedOf(c), Done(c), Pending(c))'
      BY <1>4, <2>4, <2>6, <2>7, <3>1, <3>2, BooksStay
    <3> QED
      BY <3>3 DEF InRequest
  <2> QED
    BY <2>1, <2>2, <2>5, <2>8
<1> QED
  BY <1>3, <1>5, <1>6 DEF Alone, Committed, InRequest, NotPending

\* A request that begins alone sees the committed books.
LEMMA LoadKeepsAlone ==
  ASSUME IInv, Typed, Alone, NEW c \in Clients, NEW d \in Docs, NEW op \in {"post", "update", "cancel"},
         Load(c, d, op), ~overlapped'
  PROVE  Alone'
<1>1. /\ ~Busy(c) /\ doc[d].status = "draft"
      /\ UNCHANGED <<doc, layer, balance, moved, read, written>> /\ requests' = requests + 1
      /\ \A x \in Clients \ {c} : ~Busy(x)
  BY DEF Load, db, local, Modifiable
<1>2. RowsAreTyped /\ WrittenIsOwn
  BY DEF IInv
<1>3. /\ work'[c] = [doc |-> d, op |-> op, kind |-> doc[d].kind, lines |-> doc[d].lines,
                     version |-> doc[d].version, stamp |-> requests + 1,
                     line |-> 1, step |-> "layers"]
      /\ \A x \in Clients \ {c} : work'[x] = work[x]
  BY <1>2 DEF Load, RowsAreTyped
<1>4. requests \in Nat /\ requests' \in Nat /\ requests <= requests'
  BY <1>1, <1>2 DEF RowsAreTyped
<1>5. DocumentsAreValid'
  BY <1>1, AloneIs DEF DocumentsAreValid, IsValid, WasPosted
<1>6. \A e \in Docs : Posted(e)' = Posted(e)
  BY <1>1 DEF Posted
<1>7. DoneLinesStay([e \in Docs |-> Posted(e)])
  BY <1>1 DEF DoneLinesStay
<1>8. Committed'
  BY <1>1, <1>2, <1>4, <1>6, <1>7, AloneIs, CommittedStay
<1>9. ReadIsCurrent(c)'
  BY <1>1, <1>3 DEF ReadIsCurrent, ItemsExist
<1>10. InRequest(c)'
  <2>1. written'[c] = NothingWritten
    BY <1>1, <1>2 DEF WrittenIsOwn, OwnRows
  <2>2. RowsOfLayers(layer)
    BY DEF Typed, TypeOK, RowsOfLayers, IsLayerRow
  <2>3. LayersOf(c)' = layer /\ BalanceOf(c)' = balance
    <3>1. LayersOf(c)' = Over(Nothing, layer) /\ BalanceOf(c)' = Over(Nothing, balance)
      BY <1>1, <2>1 DEF LayersOf, BalanceOf, NothingWritten
    <3>2. /\ Over(Nothing, layer) = [l \in DOMAIN layer |-> layer[l]]
          /\ Over(Nothing, balance) = [i \in DOMAIN balance |-> balance[i]]
      BY DEF Over, Nothing
    <3>3. layer = [l \in DOMAIN layer |-> layer[l]] /\ balance = [i \in DOMAIN balance |-> balance[i]]
      BY DEF Typed, TypeOK
    <3> QED
      BY <3>1, <3>2, <3>3
  <2>4. MovedOf(c)' = moved
    <3>1. MovedOf(c)' = [e \in Docs |-> [l \in Layers |-> moved[e][l] + 0]]
      BY <1>1, <2>1 DEF MovedOf, NothingWritten, NoMoves
    <3>2. moved \in [Docs -> [Layers -> Nat]]
      BY DEF Typed, TypeOK
    <3>3. \A e \in Docs : [l \in Layers |-> moved[e][l] + 0] = moved[e]
      BY <3>2
    <3> QED
      BY <3>1, <3>2, <3>3
  <2>5. Done(c)' = [e \in Docs |-> Posted(e)] /\ Pending(c)' = NotPending
    <3>1. ~LayersDone(c)' /\ work'[c].line - 1 = 0 /\ work'[c].doc = d
      BY <1>3 DEF LayersDone
    <3>2. Posted(d) = 0
      BY <1>1 DEF Posted
    <3> QED
      BY <1>6, <3>1, <3>2 DEF Done, Pending, NotPending
  <2>6. Books(layer, balance, moved, [e \in Docs |-> Posted(e)], NotPending)
    BY AloneIs DEF Committed
  <2>7. Books(LayersOf(c)', BalanceOf(c)', MovedOf(c)', Done(c)', Pending(c)')
    BY <2>3, <2>4, <2>5, <2>6
  <2>8. DoneLinesStay(Done(c)') /\ RowsOfLayers(LayersOf(c)')
    BY <1>7, <2>2, <2>3, <2>5
  <2> QED
    BY <1>4, <2>7, <2>8, BooksStay DEF InRequest
<1>11. \A x \in Clients \ {c} : ~Busy(x)'
  BY <1>1, <1>3 DEF Busy
<1>12. \A x \in Clients : Busy(x)' =>
         (\A y \in Clients \ {x} : ~Busy(y)') /\ ReadIsCurrent(x)' /\ InRequest(x)'
  BY <1>9, <1>10, <1>11
<1> QED
  BY <1>5, <1>8, <1>12 DEF Alone, Committed, InRequest, NotPending

\* The commit of a posting.
LEMMA PostingKeepsAlone ==
  ASSUME IInv, Typed, Alone, NEW c \in Clients, MarkPosted(c)
  PROVE  Alone'
<1> DEFINE d == work[c].doc
<1>1. /\ Busy(c) /\ Finish(c) /\ work[c].step = "layers" /\ ~InLines(c) /\ UNCHANGED requests
  BY DEF MarkPosted, At, Finish
<1>2. /\ RowsAreTyped /\ RequestsAreCurrent /\ WrittenIsOwn /\ RequestIsTyped(c)
      /\ ReadIsCurrent(c) /\ InRequest(c)
  BY <1>1, AloneRequest
<1>3. d \in Docs /\ doc[d].status = "draft" /\ doc[d].lines = work[c].lines
  BY <1>1, <1>2, BusyHasDoc DEF ReadIsCurrent
<1>4. /\ layer' = LayersOf(c) /\ balance' = BalanceOf(c)
      /\ moved' = [moved EXCEPT ![d] = [l \in Layers |-> @[l] + written[c].moved[l]]]
  BY DEF MarkPosted, LayersOf, BalanceOf
<1>5. /\ \A e \in Docs \ {d} : doc'[e] = doc[e]
      /\ doc'[d].status = "posted" /\ doc'[d].kind = doc[d].kind /\ doc'[d].lines = doc[d].lines
      /\ doc'[d].number > 0
  <2>1. /\ doc'[d].number = last[doc[d].kind] + 1 /\ \A e \in Docs \ {d} : doc'[e] = doc[e]
    BY <1>2, PostingNumbers
  <2>2. last[doc[d].kind] \in Nat
    BY <1>2, <1>3 DEF RowsAreTyped, DocumentRow
  <2>3. doc'[d].status = "posted" /\ doc'[d].kind = doc[d].kind /\ doc'[d].lines = doc[d].lines
    BY <1>2, <1>3 DEF MarkPosted, RowsAreTyped, DocumentRow
  <2> QED
    BY <2>1, <2>2, <2>3
<1>6. moved' = MovedOf(c)
  <2>1. moved \in [Docs -> [Layers -> Nat]] /\ written[c].moved \in [Layers -> Nat]
    BY <1>2 DEF Typed, TypeOK, RequestIsTyped, WritesAreTyped
  <2> DEFINE m == written[c].moved
  <2>2. MovedOf(c) = [e \in Docs |-> [l \in Layers |-> moved[e][l] + IF e = d THEN m[l] ELSE 0]]
    BY DEF MovedOf
  <2>3. moved' = [moved EXCEPT ![d] = [l \in Layers |-> moved[d][l] + m[l]]]
    BY <1>4
  <2> HIDE DEF m, d
  <2>4. ASSUME NEW e \in Docs
        PROVE  moved'[e] = [l \in Layers |-> moved[e][l] + IF e = d THEN m[l] ELSE 0]
    <3>1. CASE e = d
      <4>1. moved'[e] = [l \in Layers |-> moved[d][l] + m[l]]
        BY <1>3, <2>1, <2>3, <3>1
      <4> QED
        BY <3>1, <4>1
    <3>2. CASE e # d
      <4>1. moved'[e] = moved[e]
        BY <2>1, <2>3, <3>2
      <4>2. moved[e] = [l \in Layers |-> moved[e][l] + 0]
        BY <2>1
      <4> QED
        BY <3>2, <4>1, <4>2
    <3> QED
      BY <3>1, <3>2
  <2>5. moved' = [e \in Docs |-> moved'[e]]
    BY <2>1, <2>3
  <2> QED
    BY <2>2, <2>4, <2>5
<1>7. DocumentsAreValid'
  <2>1. IsValid(doc'[d].kind, doc'[d].lines)
    BY <1>3, <1>5, AloneIs DEF DocumentsAreValid
  <2> HIDE DEF d
  <2>2. \A e \in Docs : /\ doc'[e].status # "unused" => IsValid(doc'[e].kind, doc'[e].lines)
                       /\ (doc'[e].number > 0) = (doc'[e].status = "posted")
    <3>1. ASSUME NEW e \in Docs
          PROVE  /\ doc'[e].status # "unused" => IsValid(doc'[e].kind, doc'[e].lines)
                 /\ (doc'[e].number > 0) = (doc'[e].status = "posted")
      <4>1. CASE e = d
        BY <1>5, <2>1, <4>1
      <4>2. CASE e # d
        BY <1>5, <4>2, AloneIs DEF DocumentsAreValid, WasPosted
      <4> QED
        BY <4>1, <4>2
    <3> QED
      BY <3>1
  <2> QED
    BY <2>2 DEF DocumentsAreValid, WasPosted
<1>8. Done(c) = [e \in Docs |-> Posted(e)'] /\ Pending(c) = NotPending
  <2>1. work[c].line - 1 = Len(doc[d].lines) /\ ~LayersDone(c)
    <3>1. Len(work[c].lines) \in Nat /\ work[c].line \in 1..(Len(work[c].lines) + 1)
      BY <1>2 DEF RowsAreTyped, Request, LineList, RequestIsTyped, StepIsTyped
    <3>2. work[c].line > Len(work[c].lines)
      BY <1>1, <3>1 DEF InLines
    <3> QED
      BY <1>1, <1>3, <3>1, <3>2 DEF LayersDone
  <2> HIDE DEF d
  <2>2. \A e \in Docs : Posted(e)' = IF e = d THEN Len(doc[d].lines) ELSE Posted(e)
    BY <1>5 DEF Posted
  <2> QED
    BY <2>1, <2>2 DEF Done, Pending, NotPending, d
<1>9. Committed'
  <2>1. Books(layer', balance', moved', [e \in Docs |-> Posted(e)'], NotPending)
    BY <1>2, <1>4, <1>6, <1>8 DEF InRequest
  <2>2. DoneLinesStay([e \in Docs |-> Posted(e)'])
    BY <1>5 DEF DoneLinesStay
  <2>3. RowsOfLayers(layer')
    BY <1>4, SeenIsTyped
  <2>4. requests \in Nat /\ requests' \in Nat /\ requests <= requests'
    BY <1>1, <1>2 DEF RowsAreTyped
  <2> DEFINE done == [e \in Docs |-> Posted(e)]
  <2>5. done' = [e \in Docs |-> Posted(e)']
    OBVIOUS
  <2> HIDE DEF done
  <2>6. Books(layer, balance, moved, done, NotPending)'
    BY <2>1, <2>2, <2>3, <2>4, <2>5, BooksStay
  <2> QED
    BY <2>6 DEF Committed, done
<1> QED
  BY <1>1, <1>7, <1>9, EndLeavesNobody, NobodyIsAlone

\* Nobody and nothing is there at first.
LEMMA AloneInit == Init => Alone
<1> SUFFICES ASSUME Init PROVE Alone
  OBVIOUS
<1>1. DocumentsAreValid
  BY DEF Init, DocumentsAreValid, WasPosted
<1>2. \A d \in Docs : Posted(d) = 0
  BY DEF Init, Posted
<1>3. layer = Nothing /\ balance = Nothing /\ \A d \in Docs : moved[d] = NoMoves
  BY DEF Init
<1>4. \A i \in Items : LeftIn(layer, i) = 0
  <2>1. ASSUME NEW i \in Items PROVE LeftIn(layer, i) = 0
    <3> DEFINE f == [l \in Layers |-> IfOf(layer, l, i, layer[l].left)]
    <3>1. IsFiniteSet(Layers) /\ (\A l \in Layers : f[l] = 0) /\ DOMAIN f = Layers
      BY <1>3, WarehouseAssumption DEF IfOf, Nothing
    <3>2. LeftIn(layer, i) = SumFunction(f)
      BY DEF LeftIn
    <3> HIDE DEF f
    <3> QED
      BY <3>1, <3>2, SumIs, SumZero
  <2> QED
    BY <2>1
<1>5. \A d \in Docs : \A i \in Items : ReceivedIn(layer, d, i) = 0
  <2>1. ASSUME NEW d \in Docs, NEW i \in Items PROVE ReceivedIn(layer, d, i) = 0
    <3> DEFINE f == [l \in Layers |-> IfOf(layer, l, i, IF layer[l].doc = d THEN layer[l].received ELSE 0)]
    <3>1. IsFiniteSet(Layers) /\ (\A l \in Layers : f[l] = 0) /\ DOMAIN f = Layers
      BY <1>3, WarehouseAssumption DEF IfOf, Nothing
    <3>2. ReceivedIn(layer, d, i) = SumFunction(f)
      BY DEF ReceivedIn
    <3> HIDE DEF f
    <3> QED
      BY <3>1, <3>2, SumIs, SumZero
  <2> QED
    BY <2>1
<1>6. \A d \in Docs : \A i \in Items : MovedIn(layer, moved, d, i) = 0
  <2>1. ASSUME NEW d \in Docs, NEW i \in Items PROVE MovedIn(layer, moved, d, i) = 0
    <3> DEFINE f == [l \in Layers |-> IfOf(layer, l, i, moved[d][l])]
    <3>1. IsFiniteSet(Layers) /\ (\A l \in Layers : f[l] = 0) /\ DOMAIN f = Layers
      BY <1>3, WarehouseAssumption DEF IfOf, Nothing
    <3>2. MovedIn(layer, moved, d, i) = SumFunction(f)
      BY DEF MovedIn
    <3> HIDE DEF f
    <3> QED
      BY <3>1, <3>2, SumIs, SumZero
  <2> QED
    BY <2>1
<1>7. SumFunction(NoMoves) = 0
  <2>1. IsFiniteSet(Layers) /\ (\A l \in Layers : NoMoves[l] = 0) /\ DOMAIN NoMoves = Layers
    BY WarehouseAssumption DEF NoMoves
  <2> QED
    BY <2>1, SumIs, SumZero
<1>8. StockAgrees(layer, balance, NotPending)
  BY <1>3, <1>4 DEF StockAgrees, Quantity, Nothing, NotPending
<1>9. LinesAreMoved(layer, moved, [d \in Docs |-> Posted(d)])
  BY <1>2, <1>3, <1>5, <1>6, <1>7, NoLines DEF LinesAreMoved
<1>10. MovesAddUp(layer, moved)
  BY <1>3 DEF MovesAddUp, Nothing, NoMoves
<1>11. OldestGoFirst(layer)
  BY <1>3 DEF OldestGoFirst, Nothing
<1>12. Committed
  BY <1>8, <1>9, <1>10, <1>11 DEF Committed, Books
<1>13. \A c \in Clients : ~Busy(c)
  BY DEF Init, Busy, Free
<1> QED
  BY <1>1, <1>12, <1>13, AloneIs

\* A request that is alone keeps the books with every step.
LEMMA AloneNext ==
  ASSUME IInv, Typed, Alone, [Next]_vars, ~overlapped'
  PROVE  Alone'
<1>1. ASSUME NEW c \in Clients, NEW d \in Docs, NEW op \in {"post", "update", "cancel"}, Load(c, d, op)
      PROVE  Alone'
  BY <1>1, LoadKeepsAlone
<1>2. ASSUME NEW c \in Clients, NEW l \in Layers, AddLayer(c, l)
      PROVE  Alone'
  BY <1>2, AddKeepsAlone
<1>3. ASSUME NEW c \in Clients, ReadLayers(c) \/ TakeLayers(c) \/ ReadBalance(c) \/ StoreBalance(c)
      PROVE  Alone'
  BY <1>3, ReadLayersKeepsAlone, TakeKeepsAlone, ReadBalanceKeepsAlone, StoreKeepsAlone
<1>4. ASSUME NEW c \in Clients, MarkPosted(c) \/ MarkCancelled(c) \/ Rollback(c)
      PROVE  Alone'
  BY <1>4, PostingKeepsAlone, CancelKeepsAlone, RollbackKeepsAlone
<1>5. ASSUME NEW c \in Clients, NEW lines \in Lines, ReplaceLines(c, lines)
      PROVE  Alone'
  BY <1>5, ReplaceKeepsAlone
<1>6. ASSUME NEW d \in Docs, NEW kind \in Kinds, NEW lines \in Lines, CreateDocument(d, kind, lines)
      PROVE  Alone'
  BY <1>6, CreateKeepsAlone
<1>7. CASE UNCHANGED vars
  <2>1. UNCHANGED <<doc, layer, balance, moved, work, read, written, requests>>
    BY <1>7 DEF vars, db, local
  <2>2. RowsAreTyped
    BY DEF IInv
  <2>3. DocumentsAreValid'
    BY <2>1, AloneIs DEF DocumentsAreValid, IsValid, WasPosted
  <2>4. \A d \in Docs : Posted(d)' = Posted(d)
    BY <2>1 DEF Posted
  <2>5. requests \in Nat /\ requests' \in Nat /\ requests <= requests'
    BY <2>1, <2>2 DEF RowsAreTyped
  <2>6. Committed'
    <3>1. DoneLinesStay([d \in Docs |-> Posted(d)])
      BY <2>1 DEF DoneLinesStay
    <3> QED
      BY <2>1, <2>2, <2>4, <2>5, <3>1, AloneIs, CommittedStay
  <2>7. ASSUME NEW c \in Clients, Busy(c)'
        PROVE  (\A x \in Clients \ {c} : ~Busy(x)') /\ ReadIsCurrent(c)' /\ InRequest(c)'
    <3>1. Busy(c) /\ \A x \in Clients : Busy(x)' = Busy(x)
      BY <2>1, <2>7 DEF Busy
    <3>2. ReadIsCurrent(c) /\ InRequest(c) /\ \A x \in Clients \ {c} : ~Busy(x)
      BY <3>1, AloneRequest
    <3>3. /\ LayersOf(c)' = LayersOf(c) /\ BalanceOf(c)' = BalanceOf(c) /\ MovedOf(c)' = MovedOf(c)
          /\ Line(c)' = Line(c) /\ LineDelta(c)' = LineDelta(c) /\ Pending(c)' = Pending(c)
          /\ Available(c)' = Available(c) /\ Done(c)' = Done(c)
      BY <2>1 DEF LayersOf, BalanceOf, MovedOf, Line, LineDelta, Pending, LayersDone, Available, Done, Posted
    <3>4. ReadIsCurrent(c)'
      <4>1. ReadInOrder(c)' = ReadInOrder(c)
        BY <2>1, <3>3 DEF ReadInOrder, OldestFirst
      <4> QED
        BY <2>1, <3>2, <3>3, <4>1 DEF ReadIsCurrent, ItemsExist
    <3>5. RowsOfLayers(LayersOf(c)')
      BY <3>3, SeenIsTyped
    <3>6. InRequest(c)'
      BY <2>1, <2>2, <3>2, <3>3, <3>5, BooksStayInside DEF InRequest
    <3> QED
      BY <3>1, <3>2, <3>4, <3>6
  <2> QED
    BY <2>3, <2>6, <2>7 DEF Alone, Committed, InRequest, NotPending
<1> QED
  BY <1>1, <1>2, <1>3, <1>4, <1>5, <1>6, <1>7 DEF Next, PostStep

\* Once requests overlapped, they did.
LEMMA OverlapStays == [Next]_vars /\ overlapped => overlapped'
<1> SUFFICES ASSUME [Next]_vars, overlapped PROVE overlapped'
  OBVIOUS
<1>1. UNCHANGED overlapped \/ \E c \in Clients, d \in Docs, op \in {"post", "update", "cancel"} : Load(c, d, op)
  BY DEF Next, PostStep, CreateDocument, Rollback, MarkCancelled, ReplaceLines, Finish, AddLayer,
         ReadLayers, TakeLayers, ReadBalance, StoreBalance, MarkPosted, vars
<1>2. ASSUME NEW c \in Clients, NEW d \in Docs, NEW op \in {"post", "update", "cancel"}, Load(c, d, op)
      PROVE  overlapped'
  BY <1>2 DEF Load
<1> QED
  BY <1>1, <1>2

-----------------------------------------------------------------------------
(* What the books say of the committed tables *)

\* The numbers of the committed rows, and the books they are in.
LEMMA CommittedIs ==
  ASSUME BooksIInv, ~overlapped
  PROVE  /\ doc \in [Docs -> DocumentRow] /\ DocumentsAreValid /\ UnpostedHasNoEffect
         /\ RowsOfLayers(layer) /\ moved \in [Docs -> [Layers -> Nat]]
         /\ \A i \in DOMAIN balance : balance[i] \in Int
         /\ StockAgrees(layer, balance, NotPending)
         /\ LinesAreMoved(layer, moved, [d \in Docs |-> Posted(d)])
         /\ MovesAddUp(layer, moved)
         /\ OldestGoFirst(layer)
<1>1. /\ doc \in [Docs -> DocumentRow] /\ UnpostedHasNoEffect
      /\ moved \in [Docs -> [Layers -> Nat]] /\ DOMAIN layer \subseteq Layers
      /\ balance \in [DOMAIN balance -> Int]
      /\ \A l \in DOMAIN layer : IsLayerRow(layer[l])
  BY DEF BooksIInv, TypeOK, IInv, IsLayerRow
<1>2. DocumentsAreValid /\ Books(layer, balance, moved, [d \in Docs |-> Posted(d)], [i \in Items |-> 0])
  BY DEF BooksIInv, Alone
<1> QED
  BY <1>1, <1>2 DEF Books, NotPending, RowsOfLayers

\* A layer came with a document that has a number.
LEMMA LayersHaveSources ==
  ASSUME BooksIInv, ~overlapped, NEW l \in DOMAIN layer
  PROVE  doc[layer[l].doc].number > 0
<1>1. layer[l].doc \in Docs
  BY CommittedIs, LayerNumbers DEF RowsOfLayers
<1> QED
  BY <1>1, CommittedIs DEF UnpostedHasNoEffect, WasPosted

\* The sum of a function on the part of a set where another one is not zero.
LEMMA SumOnPart ==
  ASSUME NEW f, NEW S, IsFiniteSet(S), IntsOn(f, S), NEW g, DOMAIN g \subseteq S,
         \A x \in DOMAIN g : g[x] = f[x], \A x \in S \ DOMAIN g : f[x] = 0
  PROVE  SumFunction(g) = SumFunctionOnSet(f, S)
<1> DEFINE T == DOMAIN g
<1>1. T \in SUBSET S /\ IsFiniteSet(T) /\ IntsOn(g, T) /\ \A x \in T : g[x] = f[x]
  BY FS_Subset DEF IntsOn
<1>2. SumFunction(g) = SumFunctionOnSet(g, T)
  BY SumIs
<1>3. \A x \in S \ T : f[x] = 0
  OBVIOUS
<1> HIDE DEF T
<1>4. SumFunctionOnSet(g, T) = SumFunctionOnSet(f, T)
  BY <1>1, SumSame
<1>5. SumFunctionOnSet(f, S) = SumFunctionOnSet(f, T)
  BY <1>1, <1>3, SumSupport
<1> QED
  BY <1>2, <1>4, <1>5

\* The quantities of the rows of a list, each of a layer of its own, add up as
\* those of the layers.
LEMMA SumOfList ==
  ASSUME NEW f, IntsOn(f, Layers), NEW T \in SUBSET Layers, \A l \in Layers \ T : f[l] = 0,
         NEW rows, NEW row \in [T -> rows], \A e \in rows : \E l \in T : e = row[l],
         \A l \in T : row[l].layer = l /\ row[l].quantity = f[l]
  PROVE  SumFunction([e \in rows |-> e.quantity]) = SumFunctionOnSet(f, Layers)
<1> DEFINE g == [e \in rows |-> e.quantity]
<1>1. IsFiniteSet(T) /\ IntsOn(f, T) /\ IsFiniteSet(Layers)
  BY WarehouseAssumption, FS_Subset DEF IntsOn
<1>2. \A x, y \in T : row[x] = row[y] => x = y
  BY Zenon
<1>3. \A x \in T : g[row[x]] = f[x]
  OBVIOUS
<1>4. SumFunction(g) = SumFunctionOnSet(g, rows)
  BY SumIs
<1> HIDE DEF g
<1>5. SumFunctionOnSet(g, rows) = SumFunctionOnSet(f, T)
  BY <1>1, <1>2, <1>3, SumRenamed
<1>6. SumFunctionOnSet(f, Layers) = SumFunctionOnSet(f, T)
  BY <1>1, SumSupport
<1> QED
  BY <1>4, <1>5, <1>6 DEF g

\* The list of balances adds up to what is left of an item.
LEMMA ListIsLeft ==
  ASSUME BooksIInv, ~overlapped, NEW i \in Items
  PROVE  SumFunction([e \in {r \in BalanceLayers : r.item = i} |-> e.quantity]) = LeftIn(layer, i)
<1> DEFINE f == [l \in Layers |-> IfOf(layer, l, i, layer[l].left)]
           T == {l \in DOMAIN layer : layer[l].item = i /\ layer[l].left # 0}
           rows == {r \in BalanceLayers : r.item = i}
           row == [l \in T |-> [layer |-> l, item |-> layer[l].item, quantity |-> layer[l].left,
                                source |-> doc[layer[l].doc].number]]
<1>1. RowsOfLayers(layer)
  BY CommittedIs
<1>2. IntsOn(f, Layers) /\ LeftIn(layer, i) = SumFunctionOnSet(f, Layers)
  BY <1>1, LeftIs
<1>3. T \in SUBSET Layers /\ \A l \in Layers \ T : f[l] = 0
  BY <1>1 DEF RowsOfLayers, IfOf
<1>4. row \in [T -> rows] /\ \A e \in rows : \E l \in T : e = row[l]
  BY DEF BalanceLayers
<1>5. \A l \in T : row[l].layer = l /\ row[l].quantity = f[l]
  BY <1>3 DEF IfOf
<1> HIDE DEF f, T, rows, row
<1>6. SumFunction([e \in rows |-> e.quantity]) = SumFunctionOnSet(f, Layers)
  BY <1>2, <1>3, <1>4, <1>5, SumOfList
<1> QED
  BY <1>2, <1>6 DEF rows

\* What a document shows of its movements adds up to all that it moved.
LEMMA DetailIsMoved ==
  ASSUME BooksIInv, ~overlapped, NEW d \in Docs
  PROVE  SumFunction([e \in MovementsDetail(d) |-> e.quantity]) = SumFunction(moved[d])
<1> DEFINE f == moved[d]
           T == {l \in DOMAIN layer : moved[d][l] > 0}
           rows == MovementsDetail(d)
           row == [l \in T |-> [layer |-> l, quantity |-> moved[d][l],
                                source |-> doc[layer[l].doc].number]]
<1>1. f \in [Layers -> Nat] /\ DOMAIN layer \subseteq Layers
  BY CommittedIs DEF RowsOfLayers
<1>2. IntsOn(f, Layers) /\ SumFunction(f) = SumFunctionOnSet(f, Layers)
  BY <1>1, SumIs DEF IntsOn
<1>3. T \in SUBSET Layers
  BY <1>1
<1>4. \A l \in Layers \ T : f[l] = 0
  BY <1>1, CommittedIs DEF MovesAddUp
<1>5. row \in [T -> rows] /\ \A e \in rows : \E l \in T : e = row[l]
  BY DEF MovementsDetail
<1>6. \A l \in T : row[l].layer = l /\ row[l].quantity = f[l]
  OBVIOUS
<1> HIDE DEF f, T, rows, row
<1>7. SumFunction([e \in rows |-> e.quantity]) = SumFunctionOnSet(f, Layers)
  BY <1>2, <1>3, <1>4, <1>5, <1>6, SumOfList
<1> QED
  BY <1>2, <1>7 DEF rows, f

\* The lines of a document, all of them.
LEMMA LinesAre ==
  ASSUME doc \in [Docs -> DocumentRow], NEW d \in Docs
  PROVE  DOMAIN doc[d].lines = 1..Len(doc[d].lines) /\ Len(doc[d].lines) \in Nat
BY DEF DocumentRow, LineList

\* What a document issued, and what it ordered of an item, are the sums over
\* all its lines.
LEMMA AllIssued ==
  ASSUME doc \in [Docs -> DocumentRow], NEW d \in Docs
  PROVE  Issued(d) = IssuedBy(d, Len(doc[d].lines))
BY LinesAre DEF Issued, IssuedBy
LEMMA AllOrdered ==
  ASSUME doc \in [Docs -> DocumentRow], NEW d \in Docs, NEW i \in Items
  PROVE  Ordered(d, i) = OrderedBy(d, i, Len(doc[d].lines))
<1> DEFINE S == 1..Len(doc[d].lines)
           f == [n \in S |-> IF doc[d].lines[n].item = i
                             THEN Delta(doc[d].kind, doc[d].lines[n]) ELSE 0]
           g == [n \in {m \in DOMAIN doc[d].lines : doc[d].lines[m].item = i} |->
                   Delta(doc[d].kind, doc[d].lines[n])]
<1>1. DOMAIN doc[d].lines = S
  BY LinesAre
<1>2. IsFiniteSet(S)
  BY LinesAre, FS_Interval
<1>3. IntsOn(f, S)
  BY <1>1, LineNumbers DEF IntsOn
<1>4. DOMAIN g \subseteq S /\ (\A n \in DOMAIN g : g[n] = f[n]) /\ \A n \in S \ DOMAIN g : f[n] = 0
  BY <1>1
<1>5. Ordered(d, i) = SumFunction(g)
  BY DEF Ordered
<1>6. OrderedBy(d, i, Len(doc[d].lines)) = SumFunctionOnSet(f, S)
  BY SumIs DEF OrderedBy
<1> HIDE DEF S, f, g
<1> QED
  BY <1>2, <1>3, <1>4, <1>5, <1>6, SumOnPart

\* The effect of a document is what it received and moved in the layers.
LEMMA EffectIs ==
  ASSUME BooksIInv, ~overlapped, NEW d \in Docs, NEW i \in Items
  PROVE  Effect(d, i) = ReceivedIn(layer, d, i) - MovedIn(layer, moved, d, i)
<1>1. RowsOfLayers(layer) /\ DOMAIN layer \subseteq Layers /\ \A l \in Layers : moved[d][l] \in Int
  BY CommittedIs DEF RowsOfLayers
<1>2. IsFiniteSet(Layers)
  BY WarehouseAssumption
<1>3. SumFunction([l \in {m \in LayersWith(i) : layer[m].doc = d} |-> layer[l].received])
        = ReceivedIn(layer, d, i)
  <2> DEFINE f == [l \in Layers |-> IfOf(layer, l, i, IF layer[l].doc = d THEN layer[l].received ELSE 0)]
             g == [l \in {m \in LayersWith(i) : layer[m].doc = d} |-> layer[l].received]
  <2>1. IntsOn(f, Layers) /\ ReceivedIn(layer, d, i) = SumFunctionOnSet(f, Layers)
    BY <1>1, ReceivedIs
  <2>2. DOMAIN g \subseteq Layers /\ (\A l \in DOMAIN g : g[l] = f[l])
        /\ \A l \in Layers \ DOMAIN g : f[l] = 0
    BY <1>1 DEF LayersWith, IfOf
  <2> HIDE DEF f, g
  <2>3. SumFunction(g) = SumFunctionOnSet(f, Layers)
    BY <1>2, <2>1, <2>2, SumOnPart
  <2> QED
    BY <2>1, <2>3 DEF g
<1>4. SumFunction([l \in LayersWith(i) |-> moved[d][l]]) = MovedIn(layer, moved, d, i)
  <2> DEFINE f == [l \in Layers |-> IfOf(layer, l, i, moved[d][l])]
             g == [l \in LayersWith(i) |-> moved[d][l]]
  <2>1. IntsOn(f, Layers) /\ MovedIn(layer, moved, d, i) = SumFunctionOnSet(f, Layers)
    BY <1>1, MovedIs
  <2>2. DOMAIN g \subseteq Layers /\ (\A l \in DOMAIN g : g[l] = f[l])
        /\ \A l \in Layers \ DOMAIN g : f[l] = 0
    BY <1>1 DEF LayersWith, IfOf
  <2> HIDE DEF f, g
  <2>3. SumFunction(g) = SumFunctionOnSet(f, Layers)
    BY <1>2, <2>1, <2>2, SumOnPart
  <2> QED
    BY <2>1, <2>3 DEF g
<1> QED
  BY <1>3, <1>4 DEF Effect

\* A receipt issues nothing.
LEMMA ReceiptsIssueNothing ==
  ASSUME doc \in [Docs -> DocumentRow], DocumentsAreValid, NEW d \in Docs,
         doc[d].status = "posted", doc[d].kind = "PZ"
  PROVE  Issued(d) = 0
<1> DEFINE S == DOMAIN doc[d].lines
           f == [n \in S |-> Max({0, -Delta(doc[d].kind, doc[d].lines[n])})]
<1>1. IsFiniteSet(S)
  BY LinesAre, FS_Interval
<1>2. ASSUME NEW n \in S PROVE f[n] = 0
  <2>1. doc[d].lines[n].qty > 0
    BY DEF DocumentsAreValid, IsValid
  <2> DEFINE x == -Delta(doc[d].kind, doc[d].lines[n])
  <2>2. Delta(doc[d].kind, doc[d].lines[n]) \in Int /\ Delta(doc[d].kind, doc[d].lines[n]) > 0
    BY <2>1, LineNumbers DEF Delta
  <2>3. x \in Int /\ ~ x > 0
    BY <2>2
  <2>4. f[n] = Max({0, x})
    OBVIOUS
  <2> HIDE DEF x, f
  <2> QED
    BY <2>3, <2>4, MaxIs
<1>3. Issued(d) = SumFunctionOnSet(f, S)
  BY SumIs DEF Issued
<1> HIDE DEF f, S
<1> QED
  BY <1>1, <1>2, <1>3, SumZero

-----------------------------------------------------------------------------
(* Theorems *)

\* The invariant that the two results below rest on holds in every state of
\* the warehouse, whatever requests overlap.
THEOREM InvariantHolds == Spec => []IInv
<1>1. Init => IInv
  <2>1. Init => NumbersAreUnique
    BY DEF Init, NumbersAreUnique, WasPosted
  <2> QED
    BY <2>1, RowsInit, CurrentInit, WrittenInit DEF IInv
<1>2. IInv /\ [Next]_vars => IInv'
  BY RowsNext, CurrentNext, NumbersNext, WrittenNext, UnpostedNext DEF IInv
<1> QED
  BY <1>1, <1>2, PTL DEF Spec

\* Document numbers are immune to concurrency, as the model of the counter
\* says (models/warehouse_document.py:17): no two documents of a kind ever
\* share one.
THEOREM UniqueNumbers == Spec => []NumbersAreUnique
<1>1. IInv => NumbersAreUnique
  BY DEF IInv
<1> QED
  BY <1>1, InvariantHolds, PTL

\* Posting is atomic: a document that was never posted, whatever requests
\* about it were begun and rolled back, has no layer and no movement.
THEOREM DraftsMoveNothing == Spec => []UnpostedHasNoEffect
<1>1. IInv => UnpostedHasNoEffect
  BY DEF IInv
<1> QED
  BY <1>1, InvariantHolds, PTL

\* Every request works in the books of its own: its rows have their types and are
\* locked against all others, whatever overlaps; and as long as no two requests
\* overlapped, the tables committed are in order, and so are those that the only
\* request sees after each line it has posted (_post_pz, _post_wz and _post_kk add
\* or take the layers of a line, then change the balance of its item).
THEOREM BooksHold == Spec => []BooksIInv
<1>1. Init => BooksIInv
  <2>1. Init => IInv
    <3>1. Init => NumbersAreUnique
      BY DEF Init, NumbersAreUnique, WasPosted
    <3> QED
      BY <3>1, RowsInit, CurrentInit, WrittenInit DEF IInv
  <2> QED
    BY <2>1, TypedInit, AloneInit DEF BooksIInv, Typed
<1>2. BooksIInv /\ [Next]_vars => BooksIInv'
  <2> SUFFICES ASSUME BooksIInv, [Next]_vars PROVE BooksIInv'
    OBVIOUS
  <2>1. IInv /\ Typed /\ (~overlapped => Alone)
    BY DEF BooksIInv, Typed
  <2>2. IInv'
    BY <2>1, RowsNext, CurrentNext, NumbersNext, WrittenNext, UnpostedNext DEF IInv
  <2>3. Typed'
    BY <2>1, TypedNext
  <2>4. ~overlapped' => Alone'
    BY <2>1, OverlapStays, AloneNext
  <2> QED
    BY <2>2, <2>3, <2>4 DEF BooksIInv, Typed
<1> QED
  BY <1>1, <1>2, PTL DEF Spec

\* The tables have their types, in every state.
THEOREM TypesHold == Spec => []TypeOK
<1>1. BooksIInv => TypeOK
  BY DEF BooksIInv
<1> QED
  BY <1>1, BooksHold, PTL

\* The list of layers and the balance that the user is shown agree for every
\* item, and every layer shown names the posted document it came with
\* (list_balance_layers, warehouse_item_service.py:86, and upsert_balance,
\* warehouse_document_repository.py:94), as long as requests follow one another.
THEOREM StockAndBalanceAgree == Spec => []BalanceIsStock
<1>1. BooksIInv => BalanceIsStock
  <2> SUFFICES ASSUME BooksIInv, ~overlapped
               PROVE  /\ \A i \in Items :
                           SumFunction([e \in {r \in BalanceLayers : r.item = i} |-> e.quantity])
                             = Quantity(balance, i)
                      /\ \A e \in BalanceLayers : e.source > 0
    BY DEF BalanceIsStock
  <2>1. ASSUME NEW i \in Items
        PROVE  LeftIn(layer, i) = Quantity(balance, i)
    <3>1. LeftIn(layer, i) = Quantity(balance, i) + 0
      BY CommittedIs DEF StockAgrees, NotPending
    <3>2. Quantity(balance, i) \in Int
      BY CommittedIs DEF Quantity
    <3> QED
      BY <3>1, <3>2
  <2>2. \A e \in BalanceLayers : e.source > 0
    BY LayersHaveSources DEF BalanceLayers
  <2> QED
    BY <2>1, <2>2, ListIsLeft
<1> QED
  BY <1>1, BooksHold, PTL

\* What a posted issue or correction shows of its FIFO movements is all that
\* it took, and every layer's loss is accounted for by movements, as long as
\* requests follow one another: the cost of what was issued can be rebuilt
\* (get_document_response, warehouse_document_service.py:399).
THEOREM CostsAreTraceable == Spec => []CostIsTraceable
<1>1. BooksIInv => CostIsTraceable
  <2> SUFFICES ASSUME BooksIInv, ~overlapped
               PROVE  /\ \A l \in DOMAIN layer :
                           layer[l].received - layer[l].left = SumFunction([d \in Docs |-> moved[d][l]])
                      /\ \A d \in Docs : doc[d].status = "posted" =>
                           /\ SumFunction([e \in FifoMovements(d) |-> e.quantity]) = Issued(d)
                           /\ \A e \in FifoMovements(d) : e.source > 0
    BY DEF CostIsTraceable
  <2>1. \A l \in DOMAIN layer :
          layer[l].received - layer[l].left = SumFunction([d \in Docs |-> moved[d][l]])
    BY CommittedIs DEF MovesAddUp
  <2>2. ASSUME NEW d \in Docs, doc[d].status = "posted"
        PROVE  SumFunction([e \in FifoMovements(d) |-> e.quantity]) = Issued(d)
    <3>1. CASE doc[d].kind = "PZ"
      <4>1. FifoMovements(d) = {}
        BY <3>1 DEF FifoMovements
      <4> DEFINE g == [e \in FifoMovements(d) |-> e.quantity]
      <4>2. DOMAIN g = {}
        BY <4>1
      <4> HIDE DEF g
      <4>3. SumFunction(g) = 0
        BY <4>2, SumIs, SumEmpty
      <4> QED
        BY <2>2, <3>1, <4>3, CommittedIs, ReceiptsIssueNothing DEF g
    <3>2. CASE doc[d].kind # "PZ"
      <4>1. doc[d].kind \in {"WZ", "KK"}
        BY <3>2, CommittedIs DEF DocumentRow, Kinds
      <4>2. FifoMovements(d) = MovementsDetail(d)
        BY <2>2, <4>1 DEF FifoMovements
      <4>3. SumFunction(moved[d]) = IssuedBy(d, Len(doc[d].lines))
        BY <2>2, CommittedIs DEF LinesAreMoved, Posted
      <4>4. Issued(d) = IssuedBy(d, Len(doc[d].lines))
        BY CommittedIs, AllIssued
      <4> QED
        BY <4>2, <4>3, <4>4, DetailIsMoved
    <3> QED
      BY <3>1, <3>2
  <2>3. ASSUME NEW d \in Docs, NEW e \in FifoMovements(d)
        PROVE  e.source > 0
    <3>1. e \in MovementsDetail(d)
      BY <2>3 DEF FifoMovements
    <3> QED
      BY <3>1, LayersHaveSources DEF MovementsDetail
  <2> QED
    BY <2>1, <2>2, <2>3
<1> QED
  BY <1>1, BooksHold, PTL

\* Layers are used first in, first out (get_available_fifo,
\* inventory_layer_repository.py:27): no layer is begun while an older one of the item has
\* something left, as long as requests follow one another.
THEOREM FirstInFirstOut == Spec => []OldestLayersGoFirst
<1>1. BooksIInv => OldestLayersGoFirst
  BY CommittedIs DEF OldestLayersGoFirst, OldestGoFirst, LayersWith
<1> QED
  BY <1>1, BooksHold, PTL

\* A posted document has had the effect of its lines once, no more and no
\* less, on every item, as long as requests follow one another
\* (post_document, warehouse_document_service.py:160).
THEOREM EffectIsOnce == Spec => []TakesEffectOnceAlone
<1>1. BooksIInv => TakesEffectOnceAlone
  <2> SUFFICES ASSUME BooksIInv, ~overlapped, NEW d \in Docs, doc[d].status = "posted", NEW i \in Items
               PROVE  Effect(d, i) = Ordered(d, i)
    BY DEF TakesEffectOnceAlone, TakesEffectOnce
  <2>1. ReceivedIn(layer, d, i) - MovedIn(layer, moved, d, i) = OrderedBy(d, i, Len(doc[d].lines))
    BY CommittedIs DEF LinesAreMoved, Posted
  <2>2. Ordered(d, i) = OrderedBy(d, i, Len(doc[d].lines))
    BY CommittedIs, AllOrdered
  <2> QED
    BY <2>1, <2>2, EffectIs
<1> QED
  BY <1>1, BooksHold, PTL

\* A decision is final: no step of a request that is alone changes a posted or
\* cancelled document (the guards of post, PATCH and DELETE read the status
\* without a lock, so this takes the draft still to be one when they write).
THEOREM DecisionsAreFinal == Spec => DecidedIsFinal
<1>1. BooksIInv /\ [Next]_vars
        => [~overlapped => \A d \in Docs : doc[d].status \in {"posted", "cancelled"} => doc'[d] = doc[d]]_vars
  <2> SUFFICES ASSUME BooksIInv, [Next]_vars, ~overlapped,
                      NEW d \in Docs, doc[d].status \in {"posted", "cancelled"}
               PROVE  doc'[d] = doc[d]
    OBVIOUS
  <2>0. doc \in [Docs -> DocumentRow] /\ Alone /\ IInv /\ Typed
    BY CommittedIs DEF BooksIInv, Typed
  <2>1. ASSUME NEW c \in Clients, Busy(c) PROVE work[c].doc # d
    <3>1. ReadIsCurrent(c)
      BY <2>0, <2>1, AloneRequest
    <3> QED
      BY <3>1 DEF ReadIsCurrent
  <2>2. ASSUME NEW c \in Clients, MarkPosted(c) \/ MarkCancelled(c)
        PROVE  doc'[d] = doc[d]
    BY <2>0, <2>1, <2>2 DEF MarkPosted, MarkCancelled, At
  <2>3. ASSUME NEW c \in Clients, NEW lines \in Lines, ReplaceLines(c, lines)
        PROVE  doc'[d] = doc[d]
    BY <2>0, <2>1, <2>3 DEF ReplaceLines, At
  <2>4. ASSUME NEW e \in Docs, NEW kind \in Kinds, NEW lines \in Lines, CreateDocument(e, kind, lines)
        PROVE  doc'[d] = doc[d]
    BY <2>0, <2>4 DEF CreateDocument
  <2>5. ASSUME NEW c \in Clients, PostStep(c), ~MarkPosted(c)
        PROVE  doc' = doc
    BY <2>5 DEF PostStep, AddLayer, ReadLayers, TakeLayers, ReadBalance, StoreBalance, db
  <2>6. ASSUME NEW c \in Clients, Rollback(c)
        PROVE  doc' = doc
    BY <2>6 DEF Rollback, db
  <2>7. ASSUME NEW c \in Clients, NEW e \in Docs, NEW op \in {"post", "update", "cancel"}, Load(c, e, op)
        PROVE  doc' = doc
    BY <2>7 DEF Load, db
  <2>8. CASE UNCHANGED vars
    BY <2>8 DEF vars, db
  <2> QED
    BY <2>2, <2>3, <2>4, <2>5, <2>6, <2>7, <2>8 DEF Next
<1> QED
  BY <1>1, BooksHold, PTL DEF Spec, DecidedIsFinal
=============================================================================
