-------------------------- MODULE Payments_proofs --------------------------
(***************************************************************************)
(* Proofs about Payments, for any invoices, entries, allocations, amounts  *)
(* and any number of overlapping requests: the history of allocations is   *)
(* never rewritten; a request that is alone repairs the rows it touches;   *)
(* the summary and the settlements tell the same debt; and without         *)
(* overlaps no bank line is overdrawn.  The facts about sums are those of  *)
(* Sums_proofs.                                                            *)
(***************************************************************************)
EXTENDS Payments, Sums_proofs, TLAPS

-----------------------------------------------------------------------------
(* What a step can do to allocations *)

\* Nothing is written or committed.
Keeps ==
  /\ alloc' = alloc
  /\ \A x \in Clients : written'[x].alloc = written[x].alloc

\* c writes the row a.
Puts(c, a, row) ==
  /\ alloc' = alloc
  /\ \A x \in Clients :
       written'[x].alloc = IF x = c THEN Over(Only(a, row), written[c].alloc)
                           ELSE written[x].alloc

\* c ends.
Ends(c) ==
  /\ ~Busy(c)'
  /\ \A x \in Clients :
       written'[x].alloc = IF x = c THEN Nothing ELSE written[x].alloc

\* The effects of a step of c.
Inserts(c) == \E a, row : Unused(a) /\ Puts(c, a, row)
Marks(c) ==
  LET a == work[c].alloc IN
  /\ a \in DOMAIN AllocationsOf(c)
  /\ ~AllocationLocked(c, a)
  /\ Puts(c, a, Reversed(AllocationsOf(c)[a]))
Commits(c) == Ends(c) /\ alloc' = Over(written[c].alloc, alloc)
Drops(c) == Ends(c) /\ alloc' = alloc
Effect ==
  /\ Shapes'
  /\ \A x \in Clients : At(x, "mark")' => work'[x].alloc \in DOMAIN AllocationsOf(x)
  /\ \/ Keeps
     \/ \E c \in Clients : Inserts(c) \/ Marks(c) \/ Commits(c) \/ Drops(c)

\* A request that starts.
LEMMA StartEffect ==
  ASSUME IInv, NEW c \in Clients, NEW request, Start(c, request),
         DOMAIN request = DOMAIN Free,
         request.op # "none" /\ request.step = "mark" => request.alloc \in DOMAIN AllocationsOf(c)
  PROVE  /\ DOMAIN work' = Clients /\ \A x \in Clients : DOMAIN work'[x] = DOMAIN Free
         /\ alloc' = alloc
         /\ \A x \in Clients : At(x, "mark")' => work'[x].alloc \in DOMAIN AllocationsOf(x)
<1>1. \A x \in Clients : /\ DOMAIN work'[x] = DOMAIN Free
                         /\ x # c => work'[x].op = work[x].op /\ work'[x].step = work[x].step
                                     /\ work'[x].alloc = work[x].alloc
                         /\ x = c => work'[x].op = request.op /\ work'[x].step = request.step
                                     /\ work'[x].alloc = request.alloc
  BY DEF Start, IInv, Shapes, Free
<1>2. DOMAIN work' = Clients /\ alloc' = alloc
  BY DEF Start, db
<1> QED
  BY <1>1, <1>2 DEF IInv, MarkedExists, At, Busy

\* A request that ends with what it has written, or with more entries and
\* invoices.
LEMMA CommitEffect ==
  ASSUME IInv, NEW c \in Clients, NEW w, w.alloc = written[c].alloc, Commit(c, w)
  PROVE  Effect
<1>1. \A x \in Clients : /\ x # c => work'[x] = work[x] /\ written'[x] = written[x]
                         /\ x = c => work'[x] = Free /\ written'[x] = NothingWritten
  BY DEF Commit, Finish, IInv, Shapes
<1>2. DOMAIN work' = Clients /\ DOMAIN written' = Clients
  BY DEF Commit, Finish, IInv, Shapes
<1>3. Shapes'
  BY <1>1, <1>2 DEF IInv, Shapes
<1>4. \A x \in Clients : At(x, "mark")' => work'[x].alloc \in DOMAIN AllocationsOf(x)
  BY <1>1 DEF IInv, MarkedExists, At, Busy, Free
<1>5. Commits(c)
  BY <1>1 DEF Commits, Ends, Commit, Busy, Free, NothingWritten
<1> QED
  BY <1>3, <1>4, <1>5 DEF Effect

LEMMA RollbackEffect ==
  ASSUME IInv, NEW c \in Clients, Rollback(c)
  PROVE  Effect
<1>1. \A x \in Clients : /\ x # c => work'[x] = work[x] /\ written'[x] = written[x]
                         /\ x = c => work'[x] = Free /\ written'[x] = NothingWritten
  BY DEF Rollback, Finish, IInv, Shapes
<1>2. DOMAIN work' = Clients /\ DOMAIN written' = Clients
  BY DEF Rollback, Finish, IInv, Shapes
<1>3. Shapes'
  BY <1>1, <1>2 DEF IInv, Shapes
<1>4. \A x \in Clients : At(x, "mark")' => work'[x].alloc \in DOMAIN AllocationsOf(x)
  BY <1>1 DEF IInv, MarkedExists, At, Busy, Free
<1>5. Drops(c)
  BY <1>1 DEF Drops, Ends, Rollback, Busy, Free, NothingWritten, db
<1> QED
  BY <1>3, <1>4, <1>5 DEF Effect

\* A step in the middle of a request, after which it is not about to mark, or
\* about to mark an allocation that exists.
LEMMA MiddleEffect ==
  ASSUME IInv, NEW c \in Clients,
         alloc' = alloc,
         DOMAIN work' = Clients, \A x \in Clients \ {c} : work'[x] = work[x],
         DOMAIN work'[c] = DOMAIN Free,
         work'[c].step = "mark" => work'[c].alloc \in DOMAIN AllocationsOf(c),
         DOMAIN written' = Clients, \A x \in Clients \ {c} : written'[x] = written[x],
         DOMAIN written'[c] = DOMAIN NothingWritten,
         \/ written'[c].alloc = written[c].alloc
         \/ \E a, row : Unused(a) /\ written'[c].alloc = Over(Only(a, row), written[c].alloc)
         \/ /\ work[c].alloc \in DOMAIN AllocationsOf(c)
            /\ ~AllocationLocked(c, work[c].alloc)
            /\ written'[c].alloc =
                 Over(Only(work[c].alloc, Reversed(AllocationsOf(c)[work[c].alloc])),
                      written[c].alloc)
  PROVE  Effect
<1>1. Shapes'
  BY DEF IInv, Shapes
<1>2. \A x \in Clients : At(x, "mark")' => work'[x].alloc \in DOMAIN AllocationsOf(x)
  BY DEF IInv, MarkedExists, At, Busy
<1>3. Keeps \/ Inserts(c) \/ Marks(c)
  BY DEF Keeps, Inserts, Marks, Puts
<1> QED
  BY <1>1, <1>2, <1>3 DEF Effect

\* Every step has one of the effects.
LEMMA BeginEffect ==
  ASSUME IInv, NEW c \in Clients, Begin(c)
  PROVE  Effect
<1> USE DEF Free, NothingWritten
<1>1. ASSUME NEW a \in Allocations, NEW b \in Entries, NEW i \in Invoices,
             NEW amount \in Amounts, AllocateManual(c, a, b, i, amount)
      PROVE  Effect
  <2> DEFINE request == [Free EXCEPT !.op = "allocate", !.entry = b, !.invoice = i]
  <2>1. /\ DOMAIN work' = Clients /\ \A x \in Clients : DOMAIN work'[x] = DOMAIN Free
        /\ alloc' = alloc
        /\ \A x \in Clients : At(x, "mark")' => work'[x].alloc \in DOMAIN AllocationsOf(x)
    <3>1. Start(c, request) /\ DOMAIN request = DOMAIN Free /\ request.step # "mark"
      BY <1>1 DEF AllocateManual
    <3> HIDE DEF request
    <3> QED
      BY <3>1, StartEffect
  <2>2. /\ DOMAIN written' = Clients
        /\ \A x \in Clients : DOMAIN written'[x] = DOMAIN NothingWritten
        /\ \A x \in Clients :
             written'[x].alloc = IF x = c THEN Over(Only(a, NewAllocation(b, i, amount)), written[c].alloc)
                                 ELSE written[x].alloc
    BY <1>1 DEF AllocateManual, WithAllocation, IInv, Shapes
  <2>3. Inserts(c)
    BY <1>1, <2>1, <2>2 DEF Inserts, Puts, AllocateManual
  <2> QED
    BY <2>1, <2>2, <2>3 DEF Effect, Shapes
<1>2. ASSUME NEW a \in Allocations, ReverseAllocation(c, a)
      PROVE  Effect
  <2> DEFINE request == [Free EXCEPT !.op = "reverse", !.step = "mark", !.alloc = a,
                           !.entry = alloc[a].entry, !.invoice = alloc[a].invoice]
  <2>1. /\ DOMAIN work' = Clients /\ \A x \in Clients : DOMAIN work'[x] = DOMAIN Free
        /\ alloc' = alloc
        /\ \A x \in Clients : At(x, "mark")' => work'[x].alloc \in DOMAIN AllocationsOf(x)
    <3>1. Start(c, request) /\ DOMAIN request = DOMAIN Free /\ request.alloc = a
      BY <1>2 DEF ReverseAllocation
    <3>2. a \in DOMAIN AllocationsOf(c)
      BY <1>2 DEF ReverseAllocation, AllocationsOf, Over
    <3> HIDE DEF request
    <3> QED
      BY <3>1, <3>2, StartEffect
  <2>2. written' = written
    BY <1>2 DEF ReverseAllocation
  <2> QED
    BY <2>1, <2>2 DEF Effect, Keeps, IInv, Shapes
<1>3. ASSUME NEW lines \in SUBSET BankLines, ImportCsv(c, lines)
      PROVE  Effect
  <2> DEFINE request == [Free EXCEPT !.op = "match", !.step = "match", !.todo = lines \ DOMAIN entry]
  <2>1. /\ DOMAIN work' = Clients /\ \A x \in Clients : DOMAIN work'[x] = DOMAIN Free
        /\ alloc' = alloc
        /\ \A x \in Clients : At(x, "mark")' => work'[x].alloc \in DOMAIN AllocationsOf(x)
    <3>1. Start(c, request) /\ DOMAIN request = DOMAIN Free /\ request.step # "mark"
      BY <1>3 DEF ImportCsv
    <3> HIDE DEF request
    <3> QED
      BY <3>1, StartEffect
  <2>2. /\ DOMAIN written' = Clients
        /\ \A x \in Clients : /\ DOMAIN written'[x] = DOMAIN NothingWritten
                              /\ written'[x].alloc = written[x].alloc
    BY <1>3 DEF ImportCsv, IInv, Shapes
  <2> QED
    BY <2>1, <2>2 DEF Effect, Keeps, Shapes
<1>4. ASSUME NEW b \in Entries, Rematch(c, b)
      PROVE  Effect
  <2> DEFINE request == [Free EXCEPT !.op = "match", !.step = "match", !.todo = {b}]
  <2>1. /\ DOMAIN work' = Clients /\ \A x \in Clients : DOMAIN work'[x] = DOMAIN Free
        /\ alloc' = alloc
        /\ \A x \in Clients : At(x, "mark")' => work'[x].alloc \in DOMAIN AllocationsOf(x)
    <3>1. Start(c, request) /\ DOMAIN request = DOMAIN Free /\ request.step # "mark"
      BY <1>4 DEF Rematch
    <3> HIDE DEF request
    <3> QED
      BY <3>1, StartEffect
  <2>2. written' = written
    BY <1>4 DEF Rematch
  <2> QED
    BY <2>1, <2>2 DEF Effect, Keeps, IInv, Shapes
<1>5. ASSUME NEW i \in Invoices, NEW gross \in Amounts, NEW amount \in Amounts \union {0},
             UpdateInvoiceAndPay(c, i, gross, amount)
      PROVE  Effect
  <2> DEFINE request == [Free EXCEPT !.op = "form", !.step = "form", !.entry = CashEntry[i],
                           !.invoice = i, !.amount = amount]
  <2>1. /\ DOMAIN work' = Clients /\ \A x \in Clients : DOMAIN work'[x] = DOMAIN Free
        /\ alloc' = alloc
        /\ \A x \in Clients : At(x, "mark")' => work'[x].alloc \in DOMAIN AllocationsOf(x)
    <3>1. Start(c, request) /\ DOMAIN request = DOMAIN Free /\ request.step # "mark"
      BY <1>5 DEF UpdateInvoiceAndPay
    <3> HIDE DEF request
    <3> QED
      BY <3>1, StartEffect
  <2>2. /\ DOMAIN written' = Clients
        /\ \A x \in Clients : /\ DOMAIN written'[x] = DOMAIN NothingWritten
                              /\ written'[x].alloc = written[x].alloc
    BY <1>5 DEF UpdateInvoiceAndPay, IInv, Shapes
  <2> QED
    BY <2>1, <2>2 DEF Effect, Keeps, Shapes
<1> QED
  BY <1>1, <1>2, <1>3, <1>4, <1>5 DEF Begin

LEMMA ContinueEffect ==
  ASSUME IInv, NEW c \in Clients, At(c, "invoice"), NEW w, Continue(c, w),
         w.alloc = written[c].alloc, DOMAIN w = DOMAIN NothingWritten
  PROVE  Effect
<1>1. CASE Commit(c, w)
  BY <1>1, CommitEffect
<1>2. CASE /\ \/ work' = [work EXCEPT ![c].step = "renew"]
              \/ work' = [work EXCEPT ![c].step = "match"]
           /\ written' = [written EXCEPT ![c] = w]
           /\ alloc' = alloc
  BY <1>2, MiddleEffect DEF IInv, Shapes, Free
<1> QED
  BY <1>1, <1>2 DEF Continue, db

LEMMA StepEffect ==
  ASSUME IInv, NEW c \in Clients, Step(c)
  PROVE  Effect
<1> USE DEF IInv, Shapes, Free, db
<1>1. CASE ReadSum(c)
  BY <1>1, MiddleEffect DEF ReadSum
<1>2. CASE WriteEntry(c)
  <2>1. /\ work' = [work EXCEPT ![c].step = "paid"] /\ alloc' = alloc
        /\ DOMAIN written' = Clients /\ \A x \in Clients \ {c} : written'[x] = written[x]
        /\ DOMAIN written'[c] = DOMAIN NothingWritten /\ written'[c].alloc = written[c].alloc
    BY <1>2 DEF WriteEntry, NothingWritten
  <2> QED
    BY <2>1, MiddleEffect
<1>3. CASE ReadPaid(c)
  BY <1>3, MiddleEffect DEF ReadPaid
<1>4. CASE WriteInvoice(c)
  <2> DEFINE w == [written[c] EXCEPT !.invoice =
             Over(Only(work[c].invoice,
                       Updated(loaded[c].invoice, InvoiceAfter(c), InvoicesOf(c)[work[c].invoice])), @)]
  <2>1. /\ w.alloc = written[c].alloc /\ DOMAIN w = DOMAIN NothingWritten
        /\ DOMAIN written[c] = DOMAIN NothingWritten
    BY DEF NothingWritten
  <2>2. At(c, "invoice") /\ (Continue(c, written[c]) \/ Continue(c, w))
    BY <1>4 DEF WriteInvoice
  <2> HIDE DEF w
  <2> QED
    BY <2>1, <2>2, ContinueEffect
<1>5. CASE MarkReversed(c)
  <2> DEFINE a == work[c].alloc
  <2>1. a \in DOMAIN AllocationsOf(c) /\ ~AllocationLocked(c, a)
    BY <1>5 DEF MarkReversed, MarkedExists
  <2>2. /\ work' = [work EXCEPT ![c].step = "sum"] /\ alloc' = alloc
        /\ DOMAIN written' = Clients /\ \A x \in Clients \ {c} : written'[x] = written[x]
        /\ DOMAIN written'[c] = DOMAIN NothingWritten
        /\ written'[c].alloc = Over(Only(a, Reversed(AllocationsOf(c)[a])), written[c].alloc)
    BY <1>5 DEF MarkReversed, WithAllocation, NothingWritten
  <2> QED
    BY <2>1, <2>2, MiddleEffect
<1>6. ASSUME NEW a \in Allocations, NEW b \in Entries, NEW i \in Invoices, AutoMatch(c, a, b, i)
      PROVE  Effect
  <2>1. /\ DOMAIN work' = Clients /\ \A x \in Clients \ {c} : work'[x] = work[x]
        /\ DOMAIN work'[c] = DOMAIN Free /\ work'[c].step = "sum" /\ alloc' = alloc
    BY <1>6 DEF AutoMatch
  <2>2. /\ DOMAIN written' = Clients /\ \A x \in Clients \ {c} : written'[x] = written[x]
        /\ DOMAIN written'[c] = DOMAIN NothingWritten
        /\ Unused(a)
        /\ \E row : written'[c].alloc = Over(Only(a, row), written[c].alloc)
    BY <1>6 DEF AutoMatch, WithAllocation, NothingWritten
  <2> QED
    BY <2>1, <2>2, MiddleEffect
<1>7. ASSUME NEW b \in Entries, Leave(c, b)
      PROVE  Effect
  <2> DEFINE w == IF ReviewedEntry(c, b) = EntriesOf(c)[b] THEN written[c]
                  ELSE [written[c] EXCEPT !.entry = Over(Only(b, ReviewedEntry(c, b)), @)]
  <2>1. w.alloc = written[c].alloc /\ DOMAIN w = DOMAIN NothingWritten
    BY DEF NothingWritten
  <2>2. \/ Commit(c, w)
        \/ /\ work' = [work EXCEPT ![c].todo = @ \ {b}] /\ work[c].step = "match"
           /\ written' = [written EXCEPT ![c] = w] /\ alloc' = alloc
    BY <1>7 DEF Leave, At
  <2> HIDE DEF w
  <2> QED
    BY <2>1, <2>2, CommitEffect, MiddleEffect
<1>8. CASE FormHasNone(c)
  <2>1. \/ Commit(c, written[c])
        \/ work' = [work EXCEPT ![c].step = "renew"] /\ UNCHANGED <<written, alloc>>
    BY <1>8 DEF FormHasNone
  <2> QED
    BY <2>1, CommitEffect, MiddleEffect
<1>9. ASSUME NEW a \in Allocations, FormHasOne(c, a)
      PROVE  Effect
  <2>1. \/ Commit(c, written[c])
        \/ /\ work' = [work EXCEPT ![c].step = "mark", ![c].alloc = a]
           /\ UNCHANGED <<written, alloc>>
    BY <1>9 DEF FormHasOne
  <2>2. a \in DOMAIN AllocationsOf(c)
    BY <1>9 DEF FormHasOne, FormAllocations, ActiveFor
  <2> QED
    BY <2>1, <2>2, CommitEffect, MiddleEffect
<1>10. ASSUME NEW a \in Allocations, Renew(c, a)
       PROVE  Effect
  <2>1. /\ DOMAIN work' = Clients /\ \A x \in Clients \ {c} : work'[x] = work[x]
        /\ DOMAIN work'[c] = DOMAIN Free /\ work'[c].step = "sum" /\ alloc' = alloc
    BY <1>10 DEF Renew
  <2>2. /\ DOMAIN written' = Clients /\ \A x \in Clients \ {c} : written'[x] = written[x]
        /\ DOMAIN written'[c] = DOMAIN NothingWritten
        /\ Unused(a)
        /\ \E row : written'[c].alloc = Over(Only(a, row), written[c].alloc)
    BY <1>10 DEF Renew, WithAllocation, NothingWritten
  <2> QED
    BY <2>1, <2>2, MiddleEffect
<1> QED
  BY <1>1, <1>2, <1>3, <1>4, <1>5, <1>6, <1>7, <1>8, <1>9, <1>10 DEF Step

LEMMA NextEffect ==
  ASSUME IInv, [Next]_vars
  PROVE  Effect
<1>1. ASSUME NEW i \in Invoices, NEW gross \in Amounts, UpdateInvoice(i, gross)
      PROVE  Effect
  <2>1. /\ alloc' = alloc /\ written' = written /\ DOMAIN work' = Clients
        /\ \A x \in Clients : /\ DOMAIN work'[x] = DOMAIN Free
                              /\ work'[x].op = work[x].op /\ work'[x].step = work[x].step
                              /\ work'[x].alloc = work[x].alloc
    BY <1>1 DEF UpdateInvoice, IInv, Shapes, Free
  <2> QED
    BY <2>1 DEF Effect, Keeps, IInv, Shapes, MarkedExists, At, Busy
<1>2. CASE UNCHANGED vars
  BY <1>2 DEF vars, db, Effect, Keeps, IInv, Shapes, MarkedExists, At, Busy
<1> QED
  BY <1>1, <1>2, BeginEffect, StepEffect, RollbackEffect DEF Next

-----------------------------------------------------------------------------
(* The invariant *)

LEMMA IInvInit == Init => IInv
BY DEF Init, IInv, Shapes, WrittenIsLocked, MarkedExists, At, Busy, Free, NothingWritten, Nothing

\* Marking twice is marking once.
LEMMA MarkTwice ==
  ASSUME NEW row
  PROVE  [[row EXCEPT !.reversed = TRUE] EXCEPT !.reversed = TRUE] = [row EXCEPT !.reversed = TRUE]
OBVIOUS

\* What a put changes.
LEMMA PutChanges ==
  ASSUME NEW c \in Clients, NEW a, NEW row, Puts(c, a, row)
  PROVE  /\ alloc' = alloc
         /\ \A x \in Clients \ {c} : written'[x].alloc = written[x].alloc
         /\ DOMAIN written'[c].alloc = DOMAIN written[c].alloc \union {a}
         /\ written'[c].alloc[a] = row
         /\ \A k \in DOMAIN written[c].alloc : k # a => written'[c].alloc[k] = written[c].alloc[k]
<1>1. DOMAIN Only(a, row) = {a} /\ Only(a, row)[a] = row
  BY DEF Only
<1>2. written'[c].alloc = Over(Only(a, row), written[c].alloc)
  BY DEF Puts
<1>3. DOMAIN written'[c].alloc = DOMAIN written[c].alloc \union {a}
  BY <1>1, <1>2 DEF Over
<1>4. \A k \in DOMAIN written'[c].alloc :
        written'[c].alloc[k] = IF k = a THEN row ELSE written[c].alloc[k]
  BY <1>1, <1>2 DEF Over
<1> QED
  BY <1>3, <1>4 DEF Puts

LEMMA WrittenStaysLocked ==
  ASSUME IInv, Effect
  PROVE  WrittenIsLocked'
<1> USE DEF IInv, WrittenIsLocked
<1>1. CASE Keeps
  BY <1>1 DEF Keeps
<1>2. ASSUME NEW c \in Clients, Inserts(c)
      PROVE  WrittenIsLocked'
  <2>1. PICK a, row : Unused(a) /\ Puts(c, a, row)
    BY <1>2 DEF Inserts
  <2> QED
    BY <2>1, PutChanges DEF Unused
<1>3. ASSUME NEW c \in Clients, Marks(c)
      PROVE  WrittenIsLocked'
  <2> DEFINE a == work[c].alloc
             row == AllocationsOf(c)[a]
  <2>1. /\ a \in DOMAIN AllocationsOf(c) /\ ~AllocationLocked(c, a)
        /\ Puts(c, a, [row EXCEPT !.reversed = TRUE])
    BY <1>3 DEF Marks, Reversed
  <2>2. a \in DOMAIN alloc => row \in {alloc[a], [alloc[a] EXCEPT !.reversed = TRUE]}
    BY <2>1 DEF AllocationsOf, Over
  <2>3. a \in DOMAIN alloc => [row EXCEPT !.reversed = TRUE] = [alloc[a] EXCEPT !.reversed = TRUE]
    BY <2>2, MarkTwice
  <2> HIDE DEF a, row
  <2> QED
    BY <2>1, <2>3, PutChanges DEF AllocationLocked
<1>4. ASSUME NEW c \in Clients, Commits(c)
      PROVE  WrittenIsLocked'
  BY <1>4 DEF Commits, Ends, Over, Nothing
<1>5. ASSUME NEW c \in Clients, Drops(c)
      PROVE  WrittenIsLocked'
  BY <1>5 DEF Drops, Ends, Nothing
<1> QED
  BY <1>1, <1>2, <1>3, <1>4, <1>5 DEF Effect

LEMMA MarkedStays ==
  ASSUME IInv, Effect
  PROVE  MarkedExists'
<1> SUFFICES ASSUME NEW x \in Clients, At(x, "mark")'
             PROVE  work'[x].alloc \in DOMAIN AllocationsOf(x)'
  BY DEF MarkedExists
<1>1. work'[x].alloc \in DOMAIN AllocationsOf(x)
  BY DEF Effect
<1>2. DOMAIN AllocationsOf(x) \subseteq DOMAIN AllocationsOf(x)'
  <2>1. CASE Keeps
    BY <2>1 DEF Keeps, AllocationsOf, Over
  <2>2. ASSUME NEW c \in Clients, Inserts(c) \/ Marks(c)
        PROVE  DOMAIN AllocationsOf(x) \subseteq DOMAIN AllocationsOf(x)'
    <3>1. PICK a, row : Puts(c, a, row)
      BY <2>2 DEF Inserts, Marks
    <3> QED
      BY <3>1, PutChanges DEF AllocationsOf, Over
  <2>3. ASSUME NEW c \in Clients, Commits(c) \/ Drops(c)
        PROVE  DOMAIN AllocationsOf(x) \subseteq DOMAIN AllocationsOf(x)'
    <3>1. x # c
      BY <2>3 DEF Commits, Drops, Ends, At
    <3> QED
      BY <2>3, <3>1 DEF Commits, Drops, Ends, AllocationsOf, Over
  <2> QED
    BY <2>1, <2>2, <2>3 DEF Effect
<1> QED
  BY <1>1, <1>2

\* The row locks hold whatever overlaps.
THEOREM LocksHold == Spec => []IInv
<1>1. Init => IInv
  BY IInvInit
<1>2. IInv /\ [Next]_vars => IInv'
  <2> SUFFICES ASSUME IInv, [Next]_vars PROVE IInv'
    OBVIOUS
  <2>1. Effect
    BY NextEffect
  <2>2. Shapes'
    BY <2>1 DEF Effect
  <2> QED
    BY <2>1, <2>2, WrittenStaysLocked, MarkedStays DEF IInv
<1> QED
  BY <1>1, <1>2, PTL DEF Spec

-----------------------------------------------------------------------------
(* The history *)

\* An allocation stays as it was made, at most marked as reversed, however
\* many imports, matches, reversals and forms overlap
\* (PaymentAllocationRepository.reverse).
THEOREM HistoryKept == Spec => HistoryIsKept
<1> DEFINE Kept == \A a \in DOMAIN alloc :
                     /\ a \in DOMAIN alloc'
                     /\ alloc'[a] \in {alloc[a], [alloc[a] EXCEPT !.reversed = TRUE]}
<1>1. IInv /\ [Next]_vars => [Kept]_vars
  <2> SUFFICES ASSUME IInv, [Next]_vars PROVE Kept
    OBVIOUS
  <2>1. Effect
    BY NextEffect
  <2>2. CASE alloc' = alloc
    BY <2>2
  <2>3. ASSUME NEW c \in Clients, Commits(c)
        PROVE  Kept
    BY <2>3 DEF Commits, Over, IInv, WrittenIsLocked
  <2> QED
    BY <2>1, <2>2, <2>3 DEF Effect, Keeps, Inserts, Marks, Puts, Drops
<1> QED
  BY <1>1, LocksHold, PTL DEF Spec, HistoryIsKept

-----------------------------------------------------------------------------
(* Sums of allocations *)

\* A table of allocations of which sums can be taken.
Summable(rows) == IsFiniteSet(DOMAIN rows) /\ \A a \in DOMAIN rows : rows[a].amount \in Int

LEMMA OverOnly ==
  ASSUME NEW f, NEW x, NEW row
  PROVE  /\ DOMAIN Over(Only(x, row), f) = DOMAIN f \union {x}
         /\ Over(Only(x, row), f)[x] = row
         /\ \A y \in DOMAIN f : y # x => Over(Only(x, row), f)[y] = f[y]
BY DEF Over, Only

LEMMA OverTwice ==
  ASSUME NEW f, NEW g, NEW h
  PROVE  Over(Over(f, g), h) = Over(f, Over(g, h))
<1>1. DOMAIN Over(Over(f, g), h) = DOMAIN Over(f, Over(g, h))
  BY DEF Over
<1>2. \A x \in DOMAIN Over(Over(f, g), h) : Over(Over(f, g), h)[x] = Over(f, Over(g, h))[x]
  BY DEF Over
<1> QED
  BY <1>1, <1>2 DEF Over

\* The sum of allocations as one over the rows of the table.
LEMMA AllocatedIs ==
  ASSUME NEW rows, NEW column, NEW key
  PROVE  Allocated(rows, column, key)
           = SumFunctionOnSet([a \in ActiveFor(rows, column, key) |-> rows[a].amount],
                              ActiveFor(rows, column, key))
<1> DEFINE f == [a \in ActiveFor(rows, column, key) |-> rows[a].amount]
<1>1. DOMAIN f = ActiveFor(rows, column, key)
  OBVIOUS
<1>2. Allocated(rows, column, key) = SumFunctionOnSet(f, DOMAIN f)
  BY DEF Allocated, SumFunction
<1> QED
  BY <1>1, <1>2

LEMMA AllocatedInt ==
  ASSUME NEW rows, Summable(rows), NEW column, NEW key
  PROVE  Allocated(rows, column, key) \in Int
<1> DEFINE S == ActiveFor(rows, column, key)
           f == [a \in S |-> rows[a].amount]
<1>1. IsFiniteSet(S)
  BY FS_Subset DEF ActiveFor, Summable
<1>2. IntsOn(f, S)
  BY DEF ActiveFor, IntsOn, Summable
<1> HIDE DEF f, S
<1>3. SumFunctionOnSet(f, S) \in Int
  BY <1>1, <1>2, SumInt
<1> QED
  BY <1>3, AllocatedIs DEF f, S

\* It depends only on the active allocations and their amounts.
LEMMA AllocatedSame ==
  ASSUME NEW rows, NEW rows2, NEW column, NEW key,
         ActiveFor(rows2, column, key) = ActiveFor(rows, column, key),
         \A a \in ActiveFor(rows, column, key) : rows2[a].amount = rows[a].amount
  PROVE  Allocated(rows2, column, key) = Allocated(rows, column, key)
<1> DEFINE S == ActiveFor(rows, column, key)
<1>1. [a \in S |-> rows2[a].amount] = [a \in S |-> rows[a].amount]
  OBVIOUS
<1> QED
  BY <1>1 DEF Allocated

\* Without allocations it is nothing.
LEMMA AllocatedNone ==
  ASSUME NEW rows, NEW column, NEW key, ActiveFor(rows, column, key) = {}
  PROVE  Allocated(rows, column, key) = 0
BY AllocatedIs, SumEmpty

\* One more active allocation.
LEMMA AllocatedMore ==
  ASSUME NEW rows, NEW rows2, NEW column, NEW key, NEW a,
         Summable(rows), a \in DOMAIN rows,
         a \in ActiveFor(rows, column, key),
         ActiveFor(rows2, column, key) = ActiveFor(rows, column, key) \ {a},
         \A x \in ActiveFor(rows2, column, key) : rows2[x].amount = rows[x].amount
  PROVE  Allocated(rows, column, key) = Allocated(rows2, column, key) + rows[a].amount
<1> DEFINE S == ActiveFor(rows, column, key)
           f == [x \in S |-> rows[x].amount]
           g == [x \in S \ {a} |-> rows2[x].amount]
<1>1. IsFiniteSet(S) /\ S \ {a} \in SUBSET S /\ IsFiniteSet(S \ {a})
  BY FS_Subset DEF ActiveFor, Summable
<1>2. IntsOn(f, S) /\ IntsOn(f, S \ {a}) /\ a \in S /\ f[a] = rows[a].amount /\ f[a] \in Int
  BY DEF ActiveFor, IntsOn, Summable
<1>3. \A x \in S \ {a} : f[x] = g[x]
  OBVIOUS
<1>4. Allocated(rows2, column, key) = SumFunctionOnSet(g, S \ {a})
  BY AllocatedIs
<1>5. Allocated(rows, column, key) = SumFunctionOnSet(f, S)
  BY AllocatedIs
<1> HIDE DEF f, g, S
<1>6. SumFunctionOnSet(f, S) = f[a] + SumFunctionOnSet(f, S \ {a})
  BY <1>1, <1>2, SumRemove
<1>7. SumFunctionOnSet(f, S \ {a}) = SumFunctionOnSet(g, S \ {a})
  BY <1>1, <1>2, <1>3, SumSame
<1>8. SumFunctionOnSet(f, S \ {a}) \in Int
  BY <1>1, <1>2, SumInt
<1> QED
  BY <1>2, <1>4, <1>5, <1>6, <1>7, <1>8

\* A new allocation ...
LEMMA AllocatedPut ==
  ASSUME NEW rows, Summable(rows), NEW a, a \notin DOMAIN rows, NEW row, row.amount \in Int,
         ~row.reversed, NEW column, NEW key
  PROVE  LET rows2 == Over(Only(a, row), rows) IN
         /\ Summable(rows2)
         /\ Allocated(rows2, column, key) =
              Allocated(rows, column, key) + IF row[column] = key THEN row.amount ELSE 0
<1> DEFINE rows2 == Over(Only(a, row), rows)
<1>1. /\ DOMAIN rows2 = DOMAIN rows \union {a} /\ rows2[a] = row
      /\ \A x \in DOMAIN rows : x # a => rows2[x] = rows[x]
  BY DEF Over, Only
<1> HIDE DEF rows2
<1>2. Summable(rows2)
  BY <1>1, FS_AddElement DEF Summable
<1>3. Allocated(rows2, column, key) =
        Allocated(rows, column, key) + IF row[column] = key THEN row.amount ELSE 0
  <2>0. Allocated(rows, column, key) \in Int
    BY AllocatedInt
  <2>1. CASE row[column] = key
    <3>1. a \in ActiveFor(rows2, column, key)
      BY <1>1, <2>1 DEF ActiveFor
    <3>2. ActiveFor(rows, column, key) = ActiveFor(rows2, column, key) \ {a}
      BY <1>1 DEF ActiveFor
    <3>3. \A x \in ActiveFor(rows, column, key) : rows[x].amount = rows2[x].amount
      BY <1>1 DEF ActiveFor
    <3>4. Allocated(rows2, column, key) = Allocated(rows, column, key) + rows2[a].amount
      BY <1>1, <1>2, <3>1, <3>2, <3>3, AllocatedMore
    <3> QED
      BY <1>1, <2>1, <3>4
  <2>2. CASE row[column] # key
    <3>1. ActiveFor(rows2, column, key) = ActiveFor(rows, column, key)
      BY <1>1, <2>2 DEF ActiveFor
    <3>2. \A x \in ActiveFor(rows, column, key) : rows2[x].amount = rows[x].amount
      BY <1>1 DEF ActiveFor
    <3>3. Allocated(rows2, column, key) = Allocated(rows, column, key)
      BY <3>1, <3>2, AllocatedSame
    <3> QED
      BY <2>0, <2>2, <3>3
  <2> QED
    BY <2>1, <2>2
<1> QED
  BY <1>2, <1>3 DEF rows2

\* ... and one that is reversed.
LEMMA AllocatedReversed ==
  ASSUME NEW rows, Summable(rows), NEW a \in DOMAIN rows, NEW column, NEW key, column # "reversed",
         "reversed" \in DOMAIN rows[a], column \in DOMAIN rows[a], "amount" \in DOMAIN rows[a]
  PROVE  LET rows2 == Over(Only(a, Reversed(rows[a])), rows) IN
         /\ Summable(rows2)
         /\ Allocated(rows2, column, key) =
              Allocated(rows, column, key)
                - IF rows[a][column] = key /\ ~rows[a].reversed THEN rows[a].amount ELSE 0
<1> DEFINE row == Reversed(rows[a])
           rows2 == Over(Only(a, row), rows)
<1>0. row.reversed = TRUE /\ row.amount = rows[a].amount /\ row[column] = rows[a][column]
  BY DEF Reversed
<1> HIDE DEF row
<1>1. /\ DOMAIN rows2 = DOMAIN rows \union {a} /\ rows2[a] = row
      /\ \A x \in DOMAIN rows : x # a => rows2[x] = rows[x]
  BY DEF Over, Only
<1> HIDE DEF rows2
<1>2. Summable(rows2)
  BY <1>0, <1>1 DEF Summable
<1>3. Allocated(rows2, column, key) =
        Allocated(rows, column, key)
          - IF rows[a][column] = key /\ ~rows[a].reversed THEN rows[a].amount ELSE 0
  <2>0. Allocated(rows, column, key) \in Int /\ Allocated(rows2, column, key) \in Int
        /\ rows[a].amount \in Int
    BY <1>2, AllocatedInt DEF Summable
  <2>1. CASE rows[a][column] = key /\ ~rows[a].reversed
    <3>1. a \in ActiveFor(rows, column, key)
      BY <2>1 DEF ActiveFor
    <3>2. ActiveFor(rows2, column, key) = ActiveFor(rows, column, key) \ {a}
      BY <1>0, <1>1 DEF ActiveFor
    <3>3. \A x \in ActiveFor(rows2, column, key) : rows2[x].amount = rows[x].amount
      BY <1>0, <1>1 DEF ActiveFor
    <3>4. Allocated(rows, column, key) = Allocated(rows2, column, key) + rows[a].amount
      BY <3>1, <3>2, <3>3, AllocatedMore
    <3> QED
      BY <2>0, <2>1, <3>4
  <2>2. CASE ~(rows[a][column] = key /\ ~rows[a].reversed)
    <3>1. ActiveFor(rows2, column, key) = ActiveFor(rows, column, key)
      BY <1>0, <1>1, <2>2 DEF ActiveFor
    <3>2. \A x \in ActiveFor(rows, column, key) : rows2[x].amount = rows[x].amount
      BY <1>0, <1>1 DEF ActiveFor
    <3>3. Allocated(rows2, column, key) = Allocated(rows, column, key)
      BY <3>1, <3>2, AllocatedSame
    <3> QED
      BY <2>0, <2>2, <3>3
  <2> QED
    BY <2>1, <2>2
<1> QED
  BY <1>2, <1>3 DEF rows2, row

\* Who pays: the statuses.
LEMMA StatusesAre ==
  ASSUME NEW n \in Int, NEW m \in Int
  PROVE  /\ MatchStatus(n, m) \in MatchStatuses
         /\ (MatchStatus(n, m) \in {"unmatched", "partial", "manual_review"}) = (m > 0)
         /\ PaymentStatus(n, m) \in PaymentStatuses
         /\ n > 0 => (PaymentStatus(n, m) \in {"unpaid", "partially_paid"}) = (n - m > 0)
BY DEF MatchStatus, PaymentStatus, MatchStatuses, PaymentStatuses

-----------------------------------------------------------------------------
(* What the user is shown *)

\* The total of the one list is the sum of the other, ...
LEMMA TotalIsDebts ==
  ASSUME IsFiniteSet(OpenInvoices),
         \A i \in OpenInvoices : invoice[i].gross - Allocated(alloc, "invoice", i) \in Int
  PROVE  OpenView.total = SumFunction([d \in Debts |-> d.remaining])
<1> DEFINE owed(i) == invoice[i].gross - Allocated(alloc, "invoice", i)
           f == RemainingAmounts(OpenInvoices)
           T == {i \in OpenInvoices : owed(i) > 0}
           name == [i \in T |-> [invoice |-> i, remaining |-> owed(i)]]
           g == [d \in Debts |-> d.remaining]
<1>2. \A i \in OpenInvoices : owed(i) \in Int
  OBVIOUS
<1>3. /\ DOMAIN f = OpenInvoices
      /\ \A i \in OpenInvoices : f[i] = IF owed(i) > 0 THEN owed(i) ELSE 0
  <2>1. ASSUME NEW i \in OpenInvoices
        PROVE  f[i] = IF owed(i) > 0 THEN owed(i) ELSE 0
    <3>1. f[i] = Max({owed(i), 0})
      BY DEF RemainingAmounts, AllocatedTo
    <3>2. owed(i) \in Int
      BY <1>2
    <3> HIDE DEF owed, f
    <3>3. Max({owed(i), 0}) = IF owed(i) > 0 THEN owed(i) ELSE 0
      BY <3>2 DEF Max
    <3> QED
      BY <3>1, <3>3
  <2> QED
    BY <2>1 DEF RemainingAmounts
<1>4. name \in [T -> Debts] /\ \A z \in Debts : \E i \in T : z = name[i]
  <2>1. \A d \in Debts : \E i \in T : d = name[i]
    BY DEF Debts, SettlementRows
  <2>2. ASSUME NEW i \in T PROVE name[i] \in Debts
    <3> DEFINE r == [invoice |-> i, gross |-> invoice[i].gross, paid |-> Allocated(alloc, "invoice", i)]
    <3>1. r \in SettlementRows /\ r.gross - r.paid > 0
      BY DEF SettlementRows
    <3>2. name[i] = [invoice |-> r.invoice, remaining |-> r.gross - r.paid]
      OBVIOUS
    <3> QED
      BY <3>1, <3>2 DEF Debts
  <2> QED
    BY <2>1, <2>2
<1>5. IsFiniteSet(OpenInvoices) /\ IsFiniteSet(T) /\ T \in SUBSET OpenInvoices
  BY FS_Subset
<1>6. IntsOn(f, OpenInvoices) /\ IntsOn(f, T) /\ \A i \in OpenInvoices \ T : f[i] = 0
  <2>1. ASSUME NEW i \in OpenInvoices PROVE f[i] \in Int /\ (i \notin T => f[i] = 0)
    <3>1. owed(i) \in Int
      BY <1>2
    <3>2. i \notin T => ~(owed(i) > 0)
      OBVIOUS
    <3> HIDE DEF owed, f, T
    <3> QED
      BY <1>3, <3>1, <3>2
  <2> HIDE DEF f
  <2> QED
    BY <2>1 DEF IntsOn
<1>7. \A x, y \in T : name[x] = name[y] => x = y
  <2>1. \A x \in T : name[x].invoice = x
    OBVIOUS
  <2> QED
    BY <2>1
<1>8. \A i \in T : g[name[i]] = f[i]
  BY <1>3, <1>4
<1>9. DOMAIN g = Debts
  OBVIOUS
<1> HIDE DEF f, T, name, g, owed
<1>10. SumFunctionOnSet(f, OpenInvoices) = SumFunctionOnSet(f, T)
  BY <1>5, <1>6, SumSupport
<1>11. SumFunctionOnSet(g, Debts) = SumFunctionOnSet(f, T)
  <2>1. IsFiniteSet(T) /\ IntsOn(f, T)
    BY <1>5, <1>6
  <2> QED
    BY <1>4, <1>7, <1>8, <2>1, SumRenamed
<1>12. OpenView.total = SumFunctionOnSet(f, OpenInvoices)
  BY <1>3 DEF OpenView, OpenSummary, SumFunction, f
<1>13. SumFunction(g) = SumFunctionOnSet(f, T)
  BY <1>9, <1>11 DEF SumFunction
<1> QED
  BY <1>10, <1>12, <1>13 DEF g

\* ... whatever the requests have left behind.
LEMMA DebtsAddUp ==
  ASSUME PaymentsAssumption, TypeOK
  PROVE  OpenView.total = SumFunction([d \in Debts |-> d.remaining])
<1>1. Summable(alloc)
  BY FS_Subset DEF TypeOK, Summable, AllocationRow, PaymentsAssumption
<1>2. IsFiniteSet(OpenInvoices)
  BY FS_Subset DEF OpenInvoices, PaymentsAssumption
<1>3. \A i \in OpenInvoices : invoice[i].gross - Allocated(alloc, "invoice", i) \in Int
  BY <1>1, AllocatedInt DEF TypeOK, InvoiceRow, OpenInvoices, PaymentsAssumption
<1> QED
  BY <1>2, <1>3, TotalIsDebts

LEMMA DebtsAgreeIfSettledIsRight ==
  ASSUME PaymentsAssumption, TypeOK, SettledIsRight
  PROVE  DebtsAgree
<1>1. Summable(alloc)
  BY FS_Subset DEF TypeOK, Summable, AllocationRow, PaymentsAssumption
<1>2. ASSUME NEW i \in settled \intersect Invoices
      PROVE  LET owed == invoice[i].gross - Allocated(alloc, "invoice", i) IN
             /\ (i \in OpenView.items) = (owed > 0)
             /\ {d.remaining : d \in {x \in Debts : x.invoice = i}} = {owed} \intersect (Nat \ {0})
  <2> DEFINE owed == invoice[i].gross - Allocated(alloc, "invoice", i)
  <2>1. /\ invoice[i].gross \in Int /\ invoice[i].gross > 0
        /\ Allocated(alloc, "invoice", i) \in Int /\ owed \in Int
    BY <1>1, AllocatedInt DEF TypeOK, InvoiceRow, PaymentsAssumption
  <2>2. invoice[i].status = PaymentStatus(invoice[i].gross, Allocated(alloc, "invoice", i))
    BY DEF SettledIsRight
  <2>3. (i \in OpenView.items) = (owed > 0)
    BY <2>1, <2>2, StatusesAre DEF OpenView, OpenInvoices
  <2>4. ASSUME NEW d \in Debts, d.invoice = i PROVE d.remaining = owed /\ owed > 0
    BY <2>4 DEF Debts, SettlementRows
  <2>5. ASSUME owed > 0 PROVE \E d \in Debts : d.invoice = i /\ d.remaining = owed
    <3> DEFINE r == [invoice |-> i, gross |-> invoice[i].gross, paid |-> Allocated(alloc, "invoice", i)]
               d == [invoice |-> r.invoice, remaining |-> r.gross - r.paid]
    <3>1. r \in SettlementRows /\ r.gross - r.paid > 0
      BY <2>3, <2>5 DEF SettlementRows, OpenView
    <3>2. d \in Debts
      BY <3>1 DEF Debts
    <3> QED
      BY <3>2
  <2> HIDE DEF owed
  <2>6. {d.remaining : d \in {x \in Debts : x.invoice = i}} = {owed} \intersect (Nat \ {0})
    <3>1. CASE owed > 0
      <4>1. owed \in Nat \ {0}
        BY <2>1, <3>1
      <4> QED
        BY <2>4, <2>5, <3>1, <4>1
    <3>2. CASE ~(owed > 0)
      <4>1. owed \notin Nat \ {0}
        BY <2>1, <3>2
      <4> QED
        BY <2>4, <3>2, <4>1
    <3> QED
      BY <3>1, <3>2
  <2> QED
    BY <2>3, <2>6 DEF owed
<1> QED
  BY <1>2, DebtsAddUp DEF DebtsAgree

-----------------------------------------------------------------------------
(* Requests that a step does not change *)

LEMMA LocksStay == ASSUME IInv, [Next]_vars PROVE IInv'
<1>1. Effect
  BY NextEffect
<1>2. Shapes'
  BY <1>1 DEF Effect
<1> QED
  BY <1>1, <1>2, WrittenStaysLocked, MarkedStays DEF IInv

LEMMA NotAlone ==
  ASSUME NEW request \in Request, NEW b \in BOOLEAN
  PROVE  [request EXCEPT !.alone = b] \in Request
BY DEF Request

LEMMA OtherGross ==
  ASSUME NEW row \in InvoiceRow, NEW gross \in Amounts
  PROVE  [row EXCEPT !.gross = gross] \in InvoiceRow
BY DEF InvoiceRow

\* What a request of x is, but for whether it is alone.
SameRequest(x) ==
  /\ work'[x].op = work[x].op /\ work'[x].step = work[x].step
  /\ work'[x].entry = work[x].entry /\ work'[x].invoice = work[x].invoice
  /\ work'[x].alloc = work[x].alloc /\ work'[x].amount = work[x].amount
  /\ work'[x].todo = work[x].todo /\ work'[x].total = work[x].total

LEMMA SameViews ==
  ASSUME NEW x, written'[x] = written[x], db' = db
  PROVE  /\ InvoicesOf(x)' = InvoicesOf(x)
         /\ EntriesOf(x)' = EntriesOf(x)
         /\ AllocationsOf(x)' = AllocationsOf(x)
BY DEF InvoicesOf, EntriesOf, AllocationsOf, Over, db

LEMMA SameKnown ==
  ASSUME NEW x, SameRequest(x)
  PROVE  KnowsEntry(x)' = KnowsEntry(x) /\ KnowsInvoice(x)' = KnowsInvoice(x)
         /\ Busy(x)' = Busy(x) /\ \A step : At(x, step)' = At(x, step)
BY DEF SameRequest, KnowsEntry, KnowsInvoice, Busy, At

\* What a request is about exists.
LEMMA RowsExist ==
  ASSUME NEW x, IsOfRows(x)
  PROVE  /\ work[x].todo \subseteq DOMAIN EntriesOf(x)
         /\ work[x].todo # {} => work[x].op = "match"
         /\ At(x, "renew") /\ loaded[x].entry \in EntryRow => work[x].entry \in DOMAIN EntriesOf(x)
BY DEF IsOfRows

LEMMA SameRows ==
  ASSUME NEW x, IsOfRows(x), SameRequest(x), loaded'[x] = loaded[x],
         EntriesOf(x)' = EntriesOf(x), AllocationsOf(x)' = AllocationsOf(x)
  PROVE  IsOfRows(x)'
BY SameKnown DEF IsOfRows, SameRequest

LEMMA SameTyped ==
  ASSUME NEW x, RequestIsTyped(x), SameRequest(x), written'[x] = written[x],
         loaded'[x] = loaded[x], db' = db
  PROVE  RequestIsTyped(x)'
<1>1. ViewIsTyped(x)'
  BY SameViews DEF ViewIsTyped, RequestIsTyped
<1>2. ObjectsAreTyped(x)'
  BY SameKnown DEF ObjectsAreTyped, RequestIsTyped
<1>3. IsOfRows(x)'
  BY SameRows, SameViews DEF RequestIsTyped
<1> QED
  BY <1>1, <1>2, <1>3 DEF RequestIsTyped

LEMMA SameRepairs ==
  ASSUME NEW x, Repairs(x), work'[x] = work[x], written'[x] = written[x],
         loaded'[x] = loaded[x], db' = db, overlapped' = overlapped
  PROVE  Repairs(x)'
<1>1. SameRequest(x)
  BY DEF SameRequest
<1>2. LoadedIsCurrent(x)'
  BY <1>1, SameKnown, SameViews DEF LoadedIsCurrent, Repairs, SameRequest
<1>3. PendingEntries(x)' = PendingEntries(x) /\ PendingInvoices(x)' = PendingInvoices(x)
  BY DEF PendingEntries, PendingInvoices
<1>4. SummedIsRight(x)'
  BY <1>1, <1>3, SameViews DEF SummedIsRight, Repairs, RightEntry, RightInvoice
<1>5. FormHasRoom(x)'
  BY <1>1, SameViews DEF FormHasRoom, Repairs
<1>6. ~overlapped' => LinesAddUp(EntriesOf(x), AllocationsOf(x), PendingEntries(x))'
  BY <1>3, SameViews DEF LinesAddUp, Repairs
<1> QED
  BY <1>2, <1>4, <1>5, <1>6 DEF Repairs

LEMMA SettledStays ==
  ASSUME SettledIsRight, db' = db, settled' = settled
  PROVE  SettledIsRight'
BY DEF SettledIsRight, UnmatchedEntries, db

LEMMA LinesStay ==
  ASSUME ~overlapped => LinesAddUp(entry, alloc, {}), db' = db, ~overlapped' => ~overlapped
  PROVE  ~overlapped' => LinesAddUp(entry, alloc, {})'
BY DEF LinesAddUp, db

-----------------------------------------------------------------------------
(* The kinds of steps *)

\* A step in the middle of a request.
LEMMA MiddleKeeps ==
  ASSUME RepairIInv, IInv', NEW c \in Clients, Busy(c), UNCHANGED <<db, history>>,
         work'[c] \in Request, work'[c].op # "none", work'[c].alone = work[c].alone,
         DOMAIN work' = Clients, work' = [x \in Clients |-> work'[x]],
         DOMAIN loaded' = Clients,
         \A x \in Clients \ {c} : /\ work'[x] = work[x] /\ loaded'[x] = loaded[x]
                                  /\ written'[x] = written[x],
         RequestIsTyped(c)',
         work[c].alone => Repairs(c)'
  PROVE  RepairIInv'
<1>0. /\ db' = db /\ overlapped' = overlapped /\ settled' = settled /\ requests' = requests
  BY DEF history
<1>1. TypeOK'
  <2>1. work' \in [Clients -> Request]
    BY DEF RepairIInv, TypeOK
  <2> QED
    BY <1>0, <2>1 DEF RepairIInv, TypeOK, db
<1>2. ASSUME NEW x \in Clients PROVE RequestIsTyped(x)' /\ AloneIsAlone(x)'
  <2>1. RequestIsTyped(x)'
    BY <1>0, SameTyped DEF RepairIInv, SameRequest
  <2>2. AloneIsAlone(x)'
    BY <1>0 DEF RepairIInv, AloneIsAlone, Busy
  <2> QED
    BY <2>1, <2>2
<1>3. ASSUME NEW x \in Clients, Busy(x)', work'[x].alone PROVE Repairs(x)'
  BY <1>0, <1>3, SameRepairs DEF RepairIInv, Busy
<1> QED
  BY <1>0, <1>1, <1>2, <1>3, SettledStays, LinesStay DEF RepairIInv

\* A request that starts.
LEMMA StartKeeps ==
  ASSUME RepairIInv, IInv', PaymentsAssumption, NEW c \in Clients, NEW request \in Request,
         Start(c, request), request.op # "none",
         DOMAIN loaded' = Clients,
         \A x \in Clients \ {c} : loaded'[x] = loaded[x] /\ written'[x] = written[x],
         RequestIsTyped(c)',
         work'[c].alone => Repairs(c)'
  PROVE  RepairIInv'
<1>0. /\ db' = db /\ settled' = settled
      /\ requests' \in 0..MaxRequests
      /\ overlapped' = (overlapped \/ \E x \in Clients \ {c} : Busy(x))
      /\ ~Busy(c)
  BY DEF Start, RepairIInv, TypeOK, PaymentsAssumption
<1>1. /\ work' \in [Clients -> Request]
      /\ \A x \in Clients \ {c} : work'[x] = [work[x] EXCEPT !.alone = FALSE]
      /\ work'[c] = [request EXCEPT !.alone = \A y \in Clients \ {c} : ~Busy(y)]
  <2>1. \A x \in Clients : [work[x] EXCEPT !.alone = FALSE] \in Request
    BY NotAlone DEF RepairIInv, TypeOK
  <2>2. [request EXCEPT !.alone = \A y \in Clients \ {c} : ~Busy(y)] \in Request
    BY DEF Request
  <2> QED
    BY <2>1, <2>2 DEF Start
<1>2. \A x \in Clients \ {c} : /\ SameRequest(x) /\ work'[x].alone = FALSE
                               /\ Busy(x)' = Busy(x)
  BY <1>1 DEF SameRequest, Busy, RepairIInv, TypeOK, Request
<1>3. /\ work'[c].alone = \A y \in Clients \ {c} : ~Busy(y)
      /\ Busy(c)'
  BY <1>1 DEF Request, Busy
<1>4. TypeOK'
  BY <1>0, <1>1 DEF RepairIInv, TypeOK, db
<1>5. ASSUME NEW x \in Clients PROVE RequestIsTyped(x)' /\ AloneIsAlone(x)'
  <2>1. RequestIsTyped(x)'
    BY <1>0, <1>2, SameTyped DEF RepairIInv
  <2>2. AloneIsAlone(x)'
    <3>1. CASE x = c
      BY <1>0, <1>2, <1>3, <3>1 DEF AloneIsAlone
    <3>2. CASE x # c
      BY <1>0, <1>2, <3>2 DEF AloneIsAlone, RepairIInv
    <3> QED
      BY <3>1, <3>2
  <2> QED
    BY <2>1, <2>2
<1>6. ASSUME NEW x \in Clients, Busy(x)', work'[x].alone PROVE Repairs(x)'
  BY <1>2, <1>6
<1> QED
  BY <1>0, <1>4, <1>5, <1>6, SettledStays, LinesStay DEF RepairIInv

\* PUT /invoices/{id} without a payment.
LEMMA UpdateKeeps ==
  ASSUME RepairIInv, IInv', PaymentsAssumption, NEW i \in Invoices, NEW gross \in Amounts,
         UpdateInvoice(i, gross)
  PROVE  RepairIInv'
<1>0. /\ invoice' = [invoice EXCEPT ![i].gross = gross]
      /\ settled' = settled \ {i} /\ UNCHANGED <<entry, alloc, loaded, written>>
      /\ requests' \in 0..MaxRequests
      /\ overlapped' = (overlapped \/ \E c \in Clients : Busy(c))
  BY DEF UpdateInvoice, RepairIInv, TypeOK, PaymentsAssumption
<1>1. /\ invoice' \in [Invoices -> InvoiceRow]
      /\ \A j \in Invoices \ {i} : invoice'[j] = invoice[j]
  <2>1. [invoice[i] EXCEPT !.gross = gross] \in InvoiceRow
    BY OtherGross DEF RepairIInv, TypeOK
  <2> QED
    BY <1>0, <2>1 DEF RepairIInv, TypeOK
<1>2. /\ work' \in [Clients -> Request]
      /\ \A x \in Clients : /\ SameRequest(x) /\ work'[x].alone = FALSE /\ Busy(x)' = Busy(x)
  <2>1. \A x \in Clients : [work[x] EXCEPT !.alone = FALSE] \in Request
    BY NotAlone DEF RepairIInv, TypeOK
  <2>2. \A x \in Clients : work'[x] = [work[x] EXCEPT !.alone = FALSE]
    BY DEF UpdateInvoice
  <2>3. work' \in [Clients -> Request]
    BY <2>1 DEF UpdateInvoice
  <2> QED
    BY <2>2, <2>3 DEF SameRequest, Busy, RepairIInv, TypeOK, Request
<1>4. TypeOK'
  BY <1>0, <1>1, <1>2 DEF RepairIInv, TypeOK
<1>5. ASSUME NEW x \in Clients PROVE RequestIsTyped(x)' /\ AloneIsAlone(x)'
  <2>0. /\ EntriesOf(x)' = EntriesOf(x) /\ AllocationsOf(x)' = AllocationsOf(x)
    BY <1>0 DEF EntriesOf, AllocationsOf, Over
  <2>1. InvoicesOf(x)' \in [Invoices -> InvoiceRow]
    <3>1. InvoicesOf(x) \in [Invoices -> InvoiceRow]
      BY DEF RepairIInv, RequestIsTyped, ViewIsTyped
    <3>2. DOMAIN written[x].invoice \subseteq Invoices
      BY <3>1 DEF InvoicesOf, Over
    <3>3. \A j \in DOMAIN written[x].invoice : written[x].invoice[j] \in InvoiceRow
      BY <3>1 DEF InvoicesOf, Over
    <3> QED
      BY <1>0, <1>1, <3>2, <3>3 DEF InvoicesOf, Over
  <2>2. ViewIsTyped(x)'
    BY <2>0, <2>1 DEF ViewIsTyped, RepairIInv, RequestIsTyped
  <2>3. ObjectsAreTyped(x)'
    BY <1>0, <1>2, SameKnown DEF ObjectsAreTyped, RequestIsTyped, RepairIInv
  <2>4. IsOfRows(x)'
    BY <1>0, <1>2, <2>0, SameRows DEF RequestIsTyped, RepairIInv
  <2>5. AloneIsAlone(x)'
    BY <1>0, <1>2 DEF AloneIsAlone, RepairIInv
  <2> QED
    BY <2>2, <2>3, <2>4, <2>5 DEF RequestIsTyped
<1>6. SettledIsRight'
  <2>1. ASSUME NEW x \in settled', x \in Invoices
        PROVE  invoice'[x].status = PaymentStatus(invoice'[x].gross, Allocated(alloc', "invoice", x))
    <3>1. x # i /\ x \in settled
      BY <1>0, <2>1
    <3> QED
      BY <1>0, <1>1, <2>1, <3>1 DEF RepairIInv, SettledIsRight
  <2> QED
    BY <1>0, <2>1 DEF RepairIInv, SettledIsRight, UnmatchedEntries
<1>7. ~overlapped' => LinesAddUp(entry, alloc, {})'
  BY <1>0 DEF RepairIInv, LinesAddUp
<1> QED
  BY <1>0, <1>2, <1>4, <1>5, <1>6, <1>7 DEF RepairIInv

\* Tables whose rows have their types.
Tables(invoices, entries, rows) ==
  /\ invoices \in [Invoices -> InvoiceRow]
  /\ DOMAIN entries \subseteq Entries
  /\ \A b \in DOMAIN entries : entries[b] \in EntryRow
  /\ DOMAIN rows \subseteq Allocations
  /\ \A a \in DOMAIN rows : rows[a] \in AllocationRow /\ rows[a].entry \in DOMAIN entries

LEMMA ViewIs ==
  ASSUME NEW c
  PROVE  /\ ViewIsTyped(c) <=> Tables(InvoicesOf(c), EntriesOf(c), AllocationsOf(c))
         /\ ViewIsTyped(c)' <=> Tables(InvoicesOf(c)', EntriesOf(c)', AllocationsOf(c)')
BY DEF ViewIsTyped, Tables

\* What a request has written, over tables that have grown.
LEMMA TablesOver ==
  ASSUME NEW w, NEW i, NEW e, NEW r, Tables(Over(w.invoice, i), Over(w.entry, e), Over(w.alloc, r)),
         NEW j, NEW f, NEW s, Tables(j, f, s), DOMAIN e \subseteq DOMAIN f
  PROVE  Tables(Over(w.invoice, j), Over(w.entry, f), Over(w.alloc, s))
<1>1. Over(w.invoice, j) \in [Invoices -> InvoiceRow]
  <2>1. \A x \in DOMAIN w.invoice : x \in DOMAIN Over(w.invoice, i) /\ w.invoice[x] = Over(w.invoice, i)[x]
    BY DEF Over
  <2>2. \A x \in DOMAIN w.invoice : x \in Invoices /\ w.invoice[x] \in InvoiceRow
    BY <2>1 DEF Tables
  <2> QED
    BY <2>2 DEF Tables, Over
<1>2. /\ DOMAIN Over(w.entry, f) \subseteq Entries
      /\ \A b \in DOMAIN Over(w.entry, f) : Over(w.entry, f)[b] \in EntryRow
  <2>1. \A x \in DOMAIN w.entry : x \in DOMAIN Over(w.entry, e) /\ w.entry[x] = Over(w.entry, e)[x]
    BY DEF Over
  <2>2. \A x \in DOMAIN w.entry : x \in Entries /\ w.entry[x] \in EntryRow
    BY <2>1 DEF Tables
  <2> QED
    BY <2>2 DEF Tables, Over
<1>3. DOMAIN Over(w.entry, e) \subseteq DOMAIN Over(w.entry, f) /\ DOMAIN f \subseteq DOMAIN Over(w.entry, f)
  BY DEF Over
<1>4. /\ DOMAIN Over(w.alloc, s) \subseteq Allocations
      /\ \A a \in DOMAIN Over(w.alloc, s) :
           /\ Over(w.alloc, s)[a] \in AllocationRow
           /\ Over(w.alloc, s)[a].entry \in DOMAIN Over(w.entry, f)
  <2>1. \A x \in DOMAIN w.alloc : x \in DOMAIN Over(w.alloc, r) /\ w.alloc[x] = Over(w.alloc, r)[x]
    BY DEF Over
  <2>2. \A x \in DOMAIN w.alloc : x \in Allocations /\ w.alloc[x] \in AllocationRow
                                  /\ w.alloc[x].entry \in DOMAIN Over(w.entry, f)
    BY <1>3, <2>1 DEF Tables
  <2>3. \A x \in DOMAIN s : x \in Allocations /\ s[x] \in AllocationRow
                            /\ s[x].entry \in DOMAIN Over(w.entry, f)
    BY <1>3 DEF Tables
  <2>4. \A a \in DOMAIN Over(w.alloc, s) :
          \/ a \in DOMAIN w.alloc /\ Over(w.alloc, s)[a] = w.alloc[a]
          \/ a \in DOMAIN s /\ Over(w.alloc, s)[a] = s[a]
    BY DEF Over
  <2> QED
    BY <2>2, <2>3, <2>4
<1> QED
  BY <1>1, <1>2, <1>4 DEF Tables

\* Nothing written over a table leaves it as it is.
LEMMA OverNothing ==
  ASSUME NEW f
  PROVE  /\ DOMAIN Over(Nothing, f) = DOMAIN f
         /\ \A x \in DOMAIN f : Over(Nothing, f)[x] = f[x]
BY DEF Over, Nothing

LEMMA TablesNothing ==
  ASSUME NEW i, NEW e, NEW r, Tables(i, e, r)
  PROVE  Tables(Over(Nothing, i), Over(Nothing, e), Over(Nothing, r))
<1>1. Over(Nothing, i) \in [Invoices -> InvoiceRow]
  BY DEF Over, Nothing, Tables
<1>2. DOMAIN Over(Nothing, e) = DOMAIN e /\ \A b \in DOMAIN e : Over(Nothing, e)[b] = e[b]
  BY OverNothing
<1>3. DOMAIN Over(Nothing, r) = DOMAIN r /\ \A a \in DOMAIN r : Over(Nothing, r)[a] = r[a]
  BY OverNothing
<1> QED
  BY <1>1, <1>2, <1>3 DEF Tables

\* What a client that is idle has.
LEMMA IdleIsTyped ==
  ASSUME NEW c, TypeOK', work'[c] = Free, written'[c] = NothingWritten,
         loaded'[c] = NothingLoaded
  PROVE  RequestIsTyped(c)' /\ ~Busy(c)'
<1>1. ~Busy(c)'
  BY DEF Busy, Free
<1>2. ViewIsTyped(c)'
  <2>1. Tables(invoice', entry', alloc')
    BY DEF TypeOK, Tables
  <2> QED
    BY <2>1, TablesNothing, ViewIs DEF InvoicesOf, EntriesOf, AllocationsOf, NothingWritten
<1>3. ObjectsAreTyped(c)'
  BY <1>1 DEF ObjectsAreTyped, KnowsEntry, KnowsInvoice
<1>4. IsOfRows(c)'
  BY DEF IsOfRows, Free, StepsOf, Busy, At
<1> QED
  BY <1>1, <1>2, <1>3, <1>4 DEF RequestIsTyped

\* The end of a request, whatever comes of it.
LEMMA EndKeeps ==
  ASSUME RepairIInv, IInv', NEW c \in Clients, Busy(c), Finish(c),
         Tables(invoice', entry', alloc'), DOMAIN entry \subseteq DOMAIN entry',
         \A a \in DOMAIN alloc :
           a \in DOMAIN alloc' /\ alloc'[a] \in {alloc[a], [alloc[a] EXCEPT !.reversed = TRUE]},
         settled' \subseteq Entries \union Invoices,
         SettledIsRight',
         ~overlapped => LinesAddUp(entry, alloc, {})'
  PROVE  RepairIInv'
<1>0. /\ work' \in [Clients -> Request] /\ requests' = requests /\ overlapped' = overlapped
      /\ work'[c] = Free /\ written'[c] = NothingWritten /\ loaded'[c] = NothingLoaded
      /\ DOMAIN loaded' = Clients
      /\ \A x \in Clients \ {c} : work'[x] = work[x] /\ loaded'[x] = loaded[x] /\ written'[x] = written[x]
  <2>1. Free \in Request
    BY DEF Free, Request
  <2> QED
    BY <2>1 DEF Finish, RepairIInv, TypeOK, IInv, Shapes
<1>1. TypeOK'
  BY <1>0 DEF TypeOK, RepairIInv, Tables
<1>2. ASSUME NEW x \in Clients \ {c} PROVE RequestIsTyped(x)'
  <2>0. /\ work'[x] = work[x] /\ loaded'[x] = loaded[x] /\ written'[x] = written[x]
        /\ SameRequest(x) /\ RequestIsTyped(x)
    BY <1>0 DEF SameRequest, RepairIInv
  <2>1. ViewIsTyped(x)'
    <3>1. Tables(Over(written[x].invoice, invoice), Over(written[x].entry, entry),
                 Over(written[x].alloc, alloc))
      BY <2>0, ViewIs DEF RequestIsTyped, InvoicesOf, EntriesOf, AllocationsOf
    <3>2. Tables(Over(written[x].invoice, invoice'), Over(written[x].entry, entry'),
                 Over(written[x].alloc, alloc'))
      BY <3>1, TablesOver
    <3> QED
      BY <2>0, <3>2, ViewIs DEF InvoicesOf, EntriesOf, AllocationsOf
  <2>2. ObjectsAreTyped(x)'
    BY <2>0, SameKnown DEF ObjectsAreTyped, RequestIsTyped
  <2>3. DOMAIN EntriesOf(x) \subseteq DOMAIN EntriesOf(x)'
    BY <2>0 DEF EntriesOf, Over
  <2>4. ASSUME NEW a \in DOMAIN AllocationsOf(x)
        PROVE  /\ AllocationsOf(x)'[a].entry = AllocationsOf(x)[a].entry
               /\ AllocationsOf(x)'[a].invoice = AllocationsOf(x)[a].invoice
    <3>1. CASE a \in DOMAIN written[x].alloc
      BY <2>0, <3>1 DEF AllocationsOf, Over
    <3>2. CASE a \notin DOMAIN written[x].alloc
      <4>1. a \in DOMAIN alloc /\ AllocationsOf(x)[a] = alloc[a]
            /\ a \in DOMAIN alloc' /\ AllocationsOf(x)'[a] = alloc'[a]
        BY <2>0, <3>2 DEF AllocationsOf, Over
      <4>2. alloc[a] \in AllocationRow
        BY <4>1 DEF RepairIInv, TypeOK
      <4> QED
        BY <4>1, <4>2 DEF AllocationRow
    <3> QED
      BY <3>1, <3>2
  <2>5. At(x, "mark") => work[x].alloc \in DOMAIN AllocationsOf(x)
    BY DEF RepairIInv, IInv, MarkedExists
  <2>6. IsOfRows(x)'
    BY <2>0, <2>3, <2>4, <2>5, SameKnown DEF IsOfRows, RequestIsTyped, SameRequest
  <2> QED
    BY <2>1, <2>2, <2>6 DEF RequestIsTyped
<1>3. RequestIsTyped(c)' /\ ~Busy(c)'
  BY <1>0, <1>1, IdleIsTyped
<1>4. ASSUME NEW x \in Clients PROVE AloneIsAlone(x)'
  <2>1. \A y \in Clients : ~Busy(y) => ~Busy(y)'
    BY <1>0, <1>3 DEF Busy
  <2>2. CASE x = c
    BY <1>0, <1>3, <2>2 DEF AloneIsAlone
  <2>3. CASE x # c
    BY <1>0, <2>1, <2>3 DEF AloneIsAlone, RepairIInv, Busy
  <2> QED
    BY <2>2, <2>3
<1>5. ASSUME NEW x \in Clients, Busy(x)', work'[x].alone PROVE FALSE
  BY <1>0, <1>3, <1>5 DEF RepairIInv, AloneIsAlone, Busy
<1> QED
  BY <1>0, <1>1, <1>2, <1>3, <1>4, <1>5 DEF RepairIInv

LEMMA RollbackKeeps ==
  ASSUME RepairIInv, IInv', NEW c \in Clients, Rollback(c)
  PROVE  RepairIInv'
<1>1. Busy(c) /\ Finish(c) /\ db' = db /\ settled' = settled /\ overlapped' = overlapped
  BY DEF Rollback, Finish
<1>2. Tables(invoice', entry', alloc') /\ alloc' = alloc /\ entry' = entry
  BY <1>1 DEF Tables, RepairIInv, TypeOK, db
<1>3. settled' \subseteq Entries \union Invoices
  BY <1>1 DEF RepairIInv, TypeOK
<1>4. SettledIsRight' /\ (~overlapped => LinesAddUp(entry, alloc, {})')
  BY <1>1, SettledStays, LinesStay DEF RepairIInv
<1> QED
  BY <1>1, <1>2, <1>3, <1>4, EndKeeps

\* A request that ends with what it has written, all of which is right.
LEMMA CommitKeeps ==
  ASSUME RepairIInv, IInv', PaymentsAssumption, NEW c \in Clients, Busy(c), NEW w, Commit(c, w),
         w.alloc = written[c].alloc,
         Tables(Over(w.invoice, invoice), Over(w.entry, entry), Over(w.alloc, alloc)),
         work[c].alone =>
           \A a \in DOMAIN w.alloc :
             /\ RightEntry(Over(w.entry, entry), Over(w.alloc, alloc), w.alloc[a].entry)
             /\ RightInvoice(Over(w.invoice, invoice), Over(w.alloc, alloc), w.alloc[a].invoice),
         ~overlapped => LinesAddUp(Over(w.entry, entry), Over(w.alloc, alloc), {})
  PROVE  RepairIInv'
<1>1. /\ invoice' = Over(w.invoice, invoice) /\ entry' = Over(w.entry, entry)
      /\ alloc' = Over(w.alloc, alloc)
      /\ settled' = (settled \ Touched(w)) \union (IF work[c].alone THEN Summed(w) ELSE {})
      /\ Finish(c)
  BY DEF Commit
<1>2. Tables(invoice', entry', alloc') /\ DOMAIN entry \subseteq DOMAIN entry'
  BY <1>1 DEF Over
<1>3. \A a \in DOMAIN alloc :
        a \in DOMAIN alloc' /\ alloc'[a] \in {alloc[a], [alloc[a] EXCEPT !.reversed = TRUE]}
  BY <1>1 DEF Over, RepairIInv, IInv, WrittenIsLocked
<1>4. \A a \in DOMAIN w.alloc : a \in DOMAIN alloc' /\ alloc'[a] = w.alloc[a]
                                /\ alloc'[a] \in AllocationRow
  BY <1>1, <1>2 DEF Over, Tables
<1>5. \A a \in DOMAIN w.alloc : w.alloc[a].entry \in DOMAIN entry' /\ w.alloc[a].entry \in Entries
                                /\ w.alloc[a].invoice \in Invoices
  BY <1>2, <1>4 DEF Tables, AllocationRow
<1>6. settled' \subseteq Entries \union Invoices
  BY <1>1, <1>5 DEF Summed, RepairIInv, TypeOK
<1>7. Summable(alloc')
  BY <1>2, FS_Subset DEF Tables, Summable, PaymentsAssumption, AllocationRow
<1>8. ASSUME NEW x \in settled \ Touched(w), NEW column \in {"entry", "invoice"}
      PROVE  Allocated(alloc', column, x) = Allocated(alloc, column, x)
  <2>1. \A a \in DOMAIN w.alloc : w.alloc[a][column] # x
    BY DEF Touched, Summed
  <2>2. \A a \in DOMAIN alloc' : \/ a \in DOMAIN w.alloc /\ alloc'[a] = w.alloc[a]
                                 \/ a \notin DOMAIN w.alloc /\ a \in DOMAIN alloc /\ alloc'[a] = alloc[a]
    BY <1>1 DEF Over
  <2>3. \A a \in DOMAIN alloc : alloc'[a][column] = alloc[a][column]
    BY <1>3 DEF RepairIInv, TypeOK, AllocationRow
  <2>4. ActiveFor(alloc', column, x) = ActiveFor(alloc, column, x)
    BY <1>3, <1>4, <2>1, <2>2, <2>3 DEF ActiveFor
  <2>5. \A a \in ActiveFor(alloc, column, x) : alloc'[a].amount = alloc[a].amount
    BY <2>1, <2>2, <2>4 DEF ActiveFor
  <2> QED
    BY <2>4, <2>5, AllocatedSame
<1>9. ASSUME NEW x \in settled \ Touched(w)
      PROVE  /\ x \in DOMAIN entry' => x \in DOMAIN entry /\ entry'[x] = entry[x]
             /\ x \in Invoices => invoice'[x] = invoice[x]
  BY <1>1 DEF Over, Touched, RepairIInv, TypeOK
<1>10. ASSUME NEW x \in DOMAIN entry', RightEntry(entry', alloc', x)
       PROVE  LET total == Allocated(alloc', "entry", x) IN
              /\ entry'[x].remaining = entry'[x].amount - total
              /\ entry'[x].match = MatchStatus(entry'[x].amount, entry'[x].remaining)
              /\ (x \in UnmatchedEntries') = (total < entry'[x].amount)
  <2> DEFINE total == Allocated(alloc', "entry", x)
             row == entry'[x]
  <2>1. total \in Int /\ row.amount \in Int /\ row.remaining \in Int
    BY <1>2, <1>7, AllocatedInt DEF Tables, EntryRow
  <2>2. row.remaining = row.amount - total /\ row.match = MatchStatus(row.amount, row.remaining)
    BY <1>10 DEF RightEntry
  <2>3. x \in UnmatchedEntries' <=> row.match \in {"unmatched", "partial", "manual_review"}
    BY <1>10 DEF UnmatchedEntries
  <2> HIDE DEF total, row
  <2>4. row.match \in {"unmatched", "partial", "manual_review"} <=> total < row.amount
    BY <2>1, <2>2, StatusesAre
  <2> QED
    BY <2>2, <2>3, <2>4 DEF total, row
<1>11. SettledIsRight'
  <2>1. ASSUME NEW x \in settled', x \in settled \ Touched(w)
        PROVE  /\ x \in DOMAIN entry' => RightEntry(entry', alloc', x)
               /\ x \in Invoices => RightInvoice(invoice', alloc', x)
    BY <1>8, <1>9, <2>1 DEF RepairIInv, SettledIsRight, RightEntry, RightInvoice
  <2>2. ASSUME NEW x \in settled', work[c].alone, x \in Summed(w)
        PROVE  /\ x \in DOMAIN entry' => RightEntry(entry', alloc', x)
               /\ x \in Invoices => RightInvoice(invoice', alloc', x)
    <3>1. PICK a \in DOMAIN w.alloc : x = w.alloc[a].entry \/ x = w.alloc[a].invoice
      BY <2>2 DEF Summed
    <3>2. RightEntry(entry', alloc', w.alloc[a].entry) /\ RightInvoice(invoice', alloc', w.alloc[a].invoice)
      BY <1>1, <2>2
    <3>3. DOMAIN entry' \intersect Invoices = {}
      BY <1>2 DEF Tables, PaymentsAssumption
    <3> QED
      BY <1>5, <3>1, <3>2, <3>3
  <2>3. \A x \in settled' : /\ x \in DOMAIN entry' => RightEntry(entry', alloc', x)
                            /\ x \in Invoices => RightInvoice(invoice', alloc', x)
    BY <1>1, <2>1, <2>2
  <2> QED
    BY <1>10, <2>3 DEF SettledIsRight, RightInvoice
<1>12. ~overlapped => LinesAddUp(entry, alloc, {})'
  BY <1>1 DEF LinesAddUp
<1> QED
  BY <1>1, <1>2, <1>3, <1>6, <1>11, <1>12, EndKeeps

LEMMA RequestSteps ==
  ASSUME NEW r \in Request,
         NEW step \in {"match", "form", "mark", "renew", "sum", "entry", "paid", "invoice"}
  PROVE  [r EXCEPT !.step = step] \in Request
BY DEF Request

LEMMA RequestMoves ==
  ASSUME NEW r \in Request, NEW total \in Int,
         NEW step \in {"match", "form", "mark", "renew", "sum", "entry", "paid", "invoice"}
  PROVE  /\ [r EXCEPT !.step = step] \in Request
         /\ [r EXCEPT !.total = total, !.step = step] \in Request
BY DEF Request

\* Requests of every kind sum in the same steps.
LEMMA SumsAreSteps ==
  ASSUME NEW c, RequestIsTyped(c), Busy(c), work[c].step \in Sums, work[c] \in Request
  PROVE  Sums \subseteq StepsOf(work[c].op)
BY DEF RequestIsTyped, IsOfRows, StepsOf, Busy, Request

LEMMA UpdatedEntry ==
  ASSUME NEW old, NEW new \in EntryRow, NEW row \in EntryRow
  PROVE  Updated(old, new, row) \in EntryRow /\ Updated(row, new, row) = new
<1> DEFINE u == Updated(old, new, row)
           v == Updated(row, new, row)
<1>1. /\ DOMAIN row = {"amount", "remaining", "match"}
      /\ new = [amount |-> new.amount, remaining |-> new.remaining, match |-> new.match]
      /\ row.amount \in Nat /\ row.remaining \in Int /\ row.match \in MatchStatuses
      /\ new.amount \in Nat /\ new.remaining \in Int /\ new.match \in MatchStatuses
  BY DEF EntryRow
<1>2. u = [amount |-> u.amount, remaining |-> u.remaining, match |-> u.match]
  BY <1>1 DEF Updated
<1>3. u.amount \in Nat /\ u.remaining \in Int /\ u.match \in MatchStatuses
  BY <1>1 DEF Updated
<1>4. v = [amount |-> new.amount, remaining |-> new.remaining, match |-> new.match]
  BY <1>1 DEF Updated
<1> HIDE DEF u, v
<1>5. u \in EntryRow
  BY <1>2, <1>3 DEF EntryRow
<1> QED
  BY <1>1, <1>4, <1>5 DEF u, v

LEMMA UpdatedInvoice ==
  ASSUME NEW old \in InvoiceRow, NEW status \in PaymentStatuses, NEW row \in InvoiceRow
  PROVE  /\ Updated(old, [old EXCEPT !.status = status], row) \in InvoiceRow
         /\ Updated(row, [row EXCEPT !.status = status], row) = [row EXCEPT !.status = status]
<1> DEFINE new == [old EXCEPT !.status = status]
           u == Updated(old, new, row)
           new2 == [row EXCEPT !.status = status]
           v == Updated(row, new2, row)
<1>1. /\ DOMAIN row = {"gross", "status"} /\ row.gross \in Amounts /\ row.status \in PaymentStatuses
      /\ new.gross = old.gross /\ new.status = status
      /\ new2 = [gross |-> row.gross, status |-> status]
  BY DEF InvoiceRow
<1>2. u = [gross |-> u.gross, status |-> u.status]
  BY <1>1 DEF Updated
<1>3. u.gross \in Amounts /\ u.status \in PaymentStatuses
  BY <1>1 DEF Updated
<1>4. v = [gross |-> row.gross, status |-> status]
  BY <1>1 DEF Updated
<1> HIDE DEF u, v, new, new2
<1>5. u \in InvoiceRow
  BY <1>2, <1>3 DEF InvoiceRow
<1> QED
  BY <1>1, <1>4, <1>5 DEF u, v, new, new2

\* Sums over what a request sees.
LEMMA ViewSums ==
  ASSUME PaymentsAssumption, NEW c, ViewIsTyped(c)
  PROVE  Summable(AllocationsOf(c))
         /\ \A column, key : Allocated(AllocationsOf(c), column, key) \in Int
<1>1. Summable(AllocationsOf(c))
  BY FS_Subset DEF ViewIsTyped, Summable, PaymentsAssumption, AllocationRow
<1> QED
  BY <1>1, AllocatedInt

\* What an allocation, a reversal, or another entry make of the bank lines.
LEMMA LinesPut ==
  ASSUME PaymentsAssumption, NEW entries, NEW rows, Summable(rows),
         \A e \in DOMAIN entries : entries[e] \in EntryRow,
         LinesAddUp(entries, rows, {}),
         NEW a, a \notin DOMAIN rows, NEW b \in DOMAIN entries, NEW row,
         row.entry = b, row.amount \in Int, ~row.reversed,
         b \in BankLines => row.amount >= 0 /\ row.amount <= entries[b].remaining
  PROVE  LinesAddUp(entries, Over(Only(a, row), rows), {b})
<1> DEFINE rows2 == Over(Only(a, row), rows)
<1> SUFFICES ASSUME NEW e \in BankLines \intersect DOMAIN entries
             PROVE  /\ \A x \in DOMAIN rows2 : rows2[x].entry = e => rows2[x].amount >= 0
                    /\ Allocated(rows2, "entry", e) <= entries[e].amount
                    /\ \/ e \in {b}
                       \/ entries[e].remaining = entries[e].amount - Allocated(rows2, "entry", e)
  BY DEF LinesAddUp
<1>1. Allocated(rows2, "entry", e) = Allocated(rows, "entry", e) + IF b = e THEN row.amount ELSE 0
  <2>1. Allocated(rows2, "entry", e) = Allocated(rows, "entry", e) + IF row["entry"] = e THEN row.amount ELSE 0
    BY AllocatedPut
  <2> QED
    BY <2>1
<1>2. Allocated(rows, "entry", e) \in Int /\ entries[e].amount \in Int /\ entries[e].remaining \in Int
  BY AllocatedInt DEF EntryRow
<1>3. /\ \A x \in DOMAIN rows : rows[x].entry = e => rows[x].amount >= 0
      /\ Allocated(rows, "entry", e) <= entries[e].amount
      /\ entries[e].remaining = entries[e].amount - Allocated(rows, "entry", e)
  BY DEF LinesAddUp
<1>4. /\ DOMAIN rows2 = DOMAIN rows \union {a} /\ rows2[a] = row
      /\ \A x \in DOMAIN rows : x # a => rows2[x] = rows[x]
  BY DEF Over, Only
<1> HIDE DEF rows2
<1>5. \A x \in DOMAIN rows2 : rows2[x].entry = e => rows2[x].amount >= 0
  BY <1>3, <1>4
<1>6. Allocated(rows2, "entry", e) <= entries[e].amount
  BY <1>1, <1>2, <1>3
<1>7. \/ e \in {b}
      \/ entries[e].remaining = entries[e].amount - Allocated(rows2, "entry", e)
  BY <1>1, <1>2, <1>3
<1> QED
  BY <1>5, <1>6, <1>7

LEMMA LinesReversed ==
  ASSUME PaymentsAssumption, NEW entries, NEW rows, Summable(rows),
         \A e \in DOMAIN entries : entries[e] \in EntryRow,
         \A x \in DOMAIN rows : rows[x] \in AllocationRow,
         LinesAddUp(entries, rows, {}), NEW a \in DOMAIN rows
  PROVE  LinesAddUp(entries, Over(Only(a, Reversed(rows[a])), rows), {rows[a].entry})
<1> DEFINE rows2 == Over(Only(a, Reversed(rows[a])), rows)
           b == rows[a].entry
<1> SUFFICES ASSUME NEW e \in BankLines \intersect DOMAIN entries
             PROVE  /\ \A x \in DOMAIN rows2 : rows2[x].entry = e => rows2[x].amount >= 0
                    /\ Allocated(rows2, "entry", e) <= entries[e].amount
                    /\ \/ e \in {b}
                       \/ entries[e].remaining = entries[e].amount - Allocated(rows2, "entry", e)
  BY DEF LinesAddUp
<1>0. /\ rows[a].amount \in Int /\ Reversed(rows[a]).amount = rows[a].amount
      /\ Reversed(rows[a]).entry = b
      /\ "reversed" \in DOMAIN rows[a] /\ "entry" \in DOMAIN rows[a] /\ "amount" \in DOMAIN rows[a]
  BY DEF AllocationRow, Reversed
<1>1. Allocated(rows2, "entry", e) = Allocated(rows, "entry", e)
         - IF rows[a]["entry"] = e /\ ~rows[a].reversed THEN rows[a].amount ELSE 0
  BY <1>0, AllocatedReversed
<1>2. Allocated(rows, "entry", e) \in Int /\ entries[e].amount \in Int /\ entries[e].remaining \in Int
  BY AllocatedInt DEF EntryRow
<1>3. /\ \A x \in DOMAIN rows : rows[x].entry = e => rows[x].amount >= 0
      /\ Allocated(rows, "entry", e) <= entries[e].amount
      /\ entries[e].remaining = entries[e].amount - Allocated(rows, "entry", e)
  BY DEF LinesAddUp
<1>4. /\ DOMAIN rows2 = DOMAIN rows \union {a} /\ rows2[a] = Reversed(rows[a])
      /\ \A x \in DOMAIN rows : x # a => rows2[x] = rows[x]
  BY DEF Over, Only
<1> HIDE DEF rows2
<1>5. \A x \in DOMAIN rows2 : rows2[x].entry = e => rows2[x].amount >= 0
  BY <1>0, <1>3, <1>4
<1>6. Allocated(rows2, "entry", e) <= entries[e].amount
  BY <1>0, <1>1, <1>2, <1>3
<1>7. \/ e \in {b}
      \/ entries[e].remaining = entries[e].amount - Allocated(rows2, "entry", e)
  BY <1>0, <1>1, <1>2, <1>3
<1> QED
  BY <1>5, <1>6, <1>7

\* Entries other than bank lines do not matter.
LEMMA LinesOther ==
  ASSUME NEW entries, NEW entries2, NEW rows, NEW pending, LinesAddUp(entries, rows, pending),
         \A e \in BankLines \intersect DOMAIN entries2 :
           e \in DOMAIN entries /\ entries2[e].amount = entries[e].amount
           /\ entries2[e].remaining = entries[e].remaining
  PROVE  LinesAddUp(entries2, rows, pending)
BY DEF LinesAddUp

-----------------------------------------------------------------------------
(* An allocation is summed again *)

LEMMA ReadSumKeeps ==
  ASSUME RepairIInv, IInv', PaymentsAssumption, NEW c \in Clients, ReadSum(c)
  PROVE  RepairIInv'
<1> DEFINE b == work[c].entry
           sum == Allocated(AllocationsOf(c), "entry", b)
<1>0. /\ UNCHANGED <<db, history>> /\ written' = written /\ Busy(c) /\ work[c].step = "sum"
      /\ RequestIsTyped(c) /\ work \in [Clients -> Request] /\ DOMAIN loaded = Clients
      /\ (work[c].alone => Repairs(c))
  BY DEF ReadSum, At, RepairIInv, TypeOK, db, history
<1>1. /\ InvoicesOf(c)' = InvoicesOf(c) /\ EntriesOf(c)' = EntriesOf(c)
      /\ AllocationsOf(c)' = AllocationsOf(c)
  BY <1>0, SameViews
<1>2. sum \in Int
  BY <1>0, ViewSums DEF RequestIsTyped
<1>3. b \in DOMAIN EntriesOf(c) /\ work[c].invoice \in Invoices /\ EntriesOf(c)[b] \in EntryRow
  BY <1>0 DEF RequestIsTyped, IsOfRows, ViewIsTyped, Sums
<1>4. /\ work'[c] \in Request /\ work'[c] = [work[c] EXCEPT !.total = sum, !.step = "entry"]
      /\ work' = [x \in Clients |-> work'[x]] /\ DOMAIN work' = Clients
      /\ \A x \in Clients \ {c} : work'[x] = work[x]
  <2>1. work' = [work EXCEPT ![c] = [work[c] EXCEPT !.total = sum, !.step = "entry"]]
    BY <1>0 DEF ReadSum
  <2>2. [work[c] EXCEPT !.total = sum, !.step = "entry"] \in Request
    BY <1>0, <1>2, RequestMoves
  <2> QED
    BY <1>0, <2>1, <2>2
<1>5. /\ work'[c].op = work[c].op /\ work'[c].step = "entry" /\ work'[c].total = sum
      /\ work'[c].entry = b /\ work'[c].invoice = work[c].invoice /\ work'[c].alone = work[c].alone
      /\ work'[c].amount = work[c].amount /\ work'[c].todo = work[c].todo
  BY <1>0, <1>4 DEF Request
<1>6. /\ DOMAIN loaded' = Clients /\ \A x \in Clients \ {c} : loaded'[x] = loaded[x]
      /\ DOMAIN loaded'[c] = DOMAIN NothingLoaded
      /\ loaded'[c].invoice = loaded[c].invoice
      /\ loaded'[c].entry = IF work[c].op = "reverse" THEN EntriesOf(c)[b] ELSE loaded[c].entry
  BY <1>0 DEF ReadSum, NothingLoaded, RequestIsTyped, ObjectsAreTyped
<1>7. /\ KnowsEntry(c)' /\ (work[c].op # "reverse" => KnowsEntry(c))
      /\ (KnowsInvoice(c)' => KnowsInvoice(c))
      /\ Busy(c)' /\ ~At(c, "mark")'
  BY <1>0, <1>5 DEF KnowsEntry, KnowsInvoice, Busy, Sums, At
<1>8. RequestIsTyped(c)'
  <2>1. ViewIsTyped(c)'
    BY <1>0, <1>1 DEF ViewIsTyped, RequestIsTyped
  <2>2. ObjectsAreTyped(c)'
    BY <1>0, <1>3, <1>6, <1>7 DEF ObjectsAreTyped, RequestIsTyped
  <2>3. IsOfRows(c)'
    <3>1. work'[c].step \in StepsOf(work'[c].op)
      BY <1>0, <1>5, SumsAreSteps DEF Sums
    <3> QED
      BY <1>0, <1>1, <1>3, <1>5, <1>7, <3>1 DEF IsOfRows, RequestIsTyped, Busy
  <2> QED
    BY <2>1, <2>2, <2>3 DEF RequestIsTyped
<1>9. ASSUME work[c].alone PROVE Repairs(c)'
  <2>1. LoadedIsCurrent(c)'
    BY <1>0, <1>1, <1>5, <1>6, <1>7, <1>9 DEF LoadedIsCurrent, Repairs
  <2>2. PendingEntries(c)' = PendingEntries(c) /\ PendingInvoices(c)' = PendingInvoices(c)
    BY <1>0, <1>5 DEF PendingEntries, PendingInvoices, Sums
  <2>3. SummedIsRight(c)'
    <3>1. SummedIsRight(c) /\ written' = written /\ work'[c].todo = work[c].todo
      BY <1>0, <1>5, <1>9 DEF Repairs
    <3>2. /\ \A e : RightEntry(EntriesOf(c)', AllocationsOf(c)', e)
                   = RightEntry(EntriesOf(c), AllocationsOf(c), e)
          /\ \A k : RightInvoice(InvoicesOf(c)', AllocationsOf(c)', k)
                   = RightInvoice(InvoicesOf(c), AllocationsOf(c), k)
      BY <1>1
    <3> QED
      BY <1>1, <2>2, <3>1, <3>2 DEF SummedIsRight
  <2>4. FormHasRoom(c)'
    BY <1>0, <1>1, <1>5, <1>9 DEF FormHasRoom, Repairs, Sums
  <2>5. ~overlapped' => LinesAddUp(EntriesOf(c), AllocationsOf(c), PendingEntries(c))'
    BY <1>0, <1>1, <1>9, <2>2 DEF LinesAddUp, Repairs, history
  <2> QED
    BY <2>1, <2>3, <2>4, <2>5 DEF Repairs
<1> QED
  BY <1>0, <1>4, <1>5, <1>6, <1>7, <1>8, <1>9, MiddleKeeps DEF Busy

LEMMA ReadPaidKeeps ==
  ASSUME RepairIInv, IInv', PaymentsAssumption, NEW c \in Clients, ReadPaid(c)
  PROVE  RepairIInv'
<1> DEFINE i == work[c].invoice
           sum == Allocated(AllocationsOf(c), "invoice", i)
<1>0. /\ UNCHANGED <<db, history>> /\ written' = written /\ Busy(c) /\ work[c].step = "paid"
      /\ RequestIsTyped(c) /\ work \in [Clients -> Request] /\ DOMAIN loaded = Clients
      /\ (work[c].alone => Repairs(c))
  BY DEF ReadPaid, At, RepairIInv, TypeOK, db, history
<1>1. /\ InvoicesOf(c)' = InvoicesOf(c) /\ EntriesOf(c)' = EntriesOf(c)
      /\ AllocationsOf(c)' = AllocationsOf(c)
  BY <1>0, SameViews
<1>2. sum \in Int
  BY <1>0, ViewSums DEF RequestIsTyped
<1>3. i \in Invoices /\ work[c].entry \in DOMAIN EntriesOf(c) /\ InvoicesOf(c)[i] \in InvoiceRow
  BY <1>0 DEF RequestIsTyped, IsOfRows, ViewIsTyped, Sums
<1>4. /\ work'[c] \in Request /\ work'[c] = [work[c] EXCEPT !.total = sum, !.step = "invoice"]
      /\ work' = [x \in Clients |-> work'[x]] /\ DOMAIN work' = Clients
      /\ \A x \in Clients \ {c} : work'[x] = work[x]
  <2>1. work' = [work EXCEPT ![c] = [work[c] EXCEPT !.total = sum, !.step = "invoice"]]
    BY <1>0 DEF ReadPaid
  <2>2. [work[c] EXCEPT !.total = sum, !.step = "invoice"] \in Request
    BY <1>0, <1>2, RequestMoves
  <2> QED
    BY <1>0, <2>1, <2>2
<1>5. /\ work'[c].op = work[c].op /\ work'[c].step = "invoice" /\ work'[c].total = sum
      /\ work'[c].entry = work[c].entry /\ work'[c].invoice = i /\ work'[c].alone = work[c].alone
      /\ work'[c].amount = work[c].amount /\ work'[c].todo = work[c].todo
  BY <1>0, <1>4 DEF Request
<1>6. /\ DOMAIN loaded' = Clients /\ \A x \in Clients \ {c} : loaded'[x] = loaded[x]
      /\ DOMAIN loaded'[c] = DOMAIN NothingLoaded
      /\ loaded'[c].entry = loaded[c].entry
      /\ loaded'[c].invoice = IF work[c].op = "reverse" THEN InvoicesOf(c)[i] ELSE loaded[c].invoice
  BY <1>0 DEF ReadPaid, NothingLoaded, RequestIsTyped, ObjectsAreTyped
<1>7. /\ KnowsInvoice(c)' /\ (work[c].op # "reverse" => KnowsInvoice(c))
      /\ KnowsEntry(c) /\ Busy(c)' /\ ~At(c, "mark")'
  BY <1>0, <1>5 DEF KnowsEntry, KnowsInvoice, Busy, Sums, At
<1>8. RequestIsTyped(c)'
  <2>1. ViewIsTyped(c)'
    BY <1>0, <1>1 DEF ViewIsTyped, RequestIsTyped
  <2>2. ObjectsAreTyped(c)'
    BY <1>0, <1>3, <1>6, <1>7 DEF ObjectsAreTyped, RequestIsTyped
  <2>3. IsOfRows(c)'
    <3>1. work'[c].step \in StepsOf(work'[c].op)
      BY <1>0, <1>5, SumsAreSteps DEF Sums
    <3> QED
      BY <1>0, <1>1, <1>3, <1>5, <1>7, <3>1 DEF IsOfRows, RequestIsTyped, Busy
  <2> QED
    BY <2>1, <2>2, <2>3 DEF RequestIsTyped
<1>9. ASSUME work[c].alone PROVE Repairs(c)'
  <2>1. LoadedIsCurrent(c)'
    BY <1>0, <1>1, <1>5, <1>6, <1>7, <1>9 DEF LoadedIsCurrent, Repairs
  <2>2. PendingEntries(c)' = PendingEntries(c) /\ PendingInvoices(c)' = PendingInvoices(c)
    BY <1>0, <1>5 DEF PendingEntries, PendingInvoices, Sums
  <2>3. SummedIsRight(c)'
    <3>1. SummedIsRight(c) /\ written' = written /\ work'[c].todo = work[c].todo
      BY <1>0, <1>5, <1>9 DEF Repairs
    <3>2. /\ \A e : RightEntry(EntriesOf(c)', AllocationsOf(c)', e)
                   = RightEntry(EntriesOf(c), AllocationsOf(c), e)
          /\ \A k : RightInvoice(InvoicesOf(c)', AllocationsOf(c)', k)
                   = RightInvoice(InvoicesOf(c), AllocationsOf(c), k)
      BY <1>1
    <3> QED
      BY <1>1, <2>2, <3>1, <3>2 DEF SummedIsRight
  <2>4. FormHasRoom(c)'
    BY <1>0, <1>1, <1>5, <1>9 DEF FormHasRoom, Repairs, Sums
  <2>5. ~overlapped' => LinesAddUp(EntriesOf(c), AllocationsOf(c), PendingEntries(c))'
    BY <1>0, <1>1, <1>9, <2>2 DEF LinesAddUp, Repairs, history
  <2> QED
    BY <2>1, <2>3, <2>4, <2>5 DEF Repairs
<1> QED
  BY <1>0, <1>4, <1>5, <1>6, <1>7, <1>8, <1>9, MiddleKeeps DEF Busy

LEMMA WriteEntryKeeps ==
  ASSUME RepairIInv, IInv', PaymentsAssumption, NEW c \in Clients, WriteEntry(c)
  PROVE  RepairIInv'
<1> DEFINE b == work[c].entry
           after == EntryAfter(c)
           row == EntriesOf(c)[b]
<1>0. /\ UNCHANGED <<db, history>> /\ Busy(c) /\ work[c].step = "entry"
      /\ RequestIsTyped(c) /\ work \in [Clients -> Request] /\ DOMAIN loaded = Clients
      /\ DOMAIN written = Clients /\ DOMAIN written[c] = DOMAIN NothingWritten
      /\ (work[c].alone => Repairs(c))
  BY DEF WriteEntry, At, RepairIInv, TypeOK, db, history, IInv, Shapes
<1>1. b \in DOMAIN EntriesOf(c) /\ work[c].invoice \in Invoices /\ row \in EntryRow
  BY <1>0 DEF RequestIsTyped, IsOfRows, ViewIsTyped, Sums
<1>2. loaded[c].entry \in EntryRow /\ work[c].total \in Int
  BY <1>0 DEF RequestIsTyped, ObjectsAreTyped, KnowsEntry, Request
<1>3. /\ after \in EntryRow /\ after.amount = loaded[c].entry.amount
      /\ after.remaining = loaded[c].entry.amount - work[c].total
      /\ after.match = MatchStatus(after.amount, after.remaining)
  <2>1. loaded[c].entry.amount \in Nat /\ loaded[c].entry.amount - work[c].total \in Int
    BY <1>2 DEF EntryRow
  <2>2. MatchStatus(loaded[c].entry.amount, loaded[c].entry.amount - work[c].total) \in MatchStatuses
    BY <2>1, StatusesAre
  <2> QED
    BY <2>1, <2>2 DEF EntryAfter, EntryRow
<1> HIDE DEF after
<1>4. /\ \A x \in Clients \ {c} : written'[x] = written[x]
      /\ written'[c].alloc = written[c].alloc /\ written'[c].invoice = written[c].invoice
      /\ \/ after = loaded[c].entry /\ written'[c].entry = written[c].entry
         \/ written'[c].entry = Over(Only(b, Updated(loaded[c].entry, after, row)), written[c].entry)
  BY <1>0 DEF WriteEntry, NothingWritten, after
<1>5. /\ InvoicesOf(c)' = InvoicesOf(c) /\ AllocationsOf(c)' = AllocationsOf(c)
      /\ \/ after = loaded[c].entry /\ EntriesOf(c)' = EntriesOf(c)
         \/ EntriesOf(c)' = Over(Only(b, Updated(loaded[c].entry, after, row)), EntriesOf(c))
  <2>0. invoice' = invoice /\ entry' = entry /\ alloc' = alloc
    BY <1>0 DEF db
  <2>1. InvoicesOf(c)' = InvoicesOf(c) /\ AllocationsOf(c)' = AllocationsOf(c)
    BY <1>4, <2>0 DEF InvoicesOf, AllocationsOf, Over
  <2>2. EntriesOf(c)' = Over(written'[c].entry, entry) /\ EntriesOf(c) = Over(written[c].entry, entry)
    BY <2>0 DEF EntriesOf, Over
  <2> QED
    BY <1>4, <2>1, <2>2, OverTwice
<1>6. /\ DOMAIN EntriesOf(c)' = DOMAIN EntriesOf(c)
      /\ \A e \in DOMAIN EntriesOf(c) : e # b => EntriesOf(c)'[e] = EntriesOf(c)[e]
      /\ EntriesOf(c)'[b] \in EntryRow
      /\ loaded[c].entry = row => EntriesOf(c)'[b] = after
  <2>1. CASE after = loaded[c].entry /\ EntriesOf(c)' = EntriesOf(c)
    BY <1>1, <2>1
  <2>2. CASE EntriesOf(c)' = Over(Only(b, Updated(loaded[c].entry, after, row)), EntriesOf(c))
    <3>1. /\ Updated(loaded[c].entry, after, row) \in EntryRow
          /\ loaded[c].entry = row => Updated(loaded[c].entry, after, row) = after
      BY <1>1, <1>3, UpdatedEntry
    <3> DEFINE u == Updated(loaded[c].entry, after, row)
    <3>2. /\ DOMAIN EntriesOf(c)' = DOMAIN EntriesOf(c) \union {b} /\ EntriesOf(c)'[b] = u
          /\ \A e \in DOMAIN EntriesOf(c) : e # b => EntriesOf(c)'[e] = EntriesOf(c)[e]
      BY <2>2 DEF Over, Only
    <3> QED
      BY <1>1, <3>1, <3>2
  <2> QED
    BY <1>5, <2>1, <2>2
<1>7. /\ work'[c] \in Request /\ work'[c] = [work[c] EXCEPT !.step = "paid"]
      /\ work' = [x \in Clients |-> work'[x]] /\ DOMAIN work' = Clients
      /\ \A x \in Clients \ {c} : work'[x] = work[x]
  <2>1. work' = [work EXCEPT ![c] = [work[c] EXCEPT !.step = "paid"]]
    BY <1>0 DEF WriteEntry
  <2>2. [work[c] EXCEPT !.step = "paid"] \in Request
    BY <1>0, <1>2, RequestMoves
  <2> QED
    BY <1>0, <2>1, <2>2
<1>8. /\ work'[c].op = work[c].op /\ work'[c].step = "paid"
      /\ work'[c].entry = b /\ work'[c].invoice = work[c].invoice /\ work'[c].alone = work[c].alone
      /\ work'[c].amount = work[c].amount /\ work'[c].todo = work[c].todo
  BY <1>0, <1>7 DEF Request
<1>9. /\ DOMAIN loaded' = Clients /\ \A x \in Clients \ {c} : loaded'[x] = loaded[x]
      /\ DOMAIN loaded'[c] = DOMAIN NothingLoaded
      /\ loaded'[c].invoice = loaded[c].invoice /\ loaded'[c].entry = after
  BY <1>0 DEF WriteEntry, NothingLoaded, RequestIsTyped, ObjectsAreTyped, after
<1>10. /\ (KnowsInvoice(c)' => KnowsInvoice(c)) /\ KnowsEntry(c)
       /\ KnowsEntry(c) /\ Busy(c)' /\ ~At(c, "mark")'
  BY <1>0, <1>8 DEF KnowsEntry, KnowsInvoice, Busy, Sums, At
<1>11. RequestIsTyped(c)'
  <2>1. ViewIsTyped(c)'
    BY <1>0, <1>1, <1>5, <1>6 DEF ViewIsTyped, RequestIsTyped
  <2>2. ObjectsAreTyped(c)'
    BY <1>0, <1>3, <1>9, <1>10 DEF ObjectsAreTyped, RequestIsTyped
  <2>3. IsOfRows(c)'
    <3>1. work'[c].step \in StepsOf(work'[c].op)
      BY <1>0, <1>8, SumsAreSteps DEF Sums
    <3> QED
      BY <1>0, <1>1, <1>6, <1>8, <1>10, <3>1 DEF IsOfRows, RequestIsTyped, Busy
  <2> QED
    BY <2>1, <2>2, <2>3 DEF RequestIsTyped
<1>12. ASSUME work[c].alone PROVE Repairs(c)'
  <2>0. /\ loaded[c].entry = row /\ work[c].total = Allocated(AllocationsOf(c), "entry", b)
        /\ EntriesOf(c)'[b] = after
    BY <1>0, <1>6, <1>10, <1>12 DEF Repairs, LoadedIsCurrent
  <2>1. LoadedIsCurrent(c)'
    BY <1>0, <1>5, <1>8, <1>9, <1>10, <1>12, <2>0 DEF LoadedIsCurrent, Repairs
  <2>2. /\ PendingEntries(c)' = {} /\ PendingEntries(c) = {b}
        /\ PendingInvoices(c)' = PendingInvoices(c)
    BY <1>0, <1>8 DEF PendingEntries, PendingInvoices, Sums
  <2>3. RightEntry(EntriesOf(c)', AllocationsOf(c)', b)
    BY <1>3, <1>5, <2>0 DEF RightEntry
  <2>4. SummedIsRight(c)'
    <3>1. ASSUME NEW a \in DOMAIN written[c].alloc, written[c].alloc[a].entry # b
          PROVE  RightEntry(EntriesOf(c)', AllocationsOf(c)', written[c].alloc[a].entry)
      <4>1. /\ a \in DOMAIN AllocationsOf(c) /\ AllocationsOf(c)[a] = written[c].alloc[a]
        BY DEF AllocationsOf, Over
      <4>2. written[c].alloc[a].entry \in DOMAIN EntriesOf(c)
        BY <1>0, <4>1 DEF RequestIsTyped, ViewIsTyped
      <4> QED
        BY <1>0, <1>5, <1>6, <1>12, <2>2, <3>1, <4>2 DEF Repairs, SummedIsRight, RightEntry
    <3> QED
      BY <1>0, <1>4, <1>5, <1>8, <1>12, <2>2, <2>3, <3>1 DEF SummedIsRight, Repairs, RightInvoice
  <2>5. FormHasRoom(c)'
    BY <1>0, <1>5, <1>8, <1>12 DEF FormHasRoom, Repairs, Sums
  <2>6. ~overlapped' => LinesAddUp(EntriesOf(c), AllocationsOf(c), PendingEntries(c))'
    <3> SUFFICES ASSUME ~overlapped
                 PROVE  LinesAddUp(EntriesOf(c)', AllocationsOf(c)', {})
      BY <1>0, <2>2 DEF history
    <3>1. LinesAddUp(EntriesOf(c), AllocationsOf(c), {b})
      BY <1>0, <1>12, <2>2 DEF Repairs
    <3>2. EntriesOf(c)'[b].amount = EntriesOf(c)[b].amount
      BY <1>3, <2>0
    <3> QED
      BY <1>5, <1>6, <2>3, <3>1, <3>2 DEF LinesAddUp, RightEntry
  <2> QED
    BY <2>1, <2>4, <2>5, <2>6 DEF Repairs
<1> QED
  BY <1>0, <1>4, <1>7, <1>8, <1>9, <1>10, <1>11, <1>12, MiddleKeeps DEF Busy

-----------------------------------------------------------------------------
(* An allocation is written *)

\* c writes the new allocation a of entry b to invoice i.
Inserting(c, a, b, i, amount) ==
  /\ a \in Allocations /\ a \notin DOMAIN AllocationsOf(c)
  /\ b \in Entries /\ i \in Invoices /\ amount \in Int
  /\ AllocationsOf(c)' = Over(Only(a, NewAllocation(b, i, amount)), AllocationsOf(c))
  /\ written'[c].alloc = Over(Only(a, NewAllocation(b, i, amount)), written[c].alloc)
  /\ InvoicesOf(c)' = InvoicesOf(c)
  /\ DOMAIN EntriesOf(c)' = DOMAIN EntriesOf(c) \union {b}
  /\ \A e \in DOMAIN EntriesOf(c) : e # b => EntriesOf(c)'[e] = EntriesOf(c)[e]
  /\ EntriesOf(c)'[b] \in EntryRow
  /\ work'[c].step = "sum" /\ work'[c].op \in {"allocate", "match"}
  /\ work'[c].entry = b /\ work'[c].invoice = i

LEMMA WrittenView ==
  ASSUME NEW c, NEW a, NEW row, alloc' = alloc,
         written'[c].alloc = Over(Only(a, row), written[c].alloc)
  PROVE  AllocationsOf(c)' = Over(Only(a, row), AllocationsOf(c))
<1>1. AllocationsOf(c)' = Over(written'[c].alloc, alloc) /\ AllocationsOf(c) = Over(written[c].alloc, alloc)
  BY DEF AllocationsOf, Over
<1> QED
  BY <1>1, OverTwice

LEMMA InsertTyped ==
  ASSUME PaymentsAssumption, NEW c, ViewIsTyped(c), NEW a, NEW b, NEW i, NEW amount,
         Inserting(c, a, b, i, amount),
         DOMAIN loaded'[c] = DOMAIN NothingLoaded,
         loaded'[c].entry \in EntryRow, loaded'[c].invoice \in InvoiceRow,
         work'[c].todo \subseteq DOMAIN EntriesOf(c),
         work'[c].todo # {} => work'[c].op = "match",
         work'[c].op = "allocate" /\ work'[c].amount > 0 => b = CashEntry[i]
  PROVE  RequestIsTyped(c)'
<1> DEFINE row == NewAllocation(b, i, amount)
           rows == AllocationsOf(c)
           rows2 == AllocationsOf(c)'
<1>1. /\ DOMAIN rows2 = DOMAIN rows \union {a} /\ rows2[a] = row
      /\ \A x \in DOMAIN rows : x # a => rows2[x] = rows[x]
  BY DEF Inserting, Over, Only
<1>2. row \in AllocationRow /\ row.entry = b
  BY DEF NewAllocation, AllocationRow, Inserting
<1>3. ViewIsTyped(c)'
  <2>1. /\ DOMAIN rows2 \subseteq Allocations
        /\ \A x \in DOMAIN rows2 : rows2[x] \in AllocationRow /\ rows2[x].entry \in DOMAIN EntriesOf(c)'
    <3> HIDE DEF rows2, row
    <3> QED
      BY <1>1, <1>2 DEF Inserting, ViewIsTyped
  <2>2. /\ DOMAIN EntriesOf(c)' \subseteq Entries
        /\ \A e \in DOMAIN EntriesOf(c)' : EntriesOf(c)'[e] \in EntryRow
    BY DEF Inserting, ViewIsTyped
  <2>3. InvoicesOf(c)' \in [Invoices -> InvoiceRow]
    BY DEF Inserting, ViewIsTyped
  <2> QED
    BY <2>1, <2>2, <2>3 DEF ViewIsTyped
<1>4. ObjectsAreTyped(c)'
  BY DEF ObjectsAreTyped
<1>5. IsOfRows(c)'
  BY DEF IsOfRows, Inserting, StepsOf, Sums, At, Busy
<1> QED
  BY <1>3, <1>4, <1>5 DEF RequestIsTyped

LEMMA InsertRepairs ==
  ASSUME PaymentsAssumption, NEW c, ViewIsTyped(c), NEW a, NEW b, NEW i, NEW amount,
         Inserting(c, a, b, i, amount),
         loaded'[c].entry = EntriesOf(c)'[b], loaded'[c].invoice = InvoicesOf(c)[i],
         b \notin work'[c].todo,
         \A x \in DOMAIN written[c].alloc :
           LET row == written[c].alloc[x] IN
           /\ row.entry \notin work'[c].todo
           /\ RightEntry(EntriesOf(c), AllocationsOf(c), row.entry)
           /\ RightInvoice(InvoicesOf(c), AllocationsOf(c), row.invoice),
         FormHasRoom(c)',
         ~overlapped' => /\ LinesAddUp(EntriesOf(c), AllocationsOf(c), {})
                         /\ b \in BankLines => /\ b \in DOMAIN EntriesOf(c)
                                               /\ EntriesOf(c)'[b] = EntriesOf(c)[b]
                                               /\ amount >= 0 /\ amount <= EntriesOf(c)[b].remaining
  PROVE  Repairs(c)'
<1> DEFINE row == NewAllocation(b, i, amount)
           rows == AllocationsOf(c)
           rows2 == AllocationsOf(c)'
<1>1. /\ DOMAIN rows2 = DOMAIN rows \union {a} /\ rows2[a] = row
      /\ \A x \in DOMAIN rows : x # a => rows2[x] = rows[x]
      /\ rows2 = Over(Only(a, row), rows) /\ a \notin DOMAIN rows
  BY DEF Inserting, Over, Only
<1>2. row.entry = b /\ row.invoice = i /\ row.amount = amount /\ amount \in Int /\ ~row.reversed
  BY DEF NewAllocation, Inserting
<1>3. Summable(rows)
  BY ViewSums
<1> HIDE DEF row
<1>4. /\ \A e : e # b => Allocated(rows2, "entry", e) = Allocated(rows, "entry", e)
      /\ \A j : j # i => Allocated(rows2, "invoice", j) = Allocated(rows, "invoice", j)
  <2>1. ASSUME NEW e, e # b PROVE Allocated(rows2, "entry", e) = Allocated(rows, "entry", e)
    <3>1. Allocated(rows2, "entry", e) = Allocated(rows, "entry", e)
             + IF row["entry"] = e THEN row.amount ELSE 0
      BY <1>1, <1>2, <1>3, AllocatedPut
    <3>2. Allocated(rows, "entry", e) \in Int
      BY <1>3, AllocatedInt
    <3> QED
      BY <1>2, <2>1, <3>1, <3>2
  <2>2. ASSUME NEW j, j # i PROVE Allocated(rows2, "invoice", j) = Allocated(rows, "invoice", j)
    <3>1. Allocated(rows2, "invoice", j) = Allocated(rows, "invoice", j)
             + IF row["invoice"] = j THEN row.amount ELSE 0
      BY <1>1, <1>2, <1>3, AllocatedPut
    <3>2. Allocated(rows, "invoice", j) \in Int
      BY <1>3, AllocatedInt
    <3> QED
      BY <1>2, <2>2, <3>1, <3>2
  <2> QED
    BY <2>1, <2>2
<1>5. PendingEntries(c)' = {b} /\ PendingInvoices(c)' = {i}
  BY DEF Inserting, PendingEntries, PendingInvoices, Sums
<1>6. LoadedIsCurrent(c)'
  BY DEF LoadedIsCurrent, Inserting
<1>7. SummedIsRight(c)'
  <2>1. ASSUME NEW x \in DOMAIN written'[c].alloc
        PROVE  LET r == written'[c].alloc[x] IN
               /\ r.entry \notin work'[c].todo
               /\ r.entry \in {b} \/ RightEntry(EntriesOf(c)', rows2, r.entry)
               /\ r.invoice \in {i} \/ RightInvoice(InvoicesOf(c)', rows2, r.invoice)
    <3>1. CASE x = a
      <4>1. written'[c].alloc[x] = row
        BY <3>1 DEF Inserting, Over, Only, row
      <4> QED
        BY <1>2, <4>1
    <3>2. CASE x # a
      <4>1. x \in DOMAIN written[c].alloc /\ written'[c].alloc[x] = written[c].alloc[x]
        BY <3>2 DEF Inserting, Over, Only
      <4>2. x \in DOMAIN rows /\ rows[x] = written[c].alloc[x]
        BY <4>1 DEF AllocationsOf, Over
      <4>3. rows[x].entry \in DOMAIN EntriesOf(c)
        BY <4>2 DEF ViewIsTyped
      <4> DEFINE e == rows[x].entry
                 j == rows[x].invoice
      <4>4. e # b => EntriesOf(c)'[e] = EntriesOf(c)[e]
        BY <4>3 DEF Inserting
      <4>5. InvoicesOf(c)' = InvoicesOf(c)
        BY DEF Inserting
      <4>6. e # b => RightEntry(EntriesOf(c)', rows2, e)
        <5>1. e # b => Allocated(rows2, "entry", e) = Allocated(rows, "entry", e)
          BY <1>4
        <5> QED
          BY <4>1, <4>2, <4>4, <5>1 DEF RightEntry
      <4>7. j # i => RightInvoice(InvoicesOf(c)', rows2, j)
        BY <1>4, <4>1, <4>2, <4>5 DEF RightInvoice
      <4>8. e \notin work'[c].todo
        BY <4>1, <4>2
      <4> QED
        BY <4>1, <4>2, <4>6, <4>7, <4>8
    <3> QED
      BY <3>1, <3>2
  <2> QED
    BY <1>5, <2>1 DEF SummedIsRight
<1>8. ~overlapped' => LinesAddUp(EntriesOf(c), AllocationsOf(c), PendingEntries(c))'
  <2> SUFFICES ASSUME ~overlapped' PROVE LinesAddUp(EntriesOf(c)', rows2, {b})
    BY <1>5
  <2>1. CASE b \in DOMAIN EntriesOf(c)
    <3>1. LinesAddUp(EntriesOf(c), Over(Only(a, row), rows), {b})
      BY <1>1, <1>2, <1>3, <2>1, LinesPut DEF ViewIsTyped
    <3> QED
      BY <1>1, <3>1, LinesOther DEF Inserting
  <2>2. CASE b \notin DOMAIN EntriesOf(c)
    <3>1. b \notin BankLines
      BY <2>2
    <3>2. ASSUME NEW e \in BankLines \intersect DOMAIN EntriesOf(c)'
          PROVE  /\ \A x \in DOMAIN rows2 : rows2[x].entry = e => rows2[x].amount >= 0
                 /\ Allocated(rows2, "entry", e) <= EntriesOf(c)'[e].amount
                 /\ \/ e \in {b}
                    \/ EntriesOf(c)'[e].remaining = EntriesOf(c)'[e].amount - Allocated(rows2, "entry", e)
      <4>1. e # b /\ e \in DOMAIN EntriesOf(c) /\ EntriesOf(c)'[e] = EntriesOf(c)[e]
        BY <3>1 DEF Inserting
      <4>2. Allocated(rows2, "entry", e) = Allocated(rows, "entry", e)
        BY <1>4, <4>1
      <4>3. \A x \in DOMAIN rows : rows[x].entry = e => rows[x].amount >= 0
        BY <4>1 DEF LinesAddUp
      <4>4. \A x \in DOMAIN rows2 : rows2[x].entry = e => rows2[x].amount >= 0
        <5> HIDE DEF rows2
        <5> QED
          BY <1>1, <1>2, <4>1, <4>3
      <4> QED
        BY <4>1, <4>2, <4>4 DEF LinesAddUp
    <3> QED
      BY <3>2 DEF LinesAddUp
  <2> QED
    BY <2>1, <2>2
<1> QED
  BY <1>6, <1>7, <1>8 DEF Repairs

\* An idle client sees the tables.
LEMMA IdleViews ==
  ASSUME RepairIInv, NEW c \in Clients, ~Busy(c)
  PROVE  /\ written[c] = NothingWritten
         /\ \A i \in Invoices : InvoicesOf(c)[i] = invoice[i]
         /\ DOMAIN EntriesOf(c) = DOMAIN entry
         /\ \A b \in DOMAIN entry : EntriesOf(c)[b] = entry[b]
         /\ DOMAIN AllocationsOf(c) = DOMAIN alloc
         /\ \A a \in DOMAIN alloc : AllocationsOf(c)[a] = alloc[a]
         /\ ~overlapped => LinesAddUp(EntriesOf(c), AllocationsOf(c), {})
<1>1. written[c] = NothingWritten
  BY DEF RepairIInv, AloneIsAlone
<1>2. /\ \A i \in Invoices : InvoicesOf(c)[i] = invoice[i]
      /\ DOMAIN EntriesOf(c) = DOMAIN entry
      /\ \A b \in DOMAIN entry : EntriesOf(c)[b] = entry[b]
      /\ DOMAIN AllocationsOf(c) = DOMAIN alloc
      /\ \A a \in DOMAIN alloc : AllocationsOf(c)[a] = alloc[a]
  BY <1>1 DEF InvoicesOf, EntriesOf, AllocationsOf, NothingWritten, Over, Nothing, RepairIInv, TypeOK
<1>3. ASSUME ~overlapped PROVE LinesAddUp(EntriesOf(c), AllocationsOf(c), {})
  <2>1. LinesAddUp(entry, alloc, {})
    BY <1>3 DEF RepairIInv
  <2>2. ASSUME NEW b PROVE Allocated(AllocationsOf(c), "entry", b) = Allocated(alloc, "entry", b)
    <3>1. ActiveFor(AllocationsOf(c), "entry", b) = ActiveFor(alloc, "entry", b)
      BY <1>2 DEF ActiveFor
    <3>2. \A a \in ActiveFor(alloc, "entry", b) : AllocationsOf(c)[a].amount = alloc[a].amount
      BY <1>2 DEF ActiveFor
    <3> QED
      BY <3>1, <3>2, AllocatedSame
  <2> QED
    BY <1>2, <2>1, <2>2 DEF LinesAddUp
<1> QED
  BY <1>1, <1>2, <1>3

\* A request that starts is a request.
LEMMA FreeIsRequest == Free \in Request
BY DEF Free, Request

LEMMA UnusedIsNew ==
  ASSUME NEW c \in Clients, NEW a, Unused(a)
  PROVE  a \notin DOMAIN AllocationsOf(c)
BY DEF Unused, AllocationsOf, Over

LEMMA RequestInserts ==
  ASSUME NEW r \in Request, NEW b \in Entries, NEW i \in Invoices
  PROVE  [r EXCEPT !.todo = @ \ {b}, !.step = "sum", !.entry = b, !.invoice = i] \in Request
BY DEF Request

LEMMA RequestAllocates ==
  ASSUME NEW r \in Request
  PROVE  [r EXCEPT !.op = "allocate", !.step = "sum"] \in Request
BY DEF Request

LEMMA AllocateManualKeeps ==
  ASSUME RepairIInv, IInv', PaymentsAssumption, NEW c \in Clients, NEW a \in Allocations,
         NEW b \in Entries, NEW i \in Invoices, NEW amount \in Amounts,
         AllocateManual(c, a, b, i, amount)
  PROVE  RepairIInv'
<1> DEFINE request == [Free EXCEPT !.op = "allocate", !.entry = b, !.invoice = i]
           row == NewAllocation(b, i, amount)
<1>0. /\ b \in DOMAIN entry /\ amount <= entry[b].remaining /\ Unused(a)
      /\ Start(c, request) /\ ~Busy(c) /\ db' = db
      /\ loaded' = [loaded EXCEPT ![c] = [invoice |-> invoice[i], entry |-> entry[b]]]
      /\ written' = [written EXCEPT ![c] = WithAllocation(@, a, row)]
      /\ overlapped' = (overlapped \/ \E x \in Clients \ {c} : Busy(x))
      /\ work \in [Clients -> Request] /\ DOMAIN loaded = Clients
      /\ DOMAIN written = Clients /\ DOMAIN written[c] = DOMAIN NothingWritten
      /\ RequestIsTyped(c)
  BY DEF AllocateManual, Available, Start, RepairIInv, TypeOK, IInv, Shapes
<1>1. /\ request \in Request /\ request.op = "allocate" /\ request.step = "sum"
      /\ request.entry = b /\ request.invoice = i /\ request.todo = {} /\ request.amount = 0
  BY FreeIsRequest DEF Request, Free
<1>2. /\ work'[c].op = "allocate" /\ work'[c].step = "sum" /\ work'[c].entry = b
      /\ work'[c].invoice = i /\ work'[c].todo = {} /\ work'[c].amount = 0
  BY <1>0, <1>1 DEF Start, Request
<1> HIDE DEF request, row
<1>3. /\ \A x \in Clients \ {c} : loaded'[x] = loaded[x] /\ written'[x] = written[x]
      /\ DOMAIN loaded' = Clients /\ DOMAIN loaded'[c] = DOMAIN NothingLoaded
      /\ loaded'[c].invoice = invoice[i] /\ loaded'[c].entry = entry[b]
      /\ written'[c].alloc = Over(Only(a, row), written[c].alloc)
      /\ written'[c].entry = written[c].entry /\ written'[c].invoice = written[c].invoice
  BY <1>0 DEF WithAllocation, NothingWritten, NothingLoaded
<1>4. /\ invoice' = invoice /\ entry' = entry /\ alloc' = alloc
      /\ InvoicesOf(c)' = InvoicesOf(c) /\ EntriesOf(c)' = EntriesOf(c)
      /\ AllocationsOf(c)' = Over(Only(a, row), AllocationsOf(c))
  <2>1. invoice' = invoice /\ entry' = entry /\ alloc' = alloc
    BY <1>0 DEF db
  <2>2. InvoicesOf(c)' = InvoicesOf(c) /\ EntriesOf(c)' = EntriesOf(c)
    BY <1>3, <2>1 DEF InvoicesOf, EntriesOf, Over
  <2> QED
    BY <1>3, <2>1, <2>2, WrittenView
<1>5. /\ entry[b] \in EntryRow /\ invoice[i] \in InvoiceRow /\ amount \in Int /\ amount >= 0
      /\ ViewIsTyped(c)
  BY <1>0 DEF RepairIInv, TypeOK, PaymentsAssumption, RequestIsTyped
<1>6. Inserting(c, a, b, i, amount)
  <2>1. DOMAIN EntriesOf(c) = DOMAIN entry /\ EntriesOf(c)[b] = entry[b]
    BY <1>0, IdleViews
  <2>2. a \notin DOMAIN AllocationsOf(c)
    BY <1>0, UnusedIsNew
  <2>3. DOMAIN EntriesOf(c)' = DOMAIN EntriesOf(c) \union {b} /\ EntriesOf(c)'[b] \in EntryRow
    <3>1. EntriesOf(c)' = EntriesOf(c) /\ b \in DOMAIN entry
      BY <1>0, <1>4
    <3> QED
      BY <1>5, <2>1, <3>1
  <2> QED
    BY <1>2, <1>3, <1>4, <1>5, <2>2, <2>3 DEF Inserting, row
<1>7. RequestIsTyped(c)'
  <2>1. /\ loaded'[c].entry \in EntryRow /\ loaded'[c].invoice \in InvoiceRow
        /\ work'[c].todo = {} /\ ~(work'[c].op = "allocate" /\ work'[c].amount > 0)
    BY <1>2, <1>3, <1>5
  <2> QED
    BY <1>3, <1>5, <1>6, <2>1, InsertTyped
<1>8. Repairs(c)'
  <2>1. /\ EntriesOf(c)'[b] = entry[b] /\ EntriesOf(c)[b] = entry[b] /\ InvoicesOf(c)[i] = invoice[i]
        /\ b \in DOMAIN EntriesOf(c) /\ DOMAIN written[c].alloc = {}
    BY <1>0, <1>4, IdleViews DEF NothingWritten, Nothing
  <2>2. FormHasRoom(c)'
    BY <1>2 DEF FormHasRoom
  <2>3. ~overlapped' => LinesAddUp(EntriesOf(c), AllocationsOf(c), {})
    BY <1>0, IdleViews
  <2> QED
    BY <1>0, <1>2, <1>3, <1>5, <1>6, <2>1, <2>2, <2>3, InsertRepairs
<1> QED
  BY <1>0, <1>1, <1>3, <1>7, <1>8, StartKeeps

LEMMA AutoMatchKeeps ==
  ASSUME RepairIInv, IInv', PaymentsAssumption, NEW c \in Clients, NEW a \in Allocations,
         NEW b \in Entries, NEW i \in Invoices, AutoMatch(c, a, b, i)
  PROVE  RepairIInv'
<1> DEFINE old == EntriesOf(c)[b]
           row == NewAllocation(b, i, old.remaining)
           r == [work[c] EXCEPT !.todo = @ \ {b}, !.step = "sum", !.entry = b, !.invoice = i]
<1>0. /\ UNCHANGED <<db, history>> /\ Busy(c) /\ work[c].step = "match" /\ b \in work[c].todo
      /\ Unused(a)
      /\ written' = [written EXCEPT ![c] = WithAllocation(@, a, row)]
      /\ loaded' = [loaded EXCEPT ![c] = [invoice |-> InvoicesOf(c)[i], entry |-> old]]
      /\ RequestIsTyped(c) /\ work \in [Clients -> Request] /\ DOMAIN loaded = Clients
      /\ DOMAIN written = Clients /\ DOMAIN written[c] = DOMAIN NothingWritten
      /\ (work[c].alone => Repairs(c))
  BY DEF AutoMatch, AutoAmount, At, RepairIInv, TypeOK, db, history, IInv, Shapes
<1>1. work[c].op = "match" /\ b \in DOMAIN EntriesOf(c) /\ old \in EntryRow /\ InvoicesOf(c)[i] \in InvoiceRow
      /\ old.remaining \in Int /\ ViewIsTyped(c) /\ work[c].todo \subseteq DOMAIN EntriesOf(c)
  <2>1. IsOfRows(c) /\ ViewIsTyped(c)
    BY <1>0 DEF RequestIsTyped
  <2>2. work[c].op = "match"
    BY <1>0, <2>1 DEF IsOfRows, StepsOf, Sums, Busy
  <2>3. b \in DOMAIN EntriesOf(c) /\ work[c].todo \subseteq DOMAIN EntriesOf(c)
    BY <1>0, <2>1, RowsExist
  <2>4. old \in EntryRow /\ InvoicesOf(c)[i] \in InvoiceRow
    BY <2>1, <2>3 DEF ViewIsTyped
  <2>5. old.remaining \in Int
    BY <2>4 DEF EntryRow
  <2> QED
    BY <2>1, <2>2, <2>3, <2>4, <2>5
<1>2. /\ r \in Request /\ work'[c] = r
      /\ work' = [x \in Clients |-> work'[x]] /\ DOMAIN work' = Clients
      /\ \A x \in Clients \ {c} : work'[x] = work[x]
  <2>1. work' = [work EXCEPT ![c] = r]
    BY <1>0 DEF AutoMatch
  <2>2. r \in Request
    BY <1>0, RequestInserts
  <2> HIDE DEF r
  <2> QED
    BY <1>0, <2>1, <2>2
<1>3. /\ work'[c].op = "match" /\ work'[c].step = "sum" /\ work'[c].entry = b
      /\ work'[c].invoice = i /\ work'[c].todo = work[c].todo \ {b} /\ work'[c].alone = work[c].alone
  BY <1>0, <1>1, <1>2 DEF Request
<1> HIDE DEF r, row, old
<1>4. /\ \A x \in Clients \ {c} : loaded'[x] = loaded[x] /\ written'[x] = written[x]
      /\ DOMAIN loaded' = Clients /\ DOMAIN loaded'[c] = DOMAIN NothingLoaded
      /\ loaded'[c].invoice = InvoicesOf(c)[i] /\ loaded'[c].entry = old
      /\ written'[c].alloc = Over(Only(a, row), written[c].alloc)
      /\ written'[c].entry = written[c].entry /\ written'[c].invoice = written[c].invoice
  BY <1>0 DEF WithAllocation, NothingWritten, NothingLoaded
<1>5. /\ InvoicesOf(c)' = InvoicesOf(c) /\ EntriesOf(c)' = EntriesOf(c)
      /\ AllocationsOf(c)' = Over(Only(a, row), AllocationsOf(c))
  <2>1. invoice' = invoice /\ entry' = entry /\ alloc' = alloc
    BY <1>0 DEF db
  <2>2. InvoicesOf(c)' = InvoicesOf(c) /\ EntriesOf(c)' = EntriesOf(c)
    BY <1>4, <2>1 DEF InvoicesOf, EntriesOf, Over
  <2> QED
    BY <1>4, <2>1, <2>2, WrittenView
<1>6. Inserting(c, a, b, i, old.remaining)
  <2>1. DOMAIN EntriesOf(c)' = DOMAIN EntriesOf(c) \union {b} /\ EntriesOf(c)'[b] \in EntryRow
    BY <1>1, <1>5 DEF old
  <2> QED
    BY <1>0, <1>1, <1>3, <1>4, <1>5, <2>1, UnusedIsNew DEF Inserting, row
<1>7. RequestIsTyped(c)'
  BY <1>1, <1>3, <1>4, <1>6, InsertTyped
<1>8. ASSUME work[c].alone PROVE Repairs(c)'
  <2>0. PendingEntries(c) = {} /\ PendingInvoices(c) = {}
    BY <1>0 DEF PendingEntries, PendingInvoices, Sums
  <2>1. EntriesOf(c)'[b] = old /\ EntriesOf(c)[b] = old
    BY <1>5 DEF old
  <2>2. FormHasRoom(c)'
    BY <1>3 DEF FormHasRoom
  <2>3. overlapped' = overlapped /\ (~overlapped => LinesAddUp(EntriesOf(c), AllocationsOf(c), {}))
    BY <1>0, <1>8, <2>0 DEF history, Repairs
  <2>4. ASSUME ~overlapped, b \in BankLines PROVE old.remaining >= 0
    <3>1. /\ Allocated(AllocationsOf(c), "entry", b) <= old.amount
          /\ old.remaining = old.amount - Allocated(AllocationsOf(c), "entry", b)
      BY <1>1, <2>1, <2>3, <2>4 DEF LinesAddUp
    <3>2. Allocated(AllocationsOf(c), "entry", b) \in Int /\ old.amount \in Int
      BY <1>1, ViewSums DEF EntryRow
    <3> QED
      BY <3>1, <3>2
  <2>5. \A x \in DOMAIN written[c].alloc :
           LET q == written[c].alloc[x] IN
           /\ q.entry \notin work'[c].todo
           /\ RightEntry(EntriesOf(c), AllocationsOf(c), q.entry)
           /\ RightInvoice(InvoicesOf(c), AllocationsOf(c), q.invoice)
    BY <1>0, <1>3, <1>8, <2>0 DEF Repairs, SummedIsRight
  <2>6. ~overlapped' =>
           /\ LinesAddUp(EntriesOf(c), AllocationsOf(c), {})
           /\ b \in BankLines => /\ b \in DOMAIN EntriesOf(c)
                                 /\ EntriesOf(c)'[b] = EntriesOf(c)[b]
                                 /\ old.remaining >= 0 /\ old.remaining <= EntriesOf(c)[b].remaining
    BY <1>1, <2>1, <2>3, <2>4
  <2>7. b \notin work'[c].todo /\ ViewIsTyped(c)
    BY <1>1, <1>3
  <2>8. loaded'[c].entry = EntriesOf(c)'[b] /\ loaded'[c].invoice = InvoicesOf(c)[i]
    BY <1>4, <2>1
  <2> QED
    BY <1>6, <2>2, <2>5, <2>6, <2>7, <2>8, InsertRepairs
<1> QED
  BY <1>0, <1>2, <1>3, <1>4, <1>7, <1>8, MiddleKeeps

LEMMA RenewKeeps ==
  ASSUME RepairIInv, IInv', PaymentsAssumption, NEW c \in Clients, NEW a \in Allocations,
         Renew(c, a)
  PROVE  RepairIInv'
<1> DEFINE b == work[c].entry
           i == work[c].invoice
           amount == work[c].amount
           new == NewEntry(amount)
           isNew == b \notin DOMAIN EntriesOf(c)
           changed == IF isNew THEN new ELSE Updated(loaded[c].entry, new, EntriesOf(c)[b])
           w == IF loaded[c].entry = new THEN written[c]
                ELSE [written[c] EXCEPT !.entry = Over(Only(b, changed), @)]
           row == NewAllocation(b, i, amount)
           r == [work[c] EXCEPT !.op = "allocate", !.step = "sum"]
<1>0. /\ UNCHANGED <<db, history>> /\ Busy(c) /\ work[c].step = "renew" /\ At(c, "renew")
      /\ Unused(a)
      /\ written' = [written EXCEPT ![c] = WithAllocation(w, a, row)]
      /\ loaded' = [loaded EXCEPT ![c].entry = new]
      /\ RequestIsTyped(c) /\ work \in [Clients -> Request] /\ DOMAIN loaded = Clients
      /\ DOMAIN written = Clients /\ DOMAIN written[c] = DOMAIN NothingWritten
      /\ (work[c].alone => Repairs(c))
  BY DEF Renew, At, RepairIInv, TypeOK, db, history, IInv, Shapes
<1>1. /\ work[c].op = "form" /\ i \in Invoices /\ b = CashEntry[i] /\ b \in Entries /\ b \notin BankLines
      /\ amount \in Int /\ amount \in Nat
      /\ loaded[c].invoice \in InvoiceRow /\ DOMAIN loaded[c] = DOMAIN NothingLoaded
      /\ ViewIsTyped(c) /\ work[c].todo = {}
      /\ (loaded[c].entry \in EntryRow => b \in DOMAIN EntriesOf(c))
  <2>1. work[c].op = "form" /\ IsOfRows(c) /\ ObjectsAreTyped(c) /\ ViewIsTyped(c)
    BY <1>0 DEF RequestIsTyped, IsOfRows, StepsOf, Sums, Busy
  <2>2. i \in Invoices /\ b = CashEntry[i] /\ work[c].todo = {}
        /\ (loaded[c].entry \in EntryRow => b \in DOMAIN EntriesOf(c))
    <3>1. i \in Invoices /\ b = CashEntry[i] /\ work[c].todo = {}
      BY <2>1 DEF IsOfRows
    <3>2. loaded[c].entry \in EntryRow => b \in DOMAIN EntriesOf(c)
      BY <1>0, <2>1, RowsExist DEF At
    <3> QED
      BY <3>1, <3>2
  <2>3. b \in Entries /\ b \notin BankLines
    BY <2>2 DEF PaymentsAssumption
  <2>4. KnowsInvoice(c)
    BY <1>0 DEF KnowsInvoice
  <2>5. amount \in Nat
    BY <1>0 DEF Request
  <2> QED
    BY <2>1, <2>2, <2>3, <2>4, <2>5 DEF ObjectsAreTyped
<1>2. /\ r \in Request /\ work'[c] = r
      /\ work' = [x \in Clients |-> work'[x]] /\ DOMAIN work' = Clients
      /\ \A x \in Clients \ {c} : work'[x] = work[x]
  <2>1. work' = [work EXCEPT ![c] = r]
    BY <1>0 DEF Renew
  <2>2. r \in Request
    BY <1>0, RequestAllocates
  <2> HIDE DEF r
  <2> QED
    BY <1>0, <2>1, <2>2
<1>3. /\ work'[c].op = "allocate" /\ work'[c].step = "sum" /\ work'[c].entry = b
      /\ work'[c].invoice = i /\ work'[c].todo = {} /\ work'[c].alone = work[c].alone
      /\ work'[c].amount = amount
  BY <1>0, <1>1, <1>2 DEF Request
<1>4. new \in EntryRow /\ new # Nothing
  BY <1>1 DEF NewEntry, EntryRow, MatchStatuses, Nothing
<1>5. changed \in EntryRow /\ (isNew => changed = new)
      /\ (~isNew /\ loaded[c].entry = EntriesOf(c)[b] => changed = new)
  <2>1. ~isNew => EntriesOf(c)[b] \in EntryRow
    BY <1>1 DEF ViewIsTyped
  <2> HIDE DEF new
  <2> QED
    BY <1>4, <2>1, UpdatedEntry
<1> HIDE DEF r, row, new, changed
<1>6. /\ \A x \in Clients \ {c} : loaded'[x] = loaded[x] /\ written'[x] = written[x]
      /\ DOMAIN loaded' = Clients /\ DOMAIN loaded'[c] = DOMAIN NothingLoaded
      /\ loaded'[c].invoice = loaded[c].invoice /\ loaded'[c].entry = new
      /\ written'[c].alloc = Over(Only(a, row), written[c].alloc)
      /\ written'[c].invoice = written[c].invoice
      /\ \/ loaded[c].entry = new /\ written'[c].entry = written[c].entry
         \/ written'[c].entry = Over(Only(b, changed), written[c].entry)
  BY <1>0, <1>1 DEF WithAllocation, NothingWritten, NothingLoaded
<1>7. /\ InvoicesOf(c)' = InvoicesOf(c)
      /\ AllocationsOf(c)' = Over(Only(a, row), AllocationsOf(c))
      /\ \/ loaded[c].entry = new /\ EntriesOf(c)' = EntriesOf(c)
         \/ EntriesOf(c)' = Over(Only(b, changed), EntriesOf(c))
  <2>1. invoice' = invoice /\ entry' = entry /\ alloc' = alloc
    BY <1>0 DEF db
  <2>2. EntriesOf(c)' = Over(written'[c].entry, entry) /\ EntriesOf(c) = Over(written[c].entry, entry)
    BY <2>1 DEF EntriesOf, Over
  <2>3. InvoicesOf(c)' = InvoicesOf(c)
    BY <1>6, <2>1 DEF InvoicesOf, Over
  <2> QED
    BY <1>6, <2>1, <2>2, <2>3, WrittenView, OverTwice
<1>8. /\ DOMAIN EntriesOf(c)' = DOMAIN EntriesOf(c) \union {b}
      /\ \A e \in DOMAIN EntriesOf(c) : e # b => EntriesOf(c)'[e] = EntriesOf(c)[e]
      /\ EntriesOf(c)'[b] \in EntryRow
      /\ isNew \/ loaded[c].entry = EntriesOf(c)[b] => EntriesOf(c)'[b] = new
  <2>1. CASE loaded[c].entry = new /\ EntriesOf(c)' = EntriesOf(c)
    <3>1. b \in DOMAIN EntriesOf(c)
      BY <1>1, <1>4, <2>1
    <3>2. EntriesOf(c)[b] \in EntryRow
      BY <1>1, <3>1 DEF ViewIsTyped
    <3> HIDE DEF b
    <3> QED
      BY <2>1, <3>1, <3>2
  <2>2. CASE EntriesOf(c)' = Over(Only(b, changed), EntriesOf(c))
    <3>1. /\ DOMAIN EntriesOf(c)' = DOMAIN EntriesOf(c) \union {b} /\ EntriesOf(c)'[b] = changed
          /\ \A e \in DOMAIN EntriesOf(c) : e # b => EntriesOf(c)'[e] = EntriesOf(c)[e]
      BY <2>2 DEF Over, Only
    <3> QED
      BY <1>5, <3>1
  <2> QED
    BY <1>7, <2>1, <2>2
<1> HIDE DEF b, i, amount
<1>9. Inserting(c, a, b, i, amount)
  BY <1>0, <1>1, <1>3, <1>6, <1>7, <1>8, UnusedIsNew DEF Inserting, row
<1>10. RequestIsTyped(c)'
  BY <1>1, <1>3, <1>4, <1>6, <1>9, InsertTyped
<1>11. ASSUME work[c].alone PROVE Repairs(c)'
  <2>0. PendingEntries(c) = {} /\ PendingInvoices(c) = {} /\ KnowsInvoice(c)
    BY <1>0 DEF PendingEntries, PendingInvoices, Sums, KnowsInvoice
  <2>1. loaded[c].invoice = InvoicesOf(c)[i] /\ EntriesOf(c)'[b] = new
    BY <1>0, <1>8, <1>11, <2>0 DEF Repairs, LoadedIsCurrent, b, i
  <2>2. ASSUME amount > 0
        PROVE  LET rest == InvoicesOf(c)'[i].gross - Allocated(AllocationsOf(c)', "invoice", i) IN
               /\ rest >= 0
               /\ \E x \in ActiveFor(AllocationsOf(c)', "entry", CashEntry[i]) :
                    AllocationsOf(c)'[x].invoice = i /\ AllocationsOf(c)'[x].amount = amount
    <3>1. amount <= InvoicesOf(c)[i].gross - Allocated(AllocationsOf(c), "invoice", i)
      BY <1>0, <1>1, <1>11, <2>2 DEF Repairs, FormHasRoom, i, amount
    <3>2. row.invoice = i /\ row.entry = b /\ row.amount = amount /\ ~row.reversed
      BY DEF row, NewAllocation
    <3>3. Allocated(AllocationsOf(c)', "invoice", i) = Allocated(AllocationsOf(c), "invoice", i) + amount
      <4>1. a \notin DOMAIN AllocationsOf(c) /\ Summable(AllocationsOf(c))
        BY <1>1, <1>9, ViewSums DEF Inserting
      <4>2. Allocated(AllocationsOf(c)', "invoice", i) =
              Allocated(AllocationsOf(c), "invoice", i) + IF row["invoice"] = i THEN row.amount ELSE 0
        BY <1>1, <1>7, <3>2, <4>1, AllocatedPut
      <4> QED
        BY <3>2, <4>2
    <3>4. Allocated(AllocationsOf(c), "invoice", i) \in Int /\ InvoicesOf(c)[i].gross \in Int
      <4>1. InvoicesOf(c)[i] \in InvoiceRow
        BY <1>1 DEF ViewIsTyped
      <4>2. InvoicesOf(c)[i].gross \in Int
        BY <4>1 DEF InvoiceRow, PaymentsAssumption
      <4> QED
        BY <1>1, <4>2, ViewSums
    <3>5. a \in DOMAIN AllocationsOf(c)' /\ AllocationsOf(c)'[a] = row
      BY <1>7 DEF Over, Only
    <3> QED
      BY <1>1, <1>7, <3>1, <3>2, <3>3, <3>4, <3>5 DEF ActiveFor
  <2>3. FormHasRoom(c)'
    BY <1>3, <2>2 DEF FormHasRoom
  <2>4. overlapped' = overlapped /\ (~overlapped => LinesAddUp(EntriesOf(c), AllocationsOf(c), {}))
    BY <1>0, <1>11, <2>0 DEF history, Repairs
  <2>5. \A x \in DOMAIN written[c].alloc :
           LET q == written[c].alloc[x] IN
           /\ q.entry \notin work'[c].todo
           /\ RightEntry(EntriesOf(c), AllocationsOf(c), q.entry)
           /\ RightInvoice(InvoicesOf(c), AllocationsOf(c), q.invoice)
    BY <1>0, <1>3, <1>11, <2>0 DEF Repairs, SummedIsRight
  <2> QED
    BY <1>1, <1>3, <1>6, <1>9, <2>1, <2>3, <2>4, <2>5, InsertRepairs
<1> QED
  BY <1>0, <1>2, <1>3, <1>6, <1>10, <1>11, MiddleKeeps

-----------------------------------------------------------------------------
(* A reversal *)

LEMMA MarkReversedKeeps ==
  ASSUME RepairIInv, IInv', PaymentsAssumption, NEW c \in Clients, MarkReversed(c)
  PROVE  RepairIInv'
<1> DEFINE a == work[c].alloc
           b == work[c].entry
           i == work[c].invoice
           rows == AllocationsOf(c)
           row == Reversed(rows[a])
           r == [work[c] EXCEPT !.step = "sum"]
<1>0. /\ UNCHANGED <<db, history>> /\ Busy(c) /\ work[c].step = "mark" /\ At(c, "mark")
      /\ written' = [written EXCEPT ![c] = WithAllocation(@, a, row)]
      /\ loaded' = loaded
      /\ RequestIsTyped(c) /\ work \in [Clients -> Request] /\ DOMAIN loaded = Clients
      /\ DOMAIN written = Clients /\ DOMAIN written[c] = DOMAIN NothingWritten
      /\ (work[c].alone => Repairs(c))
  BY DEF MarkReversed, At, RepairIInv, TypeOK, db, history, IInv, Shapes
<1>1. /\ work[c].op \in {"form", "reverse"} /\ i \in Invoices /\ b \in DOMAIN EntriesOf(c)
      /\ a \in DOMAIN rows /\ rows[a].entry = b /\ rows[a].invoice = i
      /\ rows[a] \in AllocationRow
      /\ ViewIsTyped(c) /\ IsOfRows(c) /\ ObjectsAreTyped(c) /\ work[c].todo = {}
  <2>1. work[c].op \in {"form", "reverse"}
    BY <1>0 DEF RequestIsTyped, IsOfRows, StepsOf, Sums, Busy
  <2>2. a \in DOMAIN rows
    BY <1>0 DEF RepairIInv, IInv, MarkedExists
  <2>3. i \in Invoices /\ b \in DOMAIN EntriesOf(c) /\ rows[a].entry = b /\ rows[a].invoice = i
        /\ work[c].todo = {}
    BY <1>0, <2>1 DEF RequestIsTyped, IsOfRows
  <2>4. rows[a] \in AllocationRow
    BY <1>0, <2>2 DEF RequestIsTyped, ViewIsTyped
  <2> QED
    BY <1>0, <2>1, <2>2, <2>3, <2>4 DEF RequestIsTyped
<1>2. /\ r \in Request /\ work'[c] = r
      /\ work' = [x \in Clients |-> work'[x]] /\ DOMAIN work' = Clients
      /\ \A x \in Clients \ {c} : work'[x] = work[x]
  <2>1. work' = [work EXCEPT ![c] = r]
    BY <1>0 DEF MarkReversed
  <2>2. r \in Request
    BY <1>0, RequestSteps
  <2> HIDE DEF r
  <2> QED
    BY <1>0, <2>1, <2>2
<1>3. /\ work'[c].op = work[c].op /\ work'[c].step = "sum" /\ work'[c].entry = b
      /\ work'[c].invoice = i /\ work'[c].todo = {} /\ work'[c].alone = work[c].alone
      /\ work'[c].amount = work[c].amount
  BY <1>0, <1>1, <1>2 DEF Request
<1>4. /\ row \in AllocationRow /\ row.entry = b /\ row.invoice = i /\ row.amount = rows[a].amount
      /\ row.reversed
  BY <1>1 DEF Reversed, AllocationRow
<1> HIDE DEF r
<1>5. /\ \A x \in Clients \ {c} : loaded'[x] = loaded[x] /\ written'[x] = written[x]
      /\ written'[c].alloc = Over(Only(a, row), written[c].alloc)
      /\ written'[c].entry = written[c].entry /\ written'[c].invoice = written[c].invoice
  BY <1>0 DEF WithAllocation, NothingWritten
<1> HIDE DEF a, b, i, row
<1>6. /\ InvoicesOf(c)' = InvoicesOf(c) /\ EntriesOf(c)' = EntriesOf(c)
      /\ AllocationsOf(c)' = Over(Only(a, row), rows)
  <2>1. invoice' = invoice /\ entry' = entry /\ alloc' = alloc
    BY <1>0 DEF db
  <2>2. InvoicesOf(c)' = InvoicesOf(c) /\ EntriesOf(c)' = EntriesOf(c)
    BY <1>5, <2>1 DEF InvoicesOf, EntriesOf, Over
  <2> QED
    BY <1>5, <2>1, <2>2, WrittenView
<1> DEFINE rows2 == AllocationsOf(c)'
<1>7. /\ DOMAIN rows2 = DOMAIN rows /\ rows2[a] = row
      /\ \A x \in DOMAIN rows : x # a => rows2[x] = rows[x]
  <2>1. rows2 = Over(Only(a, row), rows) /\ a \in DOMAIN rows
    BY <1>1, <1>6
  <2> HIDE DEF rows, rows2
  <2> QED
    BY <2>1 DEF Over, Only
<1>8. RequestIsTyped(c)'
  <2>1. ViewIsTyped(c)'
    <3>1. /\ DOMAIN rows2 \subseteq Allocations
          /\ \A x \in DOMAIN rows2 : rows2[x] \in AllocationRow /\ rows2[x].entry \in DOMAIN EntriesOf(c)
      <4> HIDE DEF rows2
      <4> QED
        BY <1>1, <1>4, <1>7 DEF ViewIsTyped
    <3> QED
      BY <1>1, <1>6, <3>1 DEF ViewIsTyped
  <2>2. ObjectsAreTyped(c)'
    BY <1>0, <1>1, <1>3 DEF ObjectsAreTyped, KnowsEntry, KnowsInvoice, Busy, Sums
  <2>3. IsOfRows(c)'
    <3>1. work'[c].step \in StepsOf(work'[c].op)
      BY <1>1, <1>3 DEF StepsOf, Sums
    <3> QED
      BY <1>0, <1>1, <1>3, <1>6, <3>1 DEF IsOfRows, Busy, At, a, b, i
  <2> QED
    BY <2>1, <2>2, <2>3 DEF RequestIsTyped
<1>9. ASSUME work[c].alone PROVE Repairs(c)'
  <2>0. PendingEntries(c) = {} /\ PendingInvoices(c) = {}
        /\ PendingEntries(c)' = {b} /\ PendingInvoices(c)' = {i}
    BY <1>0, <1>3 DEF PendingEntries, PendingInvoices, Sums
  <2>1. LoadedIsCurrent(c)'
    <3>1. /\ KnowsEntry(c)' => KnowsEntry(c)
          /\ KnowsInvoice(c)' => KnowsInvoice(c)
      BY <1>0, <1>1, <1>3 DEF KnowsEntry, KnowsInvoice, Busy, Sums
    <3>2. /\ KnowsEntry(c) => loaded[c].entry = EntriesOf(c)[b]
          /\ KnowsInvoice(c) => loaded[c].invoice = InvoicesOf(c)[i]
      BY <1>0, <1>9 DEF LoadedIsCurrent, Repairs, b, i
    <3> QED
      BY <1>0, <1>3, <1>6, <3>1, <3>2 DEF LoadedIsCurrent
  <2>s. /\ Summable(rows)
        /\ \A column, key : Allocated(rows, column, key) \in Int
        /\ "reversed" \in DOMAIN rows[a] /\ "entry" \in DOMAIN rows[a] /\ "invoice" \in DOMAIN rows[a]
        /\ "amount" \in DOMAIN rows[a] /\ rows[a].amount \in Int
    BY <1>1, ViewSums DEF AllocationRow
  <2>2. ASSUME NEW column \in {"entry", "invoice"}, NEW key
        PROVE  Allocated(rows2, column, key) = Allocated(rows, column, key)
                 - IF rows[a][column] = key /\ ~rows[a].reversed THEN rows[a].amount ELSE 0
    BY <1>1, <1>6, <2>s, AllocatedReversed DEF row
  <2>3. /\ \A e : e # b => Allocated(rows2, "entry", e) = Allocated(rows, "entry", e)
        /\ \A j : j # i => Allocated(rows2, "invoice", j) = Allocated(rows, "invoice", j)
    <3>1. ASSUME NEW e, e # b PROVE Allocated(rows2, "entry", e) = Allocated(rows, "entry", e)
      <4>1. Allocated(rows2, "entry", e) = Allocated(rows, "entry", e)
                 - IF rows[a]["entry"] = e /\ ~rows[a].reversed THEN rows[a].amount ELSE 0
        BY <2>2
      <4> QED
        BY <1>1, <2>s, <3>1, <4>1
    <3>2. ASSUME NEW j, j # i PROVE Allocated(rows2, "invoice", j) = Allocated(rows, "invoice", j)
      <4>1. Allocated(rows2, "invoice", j) = Allocated(rows, "invoice", j)
                 - IF rows[a]["invoice"] = j /\ ~rows[a].reversed THEN rows[a].amount ELSE 0
        BY <2>2
      <4> QED
        BY <1>1, <2>s, <3>2, <4>1
    <3> QED
      BY <3>1, <3>2
  <2>4. SummedIsRight(c)'
    <3>1. ASSUME NEW x \in DOMAIN written'[c].alloc
          PROVE  LET q == written'[c].alloc[x] IN
                 /\ q.entry \notin work'[c].todo
                 /\ q.entry \in {b} \/ RightEntry(EntriesOf(c)', rows2, q.entry)
                 /\ q.invoice \in {i} \/ RightInvoice(InvoicesOf(c)', rows2, q.invoice)
      <4>1. CASE x = a
        <5>1. written'[c].alloc[x] = row
          BY <1>5, <4>1 DEF Over, Only
        <5> QED
          BY <1>3, <1>4, <5>1
      <4>2. CASE x # a
        <5>1. x \in DOMAIN written[c].alloc /\ written'[c].alloc[x] = written[c].alloc[x]
          BY <1>5, <4>2 DEF Over, Only
        <5> DEFINE e == written[c].alloc[x].entry
                   j == written[c].alloc[x].invoice
        <5>2. RightEntry(EntriesOf(c), rows, e) /\ RightInvoice(InvoicesOf(c), rows, j)
          BY <1>0, <1>9, <2>0, <5>1 DEF Repairs, SummedIsRight
        <5>3. e # b => RightEntry(EntriesOf(c)', rows2, e)
          BY <1>6, <2>3, <5>2 DEF RightEntry
        <5>4. j # i => RightInvoice(InvoicesOf(c)', rows2, j)
          BY <1>6, <2>3, <5>2 DEF RightInvoice
        <5> QED
          BY <1>3, <5>1, <5>3, <5>4
      <4> QED
        BY <4>1, <4>2
    <3> QED
      BY <2>0, <3>1 DEF SummedIsRight
  <2>5. FormHasRoom(c)'
    <3>1. ASSUME work[c].amount > 0, work[c].op = "form"
          PROVE  work[c].amount <= InvoicesOf(c)'[i].gross - Allocated(rows2, "invoice", i)
      <4>1. /\ ~rows[a].reversed
            /\ work[c].amount <= InvoicesOf(c)[i].gross - Allocated(rows, "invoice", i) + rows[a].amount
        BY <1>0, <1>9, <3>1 DEF Repairs, FormHasRoom, a, i
      <4>2. Allocated(rows2, "invoice", i) = Allocated(rows, "invoice", i)
                 - IF rows[a]["invoice"] = i /\ ~rows[a].reversed THEN rows[a].amount ELSE 0
        BY <2>2
      <4>3. Allocated(rows2, "invoice", i) = Allocated(rows, "invoice", i) - rows[a].amount
        BY <1>1, <4>1, <4>2
      <4>4. InvoicesOf(c)[i].gross \in Int /\ work[c].amount \in Int
        <5>1. InvoicesOf(c)[i] \in InvoiceRow /\ work[c] \in Request
          BY <1>0, <1>1 DEF ViewIsTyped
        <5> QED
          BY <5>1 DEF InvoiceRow, PaymentsAssumption, Request
      <4> QED
        BY <1>6, <2>s, <4>1, <4>3, <4>4
    <3> QED
      BY <1>1, <1>3, <3>1 DEF FormHasRoom
  <2>6. ~overlapped' => LinesAddUp(EntriesOf(c), AllocationsOf(c), PendingEntries(c))'
    <3> SUFFICES ASSUME ~overlapped PROVE LinesAddUp(EntriesOf(c), rows2, {b})
      BY <1>0, <1>6, <2>0 DEF history
    <3>1. LinesAddUp(EntriesOf(c), rows, {})
      BY <1>0, <1>9, <2>0 DEF Repairs
    <3>2. LinesAddUp(EntriesOf(c), Over(Only(a, Reversed(rows[a])), rows), {rows[a].entry})
      BY <1>1, <2>s, <3>1, LinesReversed DEF ViewIsTyped
    <3> QED
      BY <1>1, <1>6, <3>2 DEF row
  <2> QED
    BY <2>1, <2>4, <2>5, <2>6 DEF Repairs
<1> QED
  BY <1>0, <1>1, <1>2, <1>3, <1>5, <1>8, <1>9, MiddleKeeps DEF Busy

-----------------------------------------------------------------------------
(* The form looks for its payment *)

\* A request that ends when nothing of what it has written is pending.
LEMMA CommitSeen ==
  ASSUME RepairIInv, IInv', PaymentsAssumption, NEW c \in Clients, Busy(c),
         work[c].step \in {"form", "match"}, Commit(c, written[c])
  PROVE  RepairIInv'
<1>1. RequestIsTyped(c) /\ AloneIsAlone(c) /\ (work[c].alone => Repairs(c))
  BY DEF RepairIInv
<1>2. PendingEntries(c) = {} /\ PendingInvoices(c) = {}
  BY DEF PendingEntries, PendingInvoices, Sums
<1> DEFINE w == written[c]
<1>3. Tables(Over(w.invoice, invoice), Over(w.entry, entry), Over(w.alloc, alloc))
  BY <1>1, ViewIs DEF RequestIsTyped, InvoicesOf, EntriesOf, AllocationsOf
<1>4. ASSUME work[c].alone, NEW a \in DOMAIN w.alloc
      PROVE  /\ RightEntry(Over(w.entry, entry), Over(w.alloc, alloc), w.alloc[a].entry)
             /\ RightInvoice(Over(w.invoice, invoice), Over(w.alloc, alloc), w.alloc[a].invoice)
  <2>1. SummedIsRight(c)
    BY <1>1, <1>4 DEF Repairs
  <2> QED
    BY <1>2, <2>1 DEF SummedIsRight, InvoicesOf, EntriesOf, AllocationsOf
<1>5. ASSUME ~overlapped PROVE LinesAddUp(Over(w.entry, entry), Over(w.alloc, alloc), {})
  <2>1. Repairs(c)
    BY <1>1, <1>5 DEF AloneIsAlone
  <2> QED
    BY <1>2, <1>5, <2>1 DEF Repairs, EntriesOf, AllocationsOf
<1> QED
  BY <1>3, <1>4, <1>5, CommitKeeps

LEMMA RequestMarks ==
  ASSUME NEW r \in Request, NEW a \in Allocations
  PROVE  [r EXCEPT !.step = "mark", !.alloc = a] \in Request
BY DEF Request

\* The objects that the form loads.
LEMMA FormObjectsAre ==
  ASSUME NEW c, RequestIsTyped(c), At(c, "form"), work[c] \in Request, PaymentsAssumption
  PROVE  LET o == FormObjects(c) IN
         /\ work[c].op = "form" /\ work[c].invoice \in Invoices /\ work[c].todo = {}
         /\ work[c].entry = CashEntry[work[c].invoice] /\ work[c].entry \in Entries
         /\ DOMAIN o = DOMAIN NothingLoaded
         /\ o.invoice = InvoicesOf(c)[work[c].invoice] /\ o.invoice \in InvoiceRow
         /\ o.entry = IF work[c].entry \in DOMAIN EntriesOf(c) THEN EntriesOf(c)[work[c].entry] ELSE Nothing
         /\ work[c].entry \in DOMAIN EntriesOf(c) => o.entry \in EntryRow
         /\ o.entry \in EntryRow => work[c].entry \in DOMAIN EntriesOf(c)
<1>1. work[c].op = "form"
  BY DEF RequestIsTyped, IsOfRows, StepsOf, Sums, At, Busy, Request
<1>2. work[c].invoice \in Invoices /\ work[c].entry = CashEntry[work[c].invoice] /\ work[c].todo = {}
  BY <1>1 DEF RequestIsTyped, IsOfRows
<1>3. Nothing \notin EntryRow
  BY DEF Nothing, EntryRow
<1>4. InvoicesOf(c)[work[c].invoice] \in InvoiceRow
      /\ \A b \in DOMAIN EntriesOf(c) : EntriesOf(c)[b] \in EntryRow
  BY <1>2 DEF RequestIsTyped, ViewIsTyped
<1> QED
  BY <1>1, <1>2, <1>3, <1>4 DEF FormObjects, NothingLoaded, PaymentsAssumption

\* It goes on to book its amount (r: to renew, or to reverse first).
LEMMA FormKeeps ==
  ASSUME RepairIInv, IInv', PaymentsAssumption, NEW c \in Clients, At(c, "form"),
         UNCHANGED <<db, written, history>>,
         loaded' = [loaded EXCEPT ![c] = FormObjects(c)],
         NEW r \in Request, work' = [work EXCEPT ![c] = r],
         r.op = "form", r.step \in {"renew", "mark"}, r.entry = work[c].entry,
         r.invoice = work[c].invoice, r.amount = work[c].amount, r.todo = work[c].todo,
         r.alone = work[c].alone,
         r.step = "mark" => /\ r.alloc \in DOMAIN AllocationsOf(c)
                            /\ AllocationsOf(c)[r.alloc].entry = work[c].entry
                            /\ AllocationsOf(c)[r.alloc].invoice = work[c].invoice
                            /\ ~AllocationsOf(c)[r.alloc].reversed,
         LET i == work[c].invoice
             rest == InvoicesOf(c)[i].gross - Allocated(AllocationsOf(c), "invoice", i)
         IN work[c].amount > 0 =>
              work[c].amount <= rest + IF r.step = "mark" THEN AllocationsOf(c)[r.alloc].amount ELSE 0
  PROVE  RepairIInv'
<1>0. /\ UNCHANGED <<db, history>> /\ written' = written /\ Busy(c) /\ work[c].step = "form"
      /\ RequestIsTyped(c) /\ work \in [Clients -> Request] /\ DOMAIN loaded = Clients
      /\ (work[c].alone => Repairs(c))
  BY DEF At, RepairIInv, TypeOK, db, history
<1>1. /\ InvoicesOf(c)' = InvoicesOf(c) /\ EntriesOf(c)' = EntriesOf(c)
      /\ AllocationsOf(c)' = AllocationsOf(c)
  BY <1>0, SameViews
<1> DEFINE o == FormObjects(c)
<1>2. /\ work[c].op = "form" /\ work[c].invoice \in Invoices /\ work[c].todo = {}
      /\ work[c].entry = CashEntry[work[c].invoice] /\ work[c].entry \in Entries
      /\ DOMAIN o = DOMAIN NothingLoaded
      /\ o.invoice = InvoicesOf(c)[work[c].invoice] /\ o.invoice \in InvoiceRow
      /\ o.entry = IF work[c].entry \in DOMAIN EntriesOf(c) THEN EntriesOf(c)[work[c].entry] ELSE Nothing
      /\ work[c].entry \in DOMAIN EntriesOf(c) => o.entry \in EntryRow
      /\ o.entry \in EntryRow => work[c].entry \in DOMAIN EntriesOf(c)
  BY <1>0, FormObjectsAre
<1> HIDE DEF o
<1>3. /\ work'[c] = r /\ work' = [x \in Clients |-> work'[x]] /\ DOMAIN work' = Clients
      /\ \A x \in Clients \ {c} : work'[x] = work[x]
  BY <1>0
<1>4. /\ DOMAIN loaded' = Clients /\ \A x \in Clients \ {c} : loaded'[x] = loaded[x]
      /\ loaded'[c] = o
  BY <1>0 DEF o
<1>5. r.step = "mark" => work[c].entry \in DOMAIN EntriesOf(c)
  <2>1. SUFFICES ASSUME r.step = "mark" PROVE work[c].entry \in DOMAIN EntriesOf(c)
    OBVIOUS
  <2>2. AllocationsOf(c)[r.alloc].entry \in DOMAIN EntriesOf(c)
    BY <1>0, <2>1 DEF RequestIsTyped, ViewIsTyped
  <2> QED
    BY <2>1, <2>2
<1>6. /\ KnowsEntry(c)' => r.step = "mark"
      /\ At(c, "mark")' => r.step = "mark"
      /\ Busy(c)'
  BY <1>3 DEF KnowsEntry, KnowsInvoice, Busy, Sums, At
<1>7. RequestIsTyped(c)'
  <2>1. ViewIsTyped(c)'
    BY <1>0, <1>1 DEF ViewIsTyped, RequestIsTyped
  <2>2. ObjectsAreTyped(c)'
    BY <1>2, <1>4, <1>5, <1>6 DEF ObjectsAreTyped
  <2>3. IsOfRows(c)'
    <3>1. r.step \in StepsOf(r.op)
      BY DEF StepsOf, Sums
    <3> QED
      BY <1>1, <1>2, <1>3, <1>4, <1>5, <1>6, <3>1 DEF IsOfRows, Sums
  <2> QED
    BY <2>1, <2>2, <2>3 DEF RequestIsTyped
<1>8. ASSUME work[c].alone PROVE Repairs(c)'
  <2>1. LoadedIsCurrent(c)'
    <3>1. KnowsEntry(c)' => loaded'[c].entry = EntriesOf(c)'[work'[c].entry]
      BY <1>1, <1>2, <1>3, <1>4, <1>5, <1>6
    <3> QED
      BY <1>1, <1>2, <1>3, <1>4, <3>1 DEF LoadedIsCurrent
  <2>2. /\ PendingEntries(c)' = {} /\ PendingInvoices(c)' = {}
        /\ PendingEntries(c) = {} /\ PendingInvoices(c) = {}
    BY <1>0, <1>3 DEF PendingEntries, PendingInvoices, Sums
  <2>3. SummedIsRight(c)'
    <3>1. SummedIsRight(c) /\ work'[c].todo = work[c].todo
      BY <1>0, <1>3, <1>8 DEF Repairs
    <3> QED
      BY <1>0, <1>1, <2>2, <3>1 DEF SummedIsRight
  <2>4. FormHasRoom(c)'
    <3>1. Allocated(AllocationsOf(c), "invoice", work[c].invoice) \in Int
      BY <1>0, ViewSums DEF RequestIsTyped
    <3>2. o.invoice.gross \in Int /\ work[c].amount \in Int
      BY <1>0, <1>2 DEF InvoiceRow, PaymentsAssumption, Request
    <3> QED
      BY <1>1, <1>2, <1>3, <3>1, <3>2 DEF FormHasRoom, Sums
  <2>5. ~overlapped' => LinesAddUp(EntriesOf(c), AllocationsOf(c), PendingEntries(c))'
    BY <1>0, <1>1, <1>8, <2>2 DEF LinesAddUp, Repairs, history
  <2> QED
    BY <2>1, <2>3, <2>4, <2>5 DEF Repairs
<1> QED
  BY <1>0, <1>3, <1>4, <1>6, <1>7, <1>8, MiddleKeeps DEF Busy

LEMMA FormHasNoneKeeps ==
  ASSUME RepairIInv, IInv', PaymentsAssumption, NEW c \in Clients, FormHasNone(c)
  PROVE  RepairIInv'
<1>1. /\ At(c, "form") /\ Busy(c) /\ work[c].step = "form" /\ work[c].amount <= Payable(c, 0)
      /\ work[c] \in Request
  BY DEF FormHasNone, At, RepairIInv, TypeOK
<1>2. CASE Commit(c, written[c])
  BY <1>1, <1>2, CommitSeen
<1>3. CASE ~Commit(c, written[c])
  <2> DEFINE r == [work[c] EXCEPT !.step = "renew"]
             i == work[c].invoice
  <2>1. /\ UNCHANGED <<db, written, history>> /\ loaded' = [loaded EXCEPT ![c] = FormObjects(c)]
        /\ work' = [work EXCEPT ![c] = r]
    BY <1>3 DEF FormHasNone
  <2>2. /\ r \in Request /\ r.op = work[c].op /\ r.step = "renew" /\ r.entry = work[c].entry
        /\ r.invoice = work[c].invoice /\ r.amount = work[c].amount /\ r.todo = work[c].todo
        /\ r.alone = work[c].alone
    <3>1. r \in Request
      BY <1>1, RequestSteps
    <3> QED
      BY <1>1, <3>1 DEF Request
  <2>3. RequestIsTyped(c) /\ work[c].op = "form" /\ i \in Invoices
    BY <1>1, FormObjectsAre DEF RepairIInv
  <2> HIDE DEF r
  <2>4. work[c].amount <= InvoicesOf(c)[i].gross - Allocated(AllocationsOf(c), "invoice", i) + 0
    <3>1. Allocated(AllocationsOf(c), "invoice", i) \in Int
      BY <2>3, ViewSums DEF RequestIsTyped
    <3>2. InvoicesOf(c)[i] \in InvoiceRow
      BY <2>3 DEF RequestIsTyped, ViewIsTyped
    <3>3. InvoicesOf(c)[i].gross \in Int /\ work[c].amount \in Int
      BY <1>1, <3>2 DEF InvoiceRow, PaymentsAssumption, Request
    <3> QED
      BY <1>1, <3>1, <3>3 DEF Payable
  <2> QED
    BY <1>1, <2>1, <2>2, <2>3, <2>4, FormKeeps
<1> QED
  BY <1>2, <1>3

LEMMA FormHasOneKeeps ==
  ASSUME RepairIInv, IInv', PaymentsAssumption, NEW c \in Clients, NEW a \in Allocations,
         FormHasOne(c, a)
  PROVE  RepairIInv'
<1> DEFINE current == AllocationsOf(c)[a].amount
<1>1. /\ At(c, "form") /\ Busy(c) /\ work[c].step = "form" /\ work[c].amount <= Payable(c, current)
      /\ work[c] \in Request /\ a \in FormAllocations(c)
  BY DEF FormHasOne, At, RepairIInv, TypeOK
<1>2. CASE Commit(c, written[c])
  BY <1>1, <1>2, CommitSeen
<1>3. CASE ~Commit(c, written[c])
  <2> DEFINE r == [work[c] EXCEPT !.step = "mark", !.alloc = a]
             i == work[c].invoice
  <2>1. /\ UNCHANGED <<db, written, history>> /\ loaded' = [loaded EXCEPT ![c] = FormObjects(c)]
        /\ work' = [work EXCEPT ![c] = r]
    BY <1>3 DEF FormHasOne
  <2>2. /\ r \in Request /\ r.op = work[c].op /\ r.step = "mark" /\ r.entry = work[c].entry
        /\ r.invoice = work[c].invoice /\ r.amount = work[c].amount /\ r.todo = work[c].todo
        /\ r.alone = work[c].alone /\ r.alloc = a
    BY <1>1, RequestMarks DEF Request
  <2>3. RequestIsTyped(c) /\ work[c].op = "form" /\ i \in Invoices
    BY <1>1, FormObjectsAre DEF RepairIInv
  <2>4. /\ a \in DOMAIN AllocationsOf(c) /\ AllocationsOf(c)[a].entry = work[c].entry
        /\ AllocationsOf(c)[a].invoice = i /\ ~AllocationsOf(c)[a].reversed
    BY <1>1 DEF FormAllocations, ActiveFor
  <2> HIDE DEF r
  <2>5. work[c].amount <= InvoicesOf(c)[i].gross - Allocated(AllocationsOf(c), "invoice", i) + current
    <3>1. Allocated(AllocationsOf(c), "invoice", i) \in Int
      BY <2>3, ViewSums DEF RequestIsTyped
    <3>2. InvoicesOf(c)[i] \in InvoiceRow /\ AllocationsOf(c)[a] \in AllocationRow
      BY <2>3, <2>4 DEF RequestIsTyped, ViewIsTyped
    <3>3. InvoicesOf(c)[i].gross \in Int /\ work[c].amount \in Int /\ current \in Int
      BY <1>1, <3>2 DEF InvoiceRow, PaymentsAssumption, Request, AllocationRow
    <3> HIDE DEF current
    <3> QED
      BY <1>1, <3>1, <3>3 DEF Payable
  <2> QED
    BY <1>1, <2>1, <2>2, <2>3, <2>4, <2>5, FormKeeps
<1> QED
  BY <1>2, <1>3

-----------------------------------------------------------------------------
(* The status of the invoice *)

\* What c has written when the status of its invoice is: w.
StatusWritten(c, w) ==
  /\ w.alloc = written[c].alloc /\ w.entry = written[c].entry
  /\ Over(w.invoice, invoice) \in [Invoices -> InvoiceRow]
  /\ \A j \in Invoices \ {work[c].invoice} : Over(w.invoice, invoice)[j] = InvoicesOf(c)[j]
  /\ work[c].alone => Over(w.invoice, invoice)[work[c].invoice] = InvoiceAfter(c)

LEMMA InvoiceAfterIs ==
  ASSUME RepairIInv, NEW c \in Clients, At(c, "invoice"), PaymentsAssumption
  PROVE  /\ work[c].invoice \in Invoices /\ work[c].entry \in DOMAIN EntriesOf(c)
         /\ InvoicesOf(c) \in [Invoices -> InvoiceRow]
         /\ loaded[c].invoice \in InvoiceRow /\ loaded[c].entry \in EntryRow
         /\ InvoiceAfter(c) \in InvoiceRow /\ InvoiceAfter(c).gross = loaded[c].invoice.gross
         /\ InvoiceAfter(c).status = PaymentStatus(loaded[c].invoice.gross, work[c].total)
         /\ InvoiceAfter(c).status \in PaymentStatuses
<1>1. RequestIsTyped(c) /\ work[c] \in Request /\ Busy(c) /\ work[c].step = "invoice"
  BY DEF RepairIInv, TypeOK, At
<1>2. /\ work[c].invoice \in Invoices /\ work[c].entry \in DOMAIN EntriesOf(c)
      /\ InvoicesOf(c) \in [Invoices -> InvoiceRow]
      /\ loaded[c].invoice \in InvoiceRow /\ loaded[c].entry \in EntryRow
  BY <1>1 DEF RequestIsTyped, IsOfRows, ViewIsTyped, ObjectsAreTyped, KnowsEntry, KnowsInvoice, Sums
<1>3. loaded[c].invoice.gross \in Int /\ work[c].total \in Int
  BY <1>1, <1>2 DEF InvoiceRow, PaymentsAssumption, Request
<1>4. PaymentStatus(loaded[c].invoice.gross, work[c].total) \in PaymentStatuses
  BY <1>3, StatusesAre
<1> QED
  BY <1>2, <1>4 DEF InvoiceAfter, InvoiceRow

LEMMA StatusIsWritten ==
  ASSUME RepairIInv, PaymentsAssumption, NEW c \in Clients, WriteInvoice(c)
  PROVE  \E w : StatusWritten(c, w) /\ DOMAIN w = DOMAIN NothingWritten /\ Continue(c, w)
<1> DEFINE i == work[c].invoice
           after == InvoiceAfter(c)
           row == InvoicesOf(c)[i]
           u == Updated(loaded[c].invoice, after, row)
           w == [written[c] EXCEPT !.invoice = Over(Only(i, u), @)]
<1>1. /\ At(c, "invoice") /\ DOMAIN written[c] = DOMAIN NothingWritten
      /\ work[c].alone => Repairs(c)
  BY DEF WriteInvoice, RepairIInv, IInv, Shapes, At
<1>2. /\ i \in Invoices /\ InvoicesOf(c) \in [Invoices -> InvoiceRow]
      /\ loaded[c].invoice \in InvoiceRow /\ after.status \in PaymentStatuses
      /\ after = [loaded[c].invoice EXCEPT !.status = after.status]
  BY <1>1, InvoiceAfterIs DEF InvoiceAfter, InvoiceRow
<1>3. work[c].alone => loaded[c].invoice = row
  BY <1>1 DEF Repairs, LoadedIsCurrent, KnowsInvoice, At
<1>4. InvoicesOf(c) = Over(written[c].invoice, invoice)
  BY DEF InvoicesOf
<1>5. CASE after = loaded[c].invoice /\ Continue(c, written[c])
  <2>1. StatusWritten(c, written[c])
    BY <1>2, <1>3, <1>4, <1>5 DEF StatusWritten
  <2> QED
    BY <1>1, <1>5, <2>1
<1>6. CASE Continue(c, w)
  <2>1. /\ w.alloc = written[c].alloc /\ w.entry = written[c].entry
        /\ w.invoice = Over(Only(i, u), written[c].invoice)
        /\ DOMAIN w = DOMAIN NothingWritten
    BY <1>1 DEF NothingWritten
  <2>2. u \in InvoiceRow /\ (loaded[c].invoice = row => u = after)
    <3> DEFINE status == after.status
    <3>1. row \in InvoiceRow
      BY <1>2
    <3> HIDE DEF status, row
    <3>2. /\ Updated(loaded[c].invoice, [loaded[c].invoice EXCEPT !.status = status], row) \in InvoiceRow
          /\ Updated(row, [row EXCEPT !.status = status], row) = [row EXCEPT !.status = status]
      BY <1>2, <3>1, UpdatedInvoice DEF status
    <3> QED
      BY <1>2, <3>2 DEF status
  <2> HIDE DEF u, w, after
  <2>3. Over(w.invoice, invoice) = Over(Only(i, u), InvoicesOf(c))
    BY <1>4, <2>1, OverTwice
  <2>4. /\ Over(Only(i, u), InvoicesOf(c)) \in [Invoices -> InvoiceRow]
        /\ \A j \in Invoices \ {i} : Over(Only(i, u), InvoicesOf(c))[j] = InvoicesOf(c)[j]
        /\ Over(Only(i, u), InvoicesOf(c))[i] = u
    BY <1>2, <2>2 DEF Over, Only
  <2>5. StatusWritten(c, w)
    BY <1>3, <2>1, <2>2, <2>3, <2>4 DEF StatusWritten, after
  <2> QED
    BY <1>6, <2>1, <2>5
<1> QED
  BY <1>5, <1>6 DEF WriteInvoice

\* Then all that it has written is right.
LEMMA AllIsRight ==
  ASSUME RepairIInv, PaymentsAssumption, NEW c \in Clients, At(c, "invoice"), NEW w,
         StatusWritten(c, w)
  PROVE  /\ Tables(Over(w.invoice, invoice), EntriesOf(c), AllocationsOf(c))
         /\ work[c].alone =>
              \A a \in DOMAIN w.alloc :
                /\ w.alloc[a].entry \notin work[c].todo
                /\ RightEntry(EntriesOf(c), AllocationsOf(c), w.alloc[a].entry)
                /\ RightInvoice(Over(w.invoice, invoice), AllocationsOf(c), w.alloc[a].invoice)
         /\ ~overlapped => LinesAddUp(EntriesOf(c), AllocationsOf(c), {})
<1> DEFINE i == work[c].invoice
           invoices == Over(w.invoice, invoice)
<1>1. /\ RequestIsTyped(c) /\ AloneIsAlone(c) /\ Busy(c) /\ work[c].step = "invoice"
      /\ work[c].alone => Repairs(c)
  BY DEF RepairIInv, At
<1>2. Tables(invoices, EntriesOf(c), AllocationsOf(c))
  BY <1>1, ViewIs DEF StatusWritten, RequestIsTyped, Tables
<1>3. PendingEntries(c) = {} /\ PendingInvoices(c) = {i}
  BY <1>1 DEF PendingEntries, PendingInvoices, Sums
<1>4. ASSUME work[c].alone, NEW a \in DOMAIN w.alloc
      PROVE  /\ w.alloc[a].entry \notin work[c].todo
             /\ RightEntry(EntriesOf(c), AllocationsOf(c), w.alloc[a].entry)
             /\ RightInvoice(invoices, AllocationsOf(c), w.alloc[a].invoice)
  <2>1. LoadedIsCurrent(c) /\ SummedIsRight(c) /\ w.alloc = written[c].alloc
    BY <1>1, <1>4 DEF Repairs, StatusWritten
  <2>2. work[c].total = Allocated(AllocationsOf(c), "invoice", i)
    BY <1>1, <2>1 DEF LoadedIsCurrent
  <2>3. RightInvoice(invoices, AllocationsOf(c), i)
    BY <1>4, <2>2, InvoiceAfterIs DEF RightInvoice, StatusWritten
  <2>4. /\ w.alloc[a].entry \notin work[c].todo
        /\ RightEntry(EntriesOf(c), AllocationsOf(c), w.alloc[a].entry)
        /\ w.alloc[a].invoice = i \/ RightInvoice(InvoicesOf(c), AllocationsOf(c), w.alloc[a].invoice)
    BY <1>3, <2>1 DEF SummedIsRight
  <2>5. w.alloc[a].invoice \in Invoices
    <3>1. a \in DOMAIN AllocationsOf(c) /\ AllocationsOf(c)[a] = w.alloc[a]
      BY <2>1 DEF AllocationsOf, Over
    <3> QED
      BY <1>1, <3>1 DEF RequestIsTyped, ViewIsTyped, AllocationRow
  <2>6. w.alloc[a].invoice # i => RightInvoice(invoices, AllocationsOf(c), w.alloc[a].invoice)
    BY <2>4, <2>5 DEF RightInvoice, StatusWritten
  <2> QED
    BY <2>3, <2>4, <2>6
<1>5. ASSUME ~overlapped PROVE LinesAddUp(EntriesOf(c), AllocationsOf(c), {})
  BY <1>1, <1>3, <1>5 DEF AloneIsAlone, Repairs
<1> QED
  BY <1>2, <1>4, <1>5

LEMMA WriteInvoiceKeeps ==
  ASSUME RepairIInv, IInv', PaymentsAssumption, NEW c \in Clients, WriteInvoice(c)
  PROVE  RepairIInv'
<1>1. /\ At(c, "invoice") /\ Busy(c) /\ work[c].step = "invoice" /\ RequestIsTyped(c)
      /\ work \in [Clients -> Request] /\ DOMAIN loaded = Clients /\ DOMAIN written = Clients
      /\ (work[c].alone => Repairs(c))
  BY DEF WriteInvoice, At, RepairIInv, TypeOK, IInv, Shapes
<1>2. PICK w : StatusWritten(c, w) /\ DOMAIN w = DOMAIN NothingWritten /\ Continue(c, w)
  BY StatusIsWritten
<1> DEFINE invoices == Over(w.invoice, invoice)
           i == work[c].invoice
<1>3. /\ Tables(invoices, EntriesOf(c), AllocationsOf(c))
      /\ work[c].alone =>
           \A a \in DOMAIN w.alloc :
             /\ w.alloc[a].entry \notin work[c].todo
             /\ RightEntry(EntriesOf(c), AllocationsOf(c), w.alloc[a].entry)
             /\ RightInvoice(invoices, AllocationsOf(c), w.alloc[a].invoice)
      /\ ~overlapped => LinesAddUp(EntriesOf(c), AllocationsOf(c), {})
  BY <1>1, <1>2, AllIsRight
<1>4. /\ EntriesOf(c) = Over(w.entry, entry) /\ AllocationsOf(c) = Over(w.alloc, alloc)
      /\ w.alloc = written[c].alloc
  BY <1>2 DEF StatusWritten, EntriesOf, AllocationsOf
<1>5. CASE Commit(c, w)
  BY <1>1, <1>3, <1>4, <1>5, CommitKeeps
<1>6. /\ i \in Invoices /\ work[c].entry \in DOMAIN EntriesOf(c)
      /\ loaded[c].invoice \in InvoiceRow /\ loaded[c].entry \in EntryRow
      /\ InvoiceAfter(c) \in InvoiceRow /\ InvoiceAfter(c).gross = loaded[c].invoice.gross
  BY <1>1, InvoiceAfterIs
<1>7. CASE /\ written' = [written EXCEPT ![c] = w] /\ UNCHANGED <<db, history>>
           /\ \/ /\ work[c].op = "form" /\ work[c].amount > 0
                 /\ work' = [work EXCEPT ![c].step = "renew"]
                 /\ loaded' = [loaded EXCEPT ![c].invoice = InvoiceAfter(c)]
              \/ /\ work[c].todo # {}
                 /\ work' = [work EXCEPT ![c].step = "match"]
                 /\ loaded' = [loaded EXCEPT ![c] = NothingLoaded]
  <2>1. /\ InvoicesOf(c)' = invoices /\ EntriesOf(c)' = EntriesOf(c)
        /\ AllocationsOf(c)' = AllocationsOf(c) /\ written'[c] = w
        /\ \A x \in Clients \ {c} : written'[x] = written[x]
    BY <1>1, <1>4, <1>7 DEF InvoicesOf, EntriesOf, AllocationsOf, db, Over
  <2>2. ViewIsTyped(c)'
    BY <1>3, <2>1, ViewIs
  <2> DEFINE r == work'[c]
  <2>3. /\ r \in Request /\ work' = [x \in Clients |-> work'[x]] /\ DOMAIN work' = Clients
        /\ \A x \in Clients \ {c} : work'[x] = work[x]
        /\ r.op = work[c].op /\ r.entry = work[c].entry /\ r.invoice = i
        /\ r.amount = work[c].amount /\ r.todo = work[c].todo /\ r.alone = work[c].alone
        /\ \/ r.step = "renew" /\ work[c].op = "form" /\ work[c].amount > 0
           \/ r.step = "match" /\ work[c].todo # {} /\ work[c].op = "match"
    <3>1. ASSUME NEW step \in {"renew", "match"}, work' = [work EXCEPT ![c].step = step]
          PROVE  /\ r \in Request /\ work' = [x \in Clients |-> work'[x]] /\ DOMAIN work' = Clients
                 /\ \A x \in Clients \ {c} : work'[x] = work[x]
                 /\ r.op = work[c].op /\ r.entry = work[c].entry /\ r.invoice = i
                 /\ r.amount = work[c].amount /\ r.todo = work[c].todo /\ r.alone = work[c].alone
                 /\ r.step = step
      <4>1. [work[c] EXCEPT !.step = step] \in Request
        BY <1>1, RequestSteps
      <4>2. /\ r = [work[c] EXCEPT !.step = step]
            /\ work' = [x \in Clients |-> work'[x]] /\ DOMAIN work' = Clients
            /\ \A x \in Clients \ {c} : work'[x] = work[x]
        BY <1>1, <3>1
      <4>3. work[c] \in Request
        BY <1>1
      <4> HIDE DEF r
      <4> QED
        BY <4>1, <4>2, <4>3 DEF Request
    <3>2. work[c].todo # {} => work[c].op = "match"
      BY <1>1 DEF RequestIsTyped, IsOfRows
    <3> QED
      BY <1>7, <3>1, <3>2
  <2>4. /\ DOMAIN loaded' = Clients /\ \A x \in Clients \ {c} : loaded'[x] = loaded[x]
        /\ DOMAIN loaded'[c] = DOMAIN NothingLoaded
        /\ r.step = "renew" => /\ loaded'[c].invoice = InvoiceAfter(c)
                               /\ loaded'[c].entry = loaded[c].entry
    <3>1. DOMAIN loaded[c] = DOMAIN NothingLoaded
      BY <1>1 DEF RequestIsTyped, ObjectsAreTyped
    <3>2. /\ DOMAIN loaded' = Clients /\ \A x \in Clients \ {c} : loaded'[x] = loaded[x]
          /\ DOMAIN loaded'[c] = DOMAIN NothingLoaded
      BY <1>1, <1>7, <3>1 DEF NothingLoaded
    <3>3. work' = [work EXCEPT ![c].step = "match"] => r.step # "renew"
      <4>1. work' = [work EXCEPT ![c].step = "match"] => r = [work[c] EXCEPT !.step = "match"]
        BY <1>1
      <4>2. work[c] \in Request
        BY <1>1
      <4> HIDE DEF r
      <4> QED
        BY <4>1, <4>2 DEF Request
    <3>4. r.step = "renew" => loaded' = [loaded EXCEPT ![c].invoice = InvoiceAfter(c)]
      BY <1>7, <3>3
    <3> QED
      BY <1>1, <3>1, <3>2, <3>4 DEF NothingLoaded
  <2> HIDE DEF r, i, invoices
  <2>5. /\ ~KnowsEntry(c)' /\ (KnowsInvoice(c)' => r.step = "renew") /\ Busy(c)' /\ ~At(c, "mark")'
    BY <1>1, <2>3 DEF KnowsEntry, KnowsInvoice, Busy, At, Sums, r
  <2>6. RequestIsTyped(c)'
    <3>1. ObjectsAreTyped(c)'
      BY <1>6, <2>4, <2>5 DEF ObjectsAreTyped
    <3>2. IsOfRows(c)'
      <4>1. r.step \in StepsOf(r.op)
        BY <2>3 DEF StepsOf, Sums
      <4>2. IsOfRows(c)
        BY <1>1 DEF RequestIsTyped
      <4> QED
        BY <1>6, <2>1, <2>3, <2>5, <4>1, <4>2 DEF IsOfRows, r, i, Sums
    <3> QED
      BY <2>2, <3>1, <3>2 DEF RequestIsTyped
  <2>7. ASSUME work[c].alone PROVE Repairs(c)'
    <3>0. /\ loaded[c].entry = EntriesOf(c)[work[c].entry] /\ loaded[c].invoice = InvoicesOf(c)[i]
          /\ invoices[i] = InvoiceAfter(c)
          /\ FormHasRoom(c)
      BY <1>1, <1>2, <2>7 DEF Repairs, LoadedIsCurrent, KnowsEntry, KnowsInvoice, StatusWritten, i, invoices
    <3>1. LoadedIsCurrent(c)'
      BY <1>6, <2>1, <2>3, <2>4, <2>5, <3>0 DEF LoadedIsCurrent, r
    <3>2. /\ PendingEntries(c)' = {} /\ PendingInvoices(c)' = {}
      BY <2>3 DEF PendingEntries, PendingInvoices, Sums, r
    <3>3. SummedIsRight(c)'
      BY <1>3, <2>1, <2>3, <2>7 DEF SummedIsRight, r, invoices
    <3>4. FormHasRoom(c)'
      <4>1. r.op = "form" /\ work[c].amount > 0 =>
              work[c].amount <= invoices[i].gross - Allocated(AllocationsOf(c), "invoice", i)
        BY <1>1, <1>6, <2>3, <3>0 DEF FormHasRoom, Sums, i
      <4>2. r.op = "form" \/ r.op = "match"
        BY <2>3
      <4> QED
        BY <2>1, <2>3, <4>1, <4>2 DEF FormHasRoom, r
    <3>5. ~overlapped' => LinesAddUp(EntriesOf(c), AllocationsOf(c), PendingEntries(c))'
      BY <1>3, <1>7, <2>1, <3>2 DEF LinesAddUp, history
    <3> QED
      BY <3>1, <3>3, <3>4, <3>5 DEF Repairs
  <2>8. r.op # "none"
    BY <2>3
  <2> QED
    BY <1>1, <1>7, <2>1, <2>3, <2>4, <2>6, <2>7, <2>8, MiddleKeeps DEF r
<1> QED
  BY <1>2, <1>5, <1>7 DEF Continue

-----------------------------------------------------------------------------
(* An entry is left to the user *)

\* What c has written when the entry b is left: w.
LeftWritten(c, b, w) ==
  LET entries == Over(w.entry, entry) IN
  /\ w.alloc = written[c].alloc /\ w.invoice = written[c].invoice
  /\ DOMAIN entries = DOMAIN EntriesOf(c)
  /\ \A e \in DOMAIN entries : e # b => entries[e] = EntriesOf(c)[e]
  /\ entries[b] \in EntryRow
  /\ entries[b].amount = EntriesOf(c)[b].amount /\ entries[b].remaining = EntriesOf(c)[b].remaining

LEMMA LeaveWrites ==
  ASSUME RepairIInv, NEW c \in Clients, NEW b, Leave(c, b)
  PROVE  /\ b \in DOMAIN EntriesOf(c) /\ b \in work[c].todo /\ At(c, "match") /\ work[c].op = "match"
         /\ \E w : /\ LeftWritten(c, b, w)
                   /\ \/ /\ work' = [work EXCEPT ![c].todo = @ \ {b}]
                         /\ written' = [written EXCEPT ![c] = w]
                         /\ UNCHANGED <<db, loaded, history>>
                      \/ Commit(c, w)
<1> DEFINE row == EntriesOf(c)[b]
           reviewed == ReviewedEntry(c, b)
           w == IF reviewed = row THEN written[c]
                ELSE [written[c] EXCEPT !.entry = Over(Only(b, reviewed), @)]
<1>1. /\ At(c, "match") /\ b \in work[c].todo
      /\ RequestIsTyped(c) /\ DOMAIN written[c] = DOMAIN NothingWritten
  BY DEF Leave, RepairIInv, IInv, Shapes
<1>2. b \in DOMAIN EntriesOf(c) /\ row \in EntryRow /\ work[c].op = "match"
  <2>1. IsOfRows(c) /\ ViewIsTyped(c)
    BY <1>1 DEF RequestIsTyped
  <2>2. b \in DOMAIN EntriesOf(c) /\ work[c].op = "match"
    BY <1>1, <2>1, RowsExist
  <2> QED
    BY <2>1, <2>2 DEF ViewIsTyped
<1>3. reviewed \in EntryRow /\ reviewed.amount = row.amount /\ reviewed.remaining = row.remaining
  BY <1>2 DEF ReviewedEntry, EntryRow, MatchStatuses
<1>4. \/ /\ work' = [work EXCEPT ![c].todo = @ \ {b}]
         /\ written' = [written EXCEPT ![c] = w]
         /\ UNCHANGED <<db, loaded, history>>
      \/ Commit(c, w)
  BY DEF Leave
<1>5. LeftWritten(c, b, w)
  <2>1. EntriesOf(c) = Over(written[c].entry, entry)
    BY DEF EntriesOf
  <2>2. CASE reviewed = row
    BY <1>2, <2>1, <2>2 DEF LeftWritten
  <2>3. CASE reviewed # row
    <3>1. w.alloc = written[c].alloc /\ w.invoice = written[c].invoice
          /\ w.entry = Over(Only(b, reviewed), written[c].entry)
      BY <1>1, <2>3 DEF NothingWritten
    <3> HIDE DEF w, reviewed
    <3>2. Over(w.entry, entry) = Over(Only(b, reviewed), EntriesOf(c))
      BY <2>1, <3>1, OverTwice
    <3>3. /\ DOMAIN Over(Only(b, reviewed), EntriesOf(c)) = DOMAIN EntriesOf(c)
          /\ Over(Only(b, reviewed), EntriesOf(c))[b] = reviewed
          /\ \A e \in DOMAIN EntriesOf(c) : e # b => Over(Only(b, reviewed), EntriesOf(c))[e] = EntriesOf(c)[e]
      BY <1>2 DEF Over, Only
    <3> QED
      BY <1>3, <3>1, <3>2, <3>3 DEF LeftWritten
  <2> QED
    BY <2>2, <2>3
<1> QED
  BY <1>1, <1>2, <1>4, <1>5

LEMMA RequestLeaves ==
  ASSUME NEW r \in Request, NEW b
  PROVE  [r EXCEPT !.todo = @ \ {b}] \in Request
BY DEF Request

LEMMA LeaveKeeps ==
  ASSUME RepairIInv, IInv', PaymentsAssumption, NEW c \in Clients, NEW b, Leave(c, b)
  PROVE  RepairIInv'
<1>1. /\ b \in DOMAIN EntriesOf(c) /\ b \in work[c].todo /\ At(c, "match")
      /\ work[c].op = "match" /\ Busy(c) /\ work[c].step = "match" /\ RequestIsTyped(c)
      /\ AloneIsAlone(c) /\ work \in [Clients -> Request] /\ DOMAIN loaded = Clients
      /\ DOMAIN written = Clients /\ (work[c].alone => Repairs(c))
  BY LeaveWrites DEF At, RepairIInv, TypeOK, IInv, Shapes
<1>2. PICK w : /\ LeftWritten(c, b, w)
               /\ \/ /\ work' = [work EXCEPT ![c].todo = @ \ {b}]
                     /\ written' = [written EXCEPT ![c] = w]
                     /\ UNCHANGED <<db, loaded, history>>
                  \/ Commit(c, w)
  BY LeaveWrites
<1> DEFINE entries == Over(w.entry, entry)
<1>3. /\ InvoicesOf(c) = Over(w.invoice, invoice) /\ AllocationsOf(c) = Over(w.alloc, alloc)
      /\ w.alloc = written[c].alloc
      /\ DOMAIN entries = DOMAIN EntriesOf(c)
      /\ \A e \in DOMAIN entries : e # b => entries[e] = EntriesOf(c)[e]
      /\ entries[b] \in EntryRow
      /\ entries[b].amount = EntriesOf(c)[b].amount /\ entries[b].remaining = EntriesOf(c)[b].remaining
  BY <1>2 DEF LeftWritten, InvoicesOf, AllocationsOf
<1> HIDE DEF entries
<1>4. Tables(InvoicesOf(c), entries, AllocationsOf(c))
  BY <1>1, <1>3 DEF Tables, RequestIsTyped, ViewIsTyped
<1>5. ASSUME work[c].alone, NEW a \in DOMAIN w.alloc
      PROVE  /\ w.alloc[a].entry \notin work[c].todo
             /\ RightEntry(entries, AllocationsOf(c), w.alloc[a].entry)
             /\ RightInvoice(InvoicesOf(c), AllocationsOf(c), w.alloc[a].invoice)
  <2>1. SummedIsRight(c) /\ PendingEntries(c) = {} /\ PendingInvoices(c) = {}
    BY <1>1, <1>5 DEF Repairs, PendingEntries, PendingInvoices, Sums
  <2>2. /\ w.alloc[a].entry \notin work[c].todo
        /\ RightEntry(EntriesOf(c), AllocationsOf(c), w.alloc[a].entry)
        /\ RightInvoice(InvoicesOf(c), AllocationsOf(c), w.alloc[a].invoice)
    BY <1>3, <2>1 DEF SummedIsRight
  <2>3. w.alloc[a].entry \in DOMAIN entries
    <3>1. a \in DOMAIN AllocationsOf(c) /\ AllocationsOf(c)[a] = w.alloc[a]
      BY <1>3 DEF AllocationsOf, Over
    <3> QED
      BY <1>4, <3>1 DEF Tables
  <2> QED
    BY <1>1, <1>3, <2>2, <2>3 DEF RightEntry
<1>6. ASSUME ~overlapped PROVE LinesAddUp(entries, AllocationsOf(c), {})
  <2>1. LinesAddUp(EntriesOf(c), AllocationsOf(c), {})
    BY <1>1, <1>6 DEF AloneIsAlone, Repairs, PendingEntries, Sums
  <2> QED
    BY <1>3, <2>1, LinesOther
<1>7. CASE Commit(c, w)
  BY <1>1, <1>3, <1>4, <1>5, <1>6, <1>7, CommitKeeps DEF entries
<1>8. CASE /\ work' = [work EXCEPT ![c].todo = @ \ {b}]
           /\ written' = [written EXCEPT ![c] = w]
           /\ UNCHANGED <<db, loaded, history>>
  <2>1. /\ InvoicesOf(c)' = InvoicesOf(c) /\ EntriesOf(c)' = entries
        /\ AllocationsOf(c)' = AllocationsOf(c) /\ written'[c] = w
        /\ \A x \in Clients \ {c} : written'[x] = written[x]
    BY <1>1, <1>3, <1>8 DEF InvoicesOf, EntriesOf, AllocationsOf, db, Over, entries
  <2> DEFINE r == [work[c] EXCEPT !.todo = @ \ {b}]
  <2>2. /\ work'[c] = r /\ work' = [x \in Clients |-> work'[x]] /\ DOMAIN work' = Clients
        /\ \A x \in Clients \ {c} : work'[x] = work[x]
    BY <1>1, <1>8
  <2>3. /\ r \in Request /\ r.op = "match" /\ r.step = "match" /\ r.todo = work[c].todo \ {b}
        /\ r.entry = work[c].entry /\ r.invoice = work[c].invoice /\ r.alone = work[c].alone
        /\ r.amount = work[c].amount
    <3>1. r \in Request
      BY <1>1, RequestLeaves
    <3> QED
      BY <1>1, <3>1 DEF Request
  <2> HIDE DEF r
  <2>4. /\ ~KnowsEntry(c)' /\ ~KnowsInvoice(c)' /\ Busy(c)' /\ ~At(c, "mark")' /\ ~At(c, "renew")'
    BY <2>2, <2>3 DEF KnowsEntry, KnowsInvoice, Busy, At, Sums
  <2>5. RequestIsTyped(c)'
    <3>1. ViewIsTyped(c)'
      BY <1>4, <2>1, ViewIs
    <3>2. ObjectsAreTyped(c)'
      BY <1>1, <1>8, <2>4 DEF ObjectsAreTyped, RequestIsTyped
    <3>3. IsOfRows(c)'
      BY <1>1, <1>3, <2>1, <2>2, <2>3, <2>4 DEF IsOfRows, RequestIsTyped, StepsOf, Sums
    <3> QED
      BY <3>1, <3>2, <3>3 DEF RequestIsTyped
  <2>6. ASSUME work[c].alone PROVE Repairs(c)'
    <3>1. LoadedIsCurrent(c)'
      BY <2>2, <2>3, <2>4 DEF LoadedIsCurrent
    <3>2. /\ PendingEntries(c)' = {} /\ PendingInvoices(c)' = {}
      BY <2>2, <2>3 DEF PendingEntries, PendingInvoices, Sums
    <3>3. SummedIsRight(c)'
      BY <1>5, <2>1, <2>2, <2>3, <2>6 DEF SummedIsRight
    <3>4. FormHasRoom(c)'
      BY <2>2, <2>3 DEF FormHasRoom
    <3>5. ~overlapped' => LinesAddUp(EntriesOf(c), AllocationsOf(c), PendingEntries(c))'
      BY <1>6, <1>8, <2>1, <3>2 DEF history
    <3> QED
      BY <3>1, <3>3, <3>4, <3>5 DEF Repairs
  <2> QED
    BY <1>1, <1>8, <2>1, <2>2, <2>3, <2>5, <2>6, MiddleKeeps
<1> QED
  BY <1>2, <1>7, <1>8

-----------------------------------------------------------------------------
(* Requests that start without an allocation *)

\* The request, when what it has written is typed and leaves the lines right.
LEMMA QuietStart ==
  ASSUME RepairIInv, IInv', PaymentsAssumption, NEW c \in Clients, NEW request \in Request,
         Start(c, request), loaded' = loaded,
         \A x \in Clients \ {c} : written'[x] = written[x],
         written'[c].alloc = Nothing,
         Tables(InvoicesOf(c)', EntriesOf(c)', AllocationsOf(c)'),
         <<request.op, request.step>> \in {<<"reverse", "mark">>, <<"match", "match">>, <<"form", "form">>},
         request.op = "reverse" => /\ request.alloc \in DOMAIN AllocationsOf(c)'
                                   /\ AllocationsOf(c)'[request.alloc].entry = request.entry
                                   /\ AllocationsOf(c)'[request.alloc].invoice = request.invoice
                                   /\ request.amount = 0,
         request.op = "form" => request.invoice \in Invoices /\ request.entry = CashEntry[request.invoice],
         request.todo \subseteq DOMAIN EntriesOf(c)',
         request.todo # {} => request.op = "match",
         ~overlapped => LinesAddUp(EntriesOf(c)', AllocationsOf(c)', {})
  PROVE  RepairIInv'
<1>0. /\ DOMAIN loaded = Clients /\ RequestIsTyped(c)
      /\ overlapped' = (overlapped \/ \E x \in Clients \ {c} : Busy(x))
  BY DEF RepairIInv, Start
<1>1. /\ work'[c].op = request.op /\ work'[c].step = request.step /\ work'[c].entry = request.entry
      /\ work'[c].invoice = request.invoice /\ work'[c].todo = request.todo
      /\ work'[c].amount = request.amount /\ work'[c].alloc = request.alloc
  BY DEF Start, Request
<1>2. /\ \/ request.op = "reverse" /\ request.step = "mark"
         \/ request.op = "match" /\ request.step = "match"
         \/ request.op = "form" /\ request.step = "form"
  OBVIOUS
<1>3. ~KnowsEntry(c)' /\ ~KnowsInvoice(c)' /\ Busy(c)'
  BY <1>1, <1>2 DEF KnowsEntry, KnowsInvoice, Busy, Sums
<1>4. RequestIsTyped(c)'
  <2>1. ViewIsTyped(c)'
    BY ViewIs
  <2>2. ObjectsAreTyped(c)'
    BY <1>0, <1>3 DEF ObjectsAreTyped, RequestIsTyped
  <2>3. IsOfRows(c)'
    <3>1. request.op = "reverse" => request.entry \in DOMAIN EntriesOf(c)' /\ request.invoice \in Invoices
      BY DEF Tables, AllocationRow
    <3> QED
      BY <1>1, <1>2, <3>1 DEF IsOfRows, StepsOf, Sums, At, Busy
  <2> QED
    BY <2>1, <2>2, <2>3 DEF RequestIsTyped
<1>5. Repairs(c)'
  <2>1. LoadedIsCurrent(c)'
    BY <1>1, <1>2, <1>3 DEF LoadedIsCurrent
  <2>2. /\ PendingEntries(c)' = {} /\ PendingInvoices(c)' = {}
    BY <1>1, <1>2 DEF PendingEntries, PendingInvoices, Sums
  <2>3. SummedIsRight(c)'
    BY DEF SummedIsRight, Nothing
  <2>4. FormHasRoom(c)'
    BY <1>1, <1>2 DEF FormHasRoom, Sums
  <2>5. ~overlapped' => LinesAddUp(EntriesOf(c), AllocationsOf(c), PendingEntries(c))'
    BY <1>0, <2>2
  <2> QED
    BY <2>1, <2>3, <2>4, <2>5 DEF Repairs
<1>6. request.op # "none"
  BY <1>2
<1> QED
  BY <1>0, <1>4, <1>5, <1>6, StartKeeps

\* An idle client that has not written anything yet.
LEMMA IdleSees ==
  ASSUME RepairIInv, NEW c \in Clients, ~Busy(c), written'[c] = NothingWritten, db' = db
  PROVE  /\ Tables(InvoicesOf(c)', EntriesOf(c)', AllocationsOf(c)')
         /\ DOMAIN EntriesOf(c)' = DOMAIN entry /\ DOMAIN AllocationsOf(c)' = DOMAIN alloc
         /\ \A a \in DOMAIN alloc : AllocationsOf(c)'[a] = alloc[a]
         /\ ~overlapped => LinesAddUp(EntriesOf(c)', AllocationsOf(c)', {})
<1>1. written'[c] = written[c]
  BY IdleViews
<1>2. /\ InvoicesOf(c)' = InvoicesOf(c) /\ EntriesOf(c)' = EntriesOf(c)
      /\ AllocationsOf(c)' = AllocationsOf(c)
  BY <1>1, SameViews
<1>3. ViewIsTyped(c)
  BY DEF RepairIInv, RequestIsTyped
<1> QED
  BY <1>2, <1>3, IdleViews, ViewIs

\* The row of a request that matches lines.
LEMMA MatchIsRequest ==
  ASSUME NEW q \in Request, NEW lines \in SUBSET Entries
  PROVE  LET r == [q EXCEPT !.op = "match", !.step = "match", !.todo = lines]
         IN  r \in Request /\ r.op = "match" /\ r.step = "match" /\ r.todo = lines
BY DEF Request

LEMMA ReverseKeeps ==
  ASSUME RepairIInv, IInv', PaymentsAssumption, NEW c \in Clients, NEW a \in Allocations,
         ReverseAllocation(c, a)
  PROVE  RepairIInv'
<1> DEFINE r == [Free EXCEPT !.op = "reverse", !.step = "mark", !.alloc = a,
                             !.entry = alloc[a].entry, !.invoice = alloc[a].invoice]
<1>1. /\ Start(c, r) /\ loaded' = loaded /\ written' = written /\ a \in DOMAIN alloc
      /\ ~Busy(c) /\ db' = db
  BY DEF ReverseAllocation, Start
<1>2. alloc[a] \in AllocationRow
  BY <1>1 DEF RepairIInv, TypeOK
<1>3. /\ r \in Request /\ r.op = "reverse" /\ r.step = "mark" /\ r.alloc = a
      /\ r.entry = alloc[a].entry /\ r.invoice = alloc[a].invoice /\ r.todo = {} /\ r.amount = 0
  <2>1. alloc[a].entry \in Entries /\ alloc[a].invoice \in Invoices
    BY <1>2 DEF AllocationRow
  <2>2. Free \in Request /\ Free.todo = {} /\ Free.amount = 0
    BY FreeIsRequest DEF Free
  <2> QED
    BY <2>1, <2>2 DEF Request
<1> HIDE DEF r
<1>4. written'[c] = NothingWritten
  BY <1>1, IdleViews
<1>5. /\ Tables(InvoicesOf(c)', EntriesOf(c)', AllocationsOf(c)')
      /\ DOMAIN EntriesOf(c)' = DOMAIN entry /\ DOMAIN AllocationsOf(c)' = DOMAIN alloc
      /\ AllocationsOf(c)'[a] = alloc[a]
      /\ ~overlapped => LinesAddUp(EntriesOf(c)', AllocationsOf(c)', {})
  BY <1>1, <1>4, IdleSees
<1>6. written'[c].alloc = Nothing
  BY <1>4 DEF NothingWritten
<1> QED
  BY <1>1, <1>3, <1>5, <1>6, QuietStart

LEMMA RematchKeeps ==
  ASSUME RepairIInv, IInv', PaymentsAssumption, NEW c \in Clients, NEW b \in Entries, Rematch(c, b)
  PROVE  RepairIInv'
<1> DEFINE r == [Free EXCEPT !.op = "match", !.step = "match", !.todo = {b}]
<1>1. /\ Start(c, r) /\ loaded' = loaded /\ written' = written /\ b \in DOMAIN entry
      /\ ~Busy(c) /\ db' = db
  BY DEF Rematch, Start
<1>2. r \in Request /\ r.op = "match" /\ r.step = "match" /\ r.todo = {b}
  <2>1. Free \in Request /\ {b} \in SUBSET Entries
    BY FreeIsRequest
  <2> QED
    BY <2>1, MatchIsRequest
<1> HIDE DEF r
<1>3. written'[c] = NothingWritten
  BY <1>1, IdleViews
<1>4. /\ Tables(InvoicesOf(c)', EntriesOf(c)', AllocationsOf(c)')
      /\ DOMAIN EntriesOf(c)' = DOMAIN entry
      /\ ~overlapped => LinesAddUp(EntriesOf(c)', AllocationsOf(c)', {})
  BY <1>1, <1>3, IdleSees
<1>5. written'[c].alloc = Nothing
  BY <1>3 DEF NothingWritten
<1> QED
  BY <1>1, <1>2, <1>4, <1>5, QuietStart

LEMMA PayKeeps ==
  ASSUME RepairIInv, IInv', PaymentsAssumption, NEW c \in Clients, NEW i \in Invoices,
         NEW gross \in Amounts, NEW amount \in Amounts \union {0},
         UpdateInvoiceAndPay(c, i, gross, amount)
  PROVE  RepairIInv'
<1> DEFINE r == [Free EXCEPT !.op = "form", !.step = "form", !.entry = CashEntry[i],
                             !.invoice = i, !.amount = amount]
           row == [invoice[i] EXCEPT !.gross = gross]
<1>1. /\ Start(c, r) /\ loaded' = loaded /\ ~Busy(c) /\ db' = db
      /\ written' = [written EXCEPT ![c].invoice = Only(i, row)]
      /\ DOMAIN written = Clients
  BY DEF UpdateInvoiceAndPay, Start, RepairIInv, IInv, Shapes
<1>2. /\ r \in Request /\ r.op = "form" /\ r.step = "form" /\ r.todo = {} /\ r.invoice = i
      /\ r.entry = CashEntry[i]
  <2>1. CashEntry[i] \in Entries /\ amount \in Nat
    BY DEF PaymentsAssumption
  <2>2. Free \in Request /\ Free.todo = {}
    BY FreeIsRequest DEF Free
  <2> QED
    BY <2>1, <2>2 DEF Request
<1> HIDE DEF r
<1>3. written[c] = NothingWritten /\ Tables(invoice, entry, alloc)
  BY <1>1, IdleViews DEF RepairIInv, TypeOK, Tables
<1>4. row \in InvoiceRow
  BY <1>3, OtherGross DEF Tables
<1> HIDE DEF row
<1>5. /\ written'[c].alloc = Nothing /\ written'[c].entry = Nothing
      /\ written'[c].invoice = Only(i, row)
      /\ \A x \in Clients \ {c} : written'[x] = written[x]
  BY <1>1, <1>3 DEF NothingWritten
<1>6. /\ InvoicesOf(c)' = Over(Only(i, row), invoice)
      /\ EntriesOf(c)' = EntriesOf(c) /\ AllocationsOf(c)' = AllocationsOf(c)
      /\ EntriesOf(c) = Over(Nothing, entry) /\ AllocationsOf(c) = Over(Nothing, alloc)
  BY <1>1, <1>3, <1>5 DEF InvoicesOf, EntriesOf, AllocationsOf, NothingWritten, db, Over
<1>7. Tables(InvoicesOf(c)', EntriesOf(c)', AllocationsOf(c)')
  <2>1. Over(Only(i, row), invoice) \in [Invoices -> InvoiceRow]
    BY <1>3, <1>4 DEF Over, Only, Tables
  <2>2. Tables(Over(Nothing, invoice), EntriesOf(c), AllocationsOf(c))
    BY <1>3, <1>6, TablesNothing
  <2> QED
    BY <1>6, <2>1, <2>2 DEF Tables
<1>8. ~overlapped => LinesAddUp(EntriesOf(c)', AllocationsOf(c)', {})
  BY <1>1, <1>6, IdleViews
<1> QED
  BY <1>1, <1>2, <1>5, <1>7, <1>8, QuietStart

LEMMA ImportKeeps ==
  ASSUME RepairIInv, IInv', PaymentsAssumption, NEW c \in Clients, NEW lines \in SUBSET BankLines,
         ImportCsv(c, lines)
  PROVE  RepairIInv'
<1> DEFINE new == lines \ DOMAIN entry
           rows == [b \in new |-> NewEntry(Statement[b])]
           r == [Free EXCEPT !.op = "match", !.step = "match", !.todo = new]
<1>1. /\ Start(c, r) /\ loaded' = loaded /\ ~Busy(c) /\ db' = db
      /\ written' = [written EXCEPT ![c].entry = rows]
      /\ DOMAIN written = Clients
  BY DEF ImportCsv, Start, RepairIInv, IInv, Shapes
<1>2. new \subseteq Entries /\ new \subseteq BankLines /\ new \intersect DOMAIN entry = {}
      /\ \A b \in new : rows[b] \in EntryRow /\ rows[b].amount = rows[b].remaining /\ rows[b].amount \in Nat
  BY DEF PaymentsAssumption, NewEntry, EntryRow, MatchStatuses
<1>3. /\ r \in Request /\ r.op = "match" /\ r.step = "match" /\ r.todo = new
  BY <1>2, FreeIsRequest, MatchIsRequest
<1>4. DOMAIN rows = new
  OBVIOUS
<1> HIDE DEF r, new, rows
<1>5. written[c] = NothingWritten /\ Tables(invoice, entry, alloc)
  BY <1>1, IdleViews DEF RepairIInv, TypeOK, Tables
<1>6. /\ written'[c].alloc = Nothing /\ written'[c].invoice = Nothing
      /\ written'[c].entry = rows
      /\ \A x \in Clients \ {c} : written'[x] = written[x]
  BY <1>1, <1>5 DEF NothingWritten
<1>7. /\ InvoicesOf(c)' = Over(Nothing, invoice) /\ EntriesOf(c)' = Over(rows, entry)
      /\ AllocationsOf(c)' = Over(Nothing, alloc) /\ AllocationsOf(c) = Over(Nothing, alloc)
      /\ EntriesOf(c) = Over(Nothing, entry)
  BY <1>1, <1>5, <1>6 DEF InvoicesOf, EntriesOf, AllocationsOf, NothingWritten, db, Over
<1>8. /\ DOMAIN Over(rows, entry) = new \union DOMAIN entry
      /\ \A b \in new : Over(rows, entry)[b] = rows[b]
      /\ \A b \in DOMAIN entry : Over(rows, entry)[b] = entry[b] /\ Over(Nothing, entry)[b] = entry[b]
      /\ DOMAIN Over(Nothing, entry) = DOMAIN entry
  BY <1>2, <1>4 DEF Over, Nothing
<1>9. Tables(InvoicesOf(c)', EntriesOf(c)', AllocationsOf(c)')
  <2>1. Tables(Over(Nothing, invoice), Over(Nothing, entry), Over(Nothing, alloc))
    BY <1>5, TablesNothing
  <2> QED
    BY <1>2, <1>5, <1>7, <1>8, <2>1 DEF Tables
<1>10. ASSUME ~overlapped PROVE LinesAddUp(EntriesOf(c)', AllocationsOf(c)', {})
  <2>1. LinesAddUp(EntriesOf(c), AllocationsOf(c), {}) /\ AllocationsOf(c)' = AllocationsOf(c)
    BY <1>1, <1>7, <1>10, IdleViews
  <2>2. \A a \in DOMAIN AllocationsOf(c) : AllocationsOf(c)[a].entry \in DOMAIN entry
    BY <1>5, <1>7, <1>8, TablesNothing DEF Tables
  <2>3. ASSUME NEW b \in BankLines \intersect DOMAIN EntriesOf(c)'
        PROVE  /\ \A a \in DOMAIN AllocationsOf(c) : AllocationsOf(c)[a].entry = b => AllocationsOf(c)[a].amount >= 0
               /\ Allocated(AllocationsOf(c), "entry", b) <= EntriesOf(c)'[b].amount
               /\ EntriesOf(c)'[b].remaining = EntriesOf(c)'[b].amount - Allocated(AllocationsOf(c), "entry", b)
    <3>1. CASE b \in new
      <4>1. ActiveFor(AllocationsOf(c), "entry", b) = {}
        BY <1>2, <2>2, <3>1 DEF ActiveFor
      <4>2. Allocated(AllocationsOf(c), "entry", b) = 0
        BY <4>1, AllocatedNone
      <4> QED
        BY <1>2, <1>7, <1>8, <2>2, <3>1, <4>2
    <3>2. CASE b \in DOMAIN entry
      BY <1>7, <1>8, <2>1, <3>2 DEF LinesAddUp
    <3> QED
      BY <1>7, <1>8, <3>1, <3>2
  <2> QED
    BY <2>1, <2>3 DEF LinesAddUp
<1> QED
  BY <1>1, <1>3, <1>6, <1>7, <1>8, <1>9, <1>10, QuietStart

-----------------------------------------------------------------------------
(* The invariant *)

LEMMA RepairInit ==
  ASSUME PaymentsAssumption, Init
  PROVE  RepairIInv
<1>1. /\ invoice \in [Invoices -> [gross: Amounts, status: {"unpaid"}]] /\ entry = Nothing
      /\ alloc = Nothing /\ requests = 0 /\ overlapped = FALSE /\ settled = Invoices
      /\ work = [c \in Clients |-> Free] /\ loaded = [c \in Clients |-> NothingLoaded]
      /\ written = [c \in Clients |-> NothingWritten]
  BY DEF Init
<1>2. \A i \in Invoices : invoice[i] \in InvoiceRow /\ invoice[i].status = "unpaid"
  BY <1>1 DEF InvoiceRow, PaymentStatuses
<1>3. DOMAIN entry = {} /\ DOMAIN alloc = {}
  BY <1>1 DEF Nothing
<1>4. TypeOK
  <2>1. invoice \in [Invoices -> InvoiceRow]
    BY <1>1, <1>2
  <2>2. work \in [Clients -> Request]
    BY <1>1, FreeIsRequest
  <2>3. requests \in 0..MaxRequests
    BY <1>1 DEF PaymentsAssumption
  <2> QED
    BY <1>1, <1>3, <2>1, <2>2, <2>3 DEF TypeOK
<1>5. ASSUME NEW c \in Clients PROVE RequestIsTyped(c) /\ AloneIsAlone(c) /\ ~Busy(c)
  <2>1. ~Busy(c) /\ written[c] = NothingWritten /\ loaded[c] = NothingLoaded /\ work[c] = Free
    BY <1>1 DEF Busy, Free
  <2>2. ViewIsTyped(c)
    <3>1. Tables(invoice, entry, alloc)
      BY <1>4 DEF TypeOK, Tables
    <3> QED
      BY <2>1, <3>1, TablesNothing, ViewIs DEF InvoicesOf, EntriesOf, AllocationsOf, NothingWritten
  <2>3. ObjectsAreTyped(c)
    BY <2>1 DEF ObjectsAreTyped, KnowsEntry, KnowsInvoice
  <2>4. IsOfRows(c)
    BY <2>1 DEF IsOfRows, Free, StepsOf, Busy, At
  <2>5. AloneIsAlone(c)
    BY <2>1 DEF AloneIsAlone
  <2> QED
    BY <2>1, <2>2, <2>3, <2>4, <2>5 DEF RequestIsTyped
<1>6. SettledIsRight
  <2>1. ASSUME NEW i \in Invoices
        PROVE  invoice[i].status = PaymentStatus(invoice[i].gross, Allocated(alloc, "invoice", i))
    <3>1. Allocated(alloc, "invoice", i) = 0
      BY <1>3, AllocatedNone DEF ActiveFor
    <3>2. invoice[i].gross \in Int
      BY <1>2 DEF InvoiceRow, PaymentsAssumption
    <3> QED
      BY <1>2, <3>1, <3>2 DEF PaymentStatus
  <2> QED
    BY <1>3, <2>1 DEF SettledIsRight
<1>7. LinesAddUp(entry, alloc, {})
  BY <1>3 DEF LinesAddUp
<1>8. IInv
  BY IInvInit
<1> QED
  BY <1>1, <1>4, <1>5, <1>6, <1>7, <1>8 DEF RepairIInv

LEMMA RepairStutters ==
  ASSUME RepairIInv, IInv', UNCHANGED vars
  PROVE  RepairIInv'
<1>1. /\ db' = db /\ work' = work /\ loaded' = loaded /\ written' = written
      /\ requests' = requests /\ overlapped' = overlapped /\ settled' = settled
  BY DEF vars, history
<1>2. TypeOK'
  BY <1>1 DEF RepairIInv, TypeOK, db
<1>3. ASSUME NEW c \in Clients PROVE RequestIsTyped(c)' /\ AloneIsAlone(c)'
  BY <1>1, SameTyped DEF RepairIInv, SameRequest, AloneIsAlone, Busy
<1>4. ASSUME NEW c \in Clients, Busy(c)', work'[c].alone PROVE Repairs(c)'
  BY <1>1, <1>4, SameRepairs DEF RepairIInv, Busy
<1> QED
  BY <1>1, <1>2, <1>3, <1>4, SettledStays, LinesStay DEF RepairIInv

LEMMA RepairStep ==
  ASSUME PaymentsAssumption, RepairIInv, [Next]_vars
  PROVE  RepairIInv'
<1>1. IInv'
  BY LocksStay DEF RepairIInv
<1>2. ASSUME NEW c \in Clients, Begin(c) PROVE RepairIInv'
  BY <1>1, <1>2, AllocateManualKeeps, ReverseKeeps, ImportKeeps, RematchKeeps, PayKeeps DEF Begin
<1>3. ASSUME NEW c \in Clients, Step(c) PROVE RepairIInv'
  <2>1. CASE ReadSum(c) \/ WriteEntry(c) \/ ReadPaid(c) \/ WriteInvoice(c) \/ MarkReversed(c)
    BY <1>1, <2>1, ReadSumKeeps, WriteEntryKeeps, ReadPaidKeeps, WriteInvoiceKeeps, MarkReversedKeeps
  <2>2. CASE \E a \in Allocations, b \in Entries, i \in Invoices : AutoMatch(c, a, b, i)
    BY <1>1, <2>2, AutoMatchKeeps
  <2>3. CASE \E b \in Entries : Leave(c, b)
    BY <1>1, <2>3, LeaveKeeps
  <2>4. CASE FormHasNone(c) \/ \E a \in Allocations : FormHasOne(c, a) \/ Renew(c, a)
    BY <1>1, <2>4, FormHasNoneKeeps, FormHasOneKeeps, RenewKeeps
  <2> QED
    BY <1>3, <2>1, <2>2, <2>3, <2>4 DEF Step
<1>4. ASSUME NEW c \in Clients, Rollback(c) PROVE RepairIInv'
  BY <1>1, <1>4, RollbackKeeps
<1>5. ASSUME NEW i \in Invoices, NEW gross \in Amounts, UpdateInvoice(i, gross) PROVE RepairIInv'
  BY <1>1, <1>5, UpdateKeeps
<1>6. CASE UNCHANGED vars
  BY <1>1, <1>6, RepairStutters
<1> QED
  BY <1>2, <1>3, <1>4, <1>5, <1>6 DEF Next

\* A request that is alone knows its rows as they are and repairs them: the
\* inductive invariant of what follows.
THEOREM RepairHolds == Spec => []RepairIInv
<1>1. Init => RepairIInv
  BY RepairInit, PaymentsAssumption
<1>2. RepairIInv /\ [Next]_vars => RepairIInv'
  BY RepairStep, PaymentsAssumption
<1> QED
  BY <1>1, <1>2, PTL DEF Spec

\* Rows, requests and objects have their types, whatever overlaps.
THEOREM TypesHold == Spec => []TypeOK
<1>1. RepairIInv => TypeOK
  BY DEF RepairIInv
<1> QED
  BY <1>1, RepairHolds, PTL

\* After a request that was alone, what is left of the entries it allocated,
\* their match status, their place in the list of unmatched transactions and
\* the status of the invoices are those of the allocations.
THEOREM SettledHolds == Spec => []SettledIsRight
<1>1. RepairIInv => SettledIsRight
  BY DEF RepairIInv
<1> QED
  BY <1>1, RepairHolds, PTL

\* The summary of the open invoices and the settlements tell the same debt.
THEOREM SameDebt == Spec => []DebtsAgree
<1>1. RepairIInv => DebtsAgree
  BY DebtsAgreeIfSettledIsRight, PaymentsAssumption DEF RepairIInv
<1> QED
  BY <1>1, RepairHolds, PTL

\* While no two requests overlap, no more of a bank line is allocated than
\* there is.
THEOREM LinesAreNotOverdrawn == Spec => []BankLineIsNotOverdrawn
<1>1. RepairIInv => BankLineIsNotOverdrawn
  BY DEF RepairIInv, LinesAddUp, BankLineIsNotOverdrawn
<1> QED
  BY <1>1, RepairHolds, PTL

\* Only the end of c's own request frees it and changes the tables.
LEMMA EndsItself ==
  ASSUME RepairIInv, Next, NEW c \in Clients, Busy(c), work'[c] = Free, db' # db,
         work[c].op = "allocate"
  PROVE  WriteInvoice(c) /\ \A w : Continue(c, w) => Commit(c, w)
<1>1. work \in [Clients -> Request] /\ ~(work'[c].op # "none")
  BY DEF RepairIInv, TypeOK, Free
<1>2. ASSUME NEW i \in Invoices, NEW gross \in Amounts, UpdateInvoice(i, gross) PROVE FALSE
  <2>1. work'[c] = [work[c] EXCEPT !.alone = FALSE]
    BY <1>2 DEF UpdateInvoice
  <2> QED
    BY <1>1, <2>1 DEF Busy, Request
<1>3. PICK x \in Clients : WriteInvoice(x) \/ FormHasNone(x)
                           \/ (\E a \in Allocations : FormHasOne(x, a)) \/ \E b \in Entries : Leave(x, b)
  <2>1. ASSUME NEW x \in Clients, Begin(x) PROVE db' = db
    BY <2>1 DEF Begin, AllocateManual, ReverseAllocation, ImportCsv, Rematch, UpdateInvoiceAndPay, Start
  <2>2. ASSUME NEW x \in Clients, Rollback(x) PROVE db' = db
    BY <2>2 DEF Rollback
  <2>3. ASSUME NEW x \in Clients,
               \/ ReadSum(x) \/ WriteEntry(x) \/ ReadPaid(x) \/ MarkReversed(x)
               \/ (\E a \in Allocations, b \in Entries, i \in Invoices : AutoMatch(x, a, b, i))
               \/ \E a \in Allocations : Renew(x, a)
        PROVE  db' = db
    BY <2>3 DEF ReadSum, WriteEntry, ReadPaid, MarkReversed, AutoMatch, Renew
  <2> QED
    BY <1>2, <2>1, <2>2, <2>3 DEF Next, Step
<1>4. PICK w : Commit(x, w)
  <2>1. CASE WriteInvoice(x)
    BY <2>1 DEF WriteInvoice, Continue
  <2>2. CASE FormHasNone(x)
    BY <2>2 DEF FormHasNone
  <2>3. CASE \E a \in Allocations : FormHasOne(x, a)
    BY <2>3 DEF FormHasOne
  <2>4. CASE \E b \in Entries : Leave(x, b)
    BY <2>4 DEF Leave
  <2> QED
    BY <1>3, <2>1, <2>2, <2>3, <2>4
<1>5. x = c
  <2>1. work' = [work EXCEPT ![x] = Free]
    BY <1>4 DEF Commit, Finish
  <2> QED
    BY <1>1, <2>1 DEF Busy
<1>6. RequestIsTyped(c)
  BY DEF RepairIInv
<1>7. ~At(c, "form") /\ ~At(c, "match")
  BY <1>6 DEF RequestIsTyped, IsOfRows, StepsOf, At, Sums
<1>8. WriteInvoice(c)
  BY <1>3, <1>5, <1>7 DEF FormHasNone, FormHasOne, Leave
<1> QED
  BY <1>8 DEF Continue

\* After a request that was alone, the payment entered in the form is booked: an
\* active allocation of the invoice's cash entry carries its amount, and the
\* invoice is not overpaid.  Parts of that entry which were allocated to the
\* invoice by hand may stand beside it.
THEOREM FormIsBooked == Spec => FormPaymentIsAsEntered
<1> DEFINE Booked ==
      \A c \in Clients :
        /\ Busy(c) /\ work'[c] = Free /\ db' # db
        /\ work[c].op = "allocate" /\ work[c].amount > 0 /\ work[c].alone
        => LET i == work[c].invoice IN
           /\ Allocated(alloc', "invoice", i) <= invoice'[i].gross
           /\ \E a \in ActiveFor(alloc', "entry", CashEntry[i]) :
                alloc'[a].invoice = i /\ alloc'[a].amount = work[c].amount
<1>1. RepairIInv /\ [Next]_vars => [Booked]_vars
  <2> SUFFICES ASSUME RepairIInv, Next, NEW c \in Clients,
                      Busy(c), work'[c] = Free, db' # db,
                      work[c].op = "allocate", work[c].amount > 0, work[c].alone
               PROVE  LET i == work[c].invoice IN
                      /\ Allocated(alloc', "invoice", i) <= invoice'[i].gross
                      /\ \E a \in ActiveFor(alloc', "entry", CashEntry[i]) :
                           alloc'[a].invoice = i /\ alloc'[a].amount = work[c].amount
    OBVIOUS
  <2> DEFINE i == work[c].invoice
  <2>1. WriteInvoice(c) /\ \A w : Continue(c, w) => Commit(c, w)
    BY EndsItself
  <2>2. PICK w : StatusWritten(c, w) /\ Commit(c, w)
    BY <2>1, StatusIsWritten, PaymentsAssumption
  <2>3. /\ invoice' = Over(w.invoice, invoice) /\ alloc' = AllocationsOf(c)
        /\ invoice'[i] = InvoiceAfter(c)
    BY <2>2 DEF Commit, StatusWritten, AllocationsOf
  <2>4. /\ At(c, "invoice") /\ LoadedIsCurrent(c) /\ FormHasRoom(c) /\ RequestIsTyped(c)
    BY <2>1 DEF RepairIInv, Repairs, WriteInvoice
  <2>5. /\ i \in Invoices /\ InvoicesOf(c)[i] \in InvoiceRow
        /\ invoice'[i].gross = InvoicesOf(c)[i].gross
    <3>1. loaded[c].invoice = InvoicesOf(c)[i]
      BY <2>4 DEF LoadedIsCurrent, KnowsInvoice, At
    <3> QED
      BY <2>3, <2>4, <3>1, InvoiceAfterIs, PaymentsAssumption
  <2>6. /\ InvoicesOf(c)[i].gross - Allocated(AllocationsOf(c), "invoice", i) >= 0
        /\ \E a \in ActiveFor(AllocationsOf(c), "entry", CashEntry[i]) :
             AllocationsOf(c)[a].invoice = i /\ AllocationsOf(c)[a].amount = work[c].amount
    BY <2>4 DEF FormHasRoom
  <2>7. Allocated(AllocationsOf(c), "invoice", i) \in Int /\ InvoicesOf(c)[i].gross \in Int
    BY <2>4, <2>5, ViewSums, PaymentsAssumption DEF RequestIsTyped, InvoiceRow, PaymentsAssumption
  <2>8. Allocated(alloc', "invoice", i) <= invoice'[i].gross
    BY <2>3, <2>5, <2>6, <2>7
  <2> QED
    BY <2>3, <2>6, <2>8
<1> QED
  BY <1>1, RepairHolds, PTL DEF FormPaymentIsAsEntered, Spec
=============================================================================
