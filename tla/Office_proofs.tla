---------------------------- MODULE Office_proofs ----------------------------
(***************************************************************************)
(* Proofs about Invoicing, for any invoices, months and requests, and      *)
(* about Stock, for any products, requests, quantities and movements,      *)
(* which share no table: when a local number is on one invoice only and    *)
(* the numbers of a month have no gap; that movements which do not overlap *)
(* leave what the log adds up to, and none less than nothing.              *)
(***************************************************************************)
EXTENDS Invoicing, Stock, FiniteSetTheorems, TLAPS

LEMMA CountType == \A m \in Months : NextSequenceNumber(m) \in Nat \ {0}
<1> TAKE m \in Months
<1>1. IsFiniteSet(OfMonth(m))
  BY InvoicingAssumption, FS_Subset DEF OfMonth
<1>2. Cardinality(OfMonth(m)) \in Nat
  BY <1>1, FS_CardinalityType
<1> QED
  BY <1>2 DEF NextSequenceNumber

LEMMA InitHolds == Init => IInv
<1> SUFFICES ASSUME Init PROVE IInv
  OBVIOUS
<1>1. TypeOK
  BY InvoicingAssumption DEF Init, TypeOK, Work, Idle
<1>2. \A c \in Clients : ~Numbering(c) /\ work[c].step # "again"
  BY DEF Init, Idle, Numbering
<1>3. \A i \in Invoices : ~Exists(i)
  BY DEF Init, Exists
<1> QED
  BY <1>1, <1>2, <1>3 DEF IInv, NumberingHoldsTheLock, RacesAreKnown, IssuedIsNumber,
       ImportedIsSent, NumbersAreUnique, SentIsNumbered, Issued, Numbered

-----------------------------------------------------------------------------
(* Steps that leave the rows alone: one request counts, checks, or goes.    *)

\* What the requests hold, apart from who holds it.
Holding == TypeOK /\ NumberingHoldsTheLock /\ RacesAreKnown

LEMMA CountKeeps ==
  ASSUME Holding, NEW c \in Clients, NEW i \in Invoices, NEW submit \in BOOLEAN,
         NEW attempt \in 1..MAX_RETRIES,
         Exists(i), ~Locked(i), ~Numbering(c), row[i].status = "ready",
         row[i].number = NoNumber, ~row[i].imported, submit => i \in Sale,
         CountMonth(c, i, submit, attempt)
  PROVE  Holding'
<1> DEFINE m == row[i].month
           w == [step |-> "counted", invoice |-> i, submit |-> submit,
                 next |-> NextSequenceNumber(m), attempt |-> attempt]
<1>1. m \in Months
  BY DEF Holding, TypeOK, Exists, Row
<1>2. w \in Work /\ w.next # 0
  BY <1>1, CountType DEF Work
<1>3. work' = [work EXCEPT ![c] = w] /\ row' = row
  BY DEF CountMonth
<1>t. trouble' = IF \E d \in Clients \ {c} : Numbering(d) /\ MonthOf(d) = m
                 THEN [trouble EXCEPT ![m] = @ \union {"raced"}] ELSE trouble
  BY DEF CountMonth
<1> HIDE DEF w
<1>4. TypeOK'
  BY <1>1, <1>2, <1>3, <1>t DEF Holding, TypeOK
<1>5. work'[c] = w /\ \A d \in Clients \ {c} : work'[d] = work[d]
  BY <1>3 DEF Holding, TypeOK
<1>6. w.step = "counted" /\ w.invoice = i /\ w.submit = submit
  BY DEF w
<1>7. /\ Numbering(c)' /\ MonthOf(c)' = m
      /\ \A d \in Clients \ {c} : Numbering(d)' = Numbering(d) /\ MonthOf(d)' = MonthOf(d)
                                  /\ Candidate(d)' = Candidate(d)
  BY <1>3, <1>5, <1>6 DEF Numbering, MonthOf, Candidate
<1>8. \A d \in Clients \ {c} : Numbering(d) => work[d].invoice # i
  BY DEF Locked
<1>9. NumberingHoldsTheLock'
  BY <1>2, <1>3, <1>5, <1>6, <1>7, <1>8 DEF Holding, NumberingHoldsTheLock, Exists
<1>10. ASSUME NEW d \in Clients, Numbering(d)', "raced" \notin trouble'[MonthOf(d)']
       PROVE  /\ \A e \in Clients : ~(Numbering(e)' /\ MonthOf(e)' = MonthOf(d)') \/ e = d
              /\ work'[d].step = "checked" =>
                   \A j \in Invoices : Issued(j)' => row'[j].number # Candidate(d)'
  <2>1. MonthOf(d)' \in Months
    <3>1. CASE d = c
      BY <3>1, <1>1, <1>7
    <3>2. CASE d # c
      <4>1. Numbering(d) /\ MonthOf(d)' = MonthOf(d)
        BY <1>7, <1>10, <3>2
      <4> QED
        BY <4>1, <3>2 DEF Holding, TypeOK, NumberingHoldsTheLock, MonthOf, Exists, Row
    <3> QED
      BY <3>1, <3>2
  <2>2. "raced" \notin trouble[MonthOf(d)']
    BY <1>1, <1>t, <1>10, <2>1 DEF Holding, TypeOK
  <2>3. CASE \E e \in Clients \ {c} : Numbering(e) /\ MonthOf(e) = m
    <3>1. "raced" \in trouble'[m]
      BY <1>1, <1>t, <2>3 DEF Holding, TypeOK
    <3>2. d # c /\ MonthOf(d)' # m
      BY <3>1, <1>7, <1>10
    <3> QED
      BY <3>2, <2>2, <1>3, <1>5, <1>7, <1>10
         DEF Holding, RacesAreKnown, Issued, Numbered, Exists
  <2>4. CASE ~\E e \in Clients \ {c} : Numbering(e) /\ MonthOf(e) = m
    <3>1. CASE d = c
      BY <3>1, <2>4, <1>5, <1>6, <1>7
    <3>2. CASE d # c
      BY <3>2, <2>4, <2>2, <1>3, <1>5, <1>7, <1>10
         DEF Holding, RacesAreKnown, Issued, Numbered, Exists
    <3> QED
      BY <3>1, <3>2
  <2> QED
    BY <2>3, <2>4
<1>11. RacesAreKnown'
  BY <1>10 DEF RacesAreKnown
<1> QED
  BY <1>4, <1>9, <1>11 DEF Holding

\* A request that numbers nothing after the step, or tries again.
LEMMA LetGoKeeps ==
  ASSUME Holding, NEW c \in Clients, NEW w \in Work, row' = row, trouble' = trouble,
         work' = [work EXCEPT ![c] = w], w.step \in {"idle", "again"},
         w.step = "again" => Numbering(c) /\ w.invoice = work[c].invoice
  PROVE  Holding'
<1>1. TypeOK'
  BY DEF Holding, TypeOK
<1>2. work'[c] = w /\ \A d \in Clients \ {c} : work'[d] = work[d]
  BY DEF Holding, TypeOK
<1>3. /\ ~Numbering(c)'
      /\ \A d \in Clients \ {c} : Numbering(d)' = Numbering(d) /\ MonthOf(d)' = MonthOf(d)
                                  /\ Candidate(d)' = Candidate(d)
  BY <1>2 DEF Numbering, MonthOf, Candidate
<1>4. NumberingHoldsTheLock'
  BY <1>2, <1>3 DEF Holding, NumberingHoldsTheLock, Exists
<1>5. RacesAreKnown'
  BY <1>2, <1>3 DEF Holding, RacesAreKnown, Issued, Numbered, Exists
<1> QED
  BY <1>1, <1>4, <1>5 DEF Holding

LEMMA TryAgainKeeps ==
  ASSUME Holding, NEW c \in Clients, Numbering(c), TryAgain(c)
  PROVE  Holding'
<1>1. CASE work[c].submit \/ work[c].attempt = MAX_RETRIES
  <2>1. Idle \in Work /\ Idle.step = "idle"
    BY InvoicingAssumption DEF Idle, Work
  <2>2. work' = [work EXCEPT ![c] = Idle] /\ row' = row /\ trouble' = trouble
    BY <1>1 DEF TryAgain, Finish
  <2>3. Idle.step = "again" => Numbering(c) /\ Idle.invoice = work[c].invoice
    BY <2>1
  <2> QED
    BY <2>1, <2>2, <2>3, LetGoKeeps
<1>2. CASE ~(work[c].submit \/ work[c].attempt = MAX_RETRIES)
  <2> DEFINE w == [work[c] EXCEPT !.step = "again", !.attempt = @ + 1]
  <2>1. work[c] \in Work
    BY DEF Holding, TypeOK
  <2>2. w \in Work /\ w.step = "again" /\ w.invoice = work[c].invoice
    <3>1. work[c].attempt + 1 \in 1..MAX_RETRIES
      BY <1>2, <2>1, InvoicingAssumption DEF Work
    <3>2. \A a \in 1..MAX_RETRIES :
            LET x == [work[c] EXCEPT !.step = "again", !.attempt = a] IN
            x \in Work /\ x.step = "again" /\ x.invoice = work[c].invoice
      BY <2>1 DEF Work
    <3> QED
      BY <3>1, <3>2
  <2>3. work' = [work EXCEPT ![c] = w] /\ row' = row /\ trouble' = trouble
    BY <1>2, <2>1 DEF TryAgain, Holding, TypeOK
  <2> HIDE DEF w
  <2> QED
    BY <2>2, <2>3, LetGoKeeps
<1> QED
  BY <1>1, <1>2

LEMMA CheckKeeps ==
  ASSUME Holding, NEW c \in Clients, CheckNumber(c)
  PROVE  Holding'
<1>0. Numbering(c)
  BY DEF CheckNumber, Numbering
<1>1. CASE ExistsByNumber(Candidate(c))
  BY <1>0, <1>1, TryAgainKeeps DEF CheckNumber
<1>2. CASE ~ExistsByNumber(Candidate(c))
  <2>1. work' = [work EXCEPT ![c].step = "checked"] /\ row' = row /\ trouble' = trouble
    BY <1>2 DEF CheckNumber, Become
  <2>2. TypeOK'
    BY <2>1 DEF Holding, TypeOK, Work
  <2>3. /\ work'[c] = [work[c] EXCEPT !.step = "checked"]
        /\ \A d \in Clients \ {c} : work'[d] = work[d]
    BY <2>1 DEF Holding, TypeOK
  <2>4. \A d \in Clients : /\ Numbering(d)' = Numbering(d) /\ MonthOf(d)' = MonthOf(d)
                           /\ Candidate(d)' = Candidate(d)
                           /\ work'[d].invoice = work[d].invoice
                           /\ work'[d].submit = work[d].submit
                           /\ work'[d].next = work[d].next
    <3>1. work[c] \in Work
      BY DEF Holding, TypeOK
    <3> QED
      BY <1>0, <2>1, <2>3, <3>1 DEF Numbering, MonthOf, Candidate, Work
  <2>5. NumberingHoldsTheLock'
    BY <2>1, <2>3, <2>4 DEF Holding, NumberingHoldsTheLock, Exists
  <2>6. \A i \in Invoices : Issued(i) => row[i].number # Candidate(c)
    BY <1>2 DEF ExistsByNumber, Issued, Numbered
  <2>7. RacesAreKnown'
    BY <2>1, <2>3, <2>4, <2>6 DEF Holding, RacesAreKnown, Issued, Numbered, Exists
  <2> QED
    BY <2>2, <2>5, <2>7 DEF Holding
<1> QED
  BY <1>1, <1>2

-----------------------------------------------------------------------------
(* Steps that write a row.                                                  *)

\* What the numbers promise.
Given == IssuedIsNumber /\ ImportedIsSent /\ NumbersAreUnique /\ SentIsNumbered

\* What a step may not do to the number of an invoice.
NumbersKept ==
  \A i \in Invoices : Numbered(i) => Exists(i)' /\ row'[i].number = row[i].number

LEMMA Parts == IInv <=> Holding /\ Given
BY DEF IInv, Holding, Given

\* A row that no request is numbering gets r; no number of ours is new or
\* lost, and what is known of races stays known.
Rewritten(i, r) ==
  /\ row' = [row EXCEPT ![i] = r] /\ r \in Row
  /\ work' = work
  /\ trouble' \in [Months -> SUBSET {"raced", "disturbed"}]
  /\ \A m \in Months : trouble[m] \subseteq trouble'[m]
  /\ ~Locked(i)
  /\ IF Exists(i) THEN r.number = row[i].number /\ r.imported = row[i].imported
     ELSE r.imported \/ r.number = NoNumber
  /\ i \in Sale /\ r.status # "ready" => r.number # NoNumber
  /\ r.imported => r.status = "sent"

LEMMA RewriteKeeps ==
  ASSUME Holding, Given, NEW i \in Invoices, NEW r, Rewritten(i, r)
  PROVE  Holding' /\ Given' /\ NumbersKept
<1>1. row'[i] = r /\ \A j \in Invoices \ {i} : row'[j] = row[j]
  BY DEF Holding, TypeOK, Rewritten
<1>2. TypeOK'
  BY DEF Holding, TypeOK, Rewritten
<1>3. r # NoRow /\ Exists(i)' /\ \A j \in Invoices \ {i} : Exists(j)' = Exists(j)
  BY <1>1, RowAssumption DEF Rewritten, Exists
<1>4. \A j \in Invoices : Issued(j)' => Issued(j) /\ row'[j].number = row[j].number
  BY <1>1, <1>3 DEF Rewritten, Issued, Numbered, Exists
<1>5. \A c \in Clients : Numbering(c) => work[c].invoice \in Invoices \ {i}
  BY DEF Rewritten, Locked, Holding, NumberingHoldsTheLock
<1>6. \A c \in Clients : /\ Numbering(c)' = Numbering(c)
                         /\ Numbering(c) => /\ MonthOf(c)' = MonthOf(c)
                                            /\ Candidate(c)' = Candidate(c)
                                            /\ MonthOf(c) \in Months
  BY <1>1, <1>5
     DEF Rewritten, Numbering, MonthOf, Candidate, Holding, NumberingHoldsTheLock, TypeOK, Exists, Row
<1>7. NumberingHoldsTheLock'
  BY <1>1, <1>3, <1>5, <1>6 DEF Holding, NumberingHoldsTheLock, Rewritten
<1>8. RacesAreKnown'
  BY <1>4, <1>6 DEF Holding, RacesAreKnown, Rewritten
<1>9. IssuedIsNumber'
  BY <1>4 DEF Given, IssuedIsNumber
<1>10. NumbersAreUnique'
  <2> SUFFICES ASSUME NEW j \in Invoices, NEW k \in Invoices, Issued(j)', Issued(k)',
                      row'[j].number = row'[k].number, j # k
               PROVE  "raced" \in trouble'[row'[j].number[1]]
    BY DEF NumbersAreUnique
  <2>1. /\ Issued(j) /\ Issued(k) /\ row[j].number = row[k].number
        /\ row'[j].number = row[j].number
    BY <1>4
  <2>2. row[j].number[1] \in Months
    BY <2>1 DEF Given, IssuedIsNumber, Numbers
  <2> QED
    BY <2>1, <2>2 DEF Given, NumbersAreUnique, Rewritten
<1>11. SentIsNumbered'
  BY <1>1, <1>3 DEF Given, SentIsNumbered, Numbered, Rewritten
<1>12. ImportedIsSent'
  BY <1>1, <1>3 DEF Given, ImportedIsSent, Rewritten
<1>13. NumbersKept
  BY <1>1, <1>3 DEF NumbersKept, Rewritten, Numbered
<1> QED
  BY <1>2, <1>7, <1>8, <1>9, <1>10, <1>11, <1>12, <1>13 DEF Holding, Given

LEMMA CommitKeeps ==
  ASSUME Holding, Given, NEW c \in Clients, CommitNumber(c)
  PROVE  Holding' /\ Given' /\ NumbersKept
<1>0. PICK i \in Invoices : i = work[c].invoice
  BY DEF CommitNumber, Numbering, Holding, NumberingHoldsTheLock
<1>1. /\ Numbering(c) /\ Exists(i) /\ row[i].number = NoNumber
      /\ row[i].status = "ready" /\ ~row[i].imported /\ row[i] \in Row
      /\ work[c].next \in Nat \ {0} /\ work[c].submit \in BOOLEAN
  BY <1>0 DEF CommitNumber, Numbering, Holding, NumberingHoldsTheLock, TypeOK, Work, Exists
<1>2. MonthOf(c) \in Months /\ Candidate(c) \in Numbers
  BY <1>0, <1>1 DEF MonthOf, Candidate, Numbers, Row
<1>3. /\ row'[i] = [row[i] EXCEPT !.number = Candidate(c),
                                  !.status = IF work[c].submit THEN "sent" ELSE "ready"]
      /\ \A j \in Invoices \ {i} : row'[j] = row[j]
      /\ row' = [row EXCEPT ![i] = row'[i]]
  BY <1>0, <1>1 DEF CommitNumber, Holding, TypeOK
<1>4. /\ row'[i] \in Row /\ row'[i].number = Candidate(c) /\ ~row'[i].imported
      /\ row'[i].month = row[i].month
  BY <1>1, <1>2, <1>3 DEF Row
<1>5. work' = [work EXCEPT ![c] = Idle] /\ trouble' = trouble
  BY DEF CommitNumber, Finish
<1>6. Idle \in Work /\ Idle.step = "idle"
  BY InvoicingAssumption DEF Idle, Work
<1>7. TypeOK'
  BY <1>3, <1>4, <1>5, <1>6 DEF Holding, TypeOK
<1>8. work'[c] = Idle /\ \A d \in Clients \ {c} : work'[d] = work[d]
  BY <1>5 DEF Holding, TypeOK
<1>9. \A j \in Invoices : Exists(j)' = Exists(j)
  BY <1>1, <1>3, <1>4, RowAssumption DEF Exists
<1>n. Candidate(c) # NoNumber
  BY <1>2, InvoicingAssumption
<1>10. Issued(i)' /\ ~Issued(i) /\ \A j \in Invoices \ {i} : Issued(j)' = Issued(j)
  BY <1>1, <1>3, <1>4, <1>9, <1>n DEF Issued, Numbered
<1>11. /\ ~Numbering(c)'
       /\ \A d \in Clients \ {c} : Numbering(d)' = Numbering(d)
       /\ \A d \in Clients \ {c} : Numbering(d) =>
            work[d].invoice \in Invoices \ {i} /\ MonthOf(d)' = MonthOf(d)
            /\ Candidate(d)' = Candidate(d)
  BY <1>0, <1>1, <1>3, <1>6, <1>8 DEF Numbering, MonthOf, Candidate, Holding, NumberingHoldsTheLock
<1>12. NumberingHoldsTheLock'
  <2> SUFFICES ASSUME NEW d \in Clients
               PROVE  (/\ Numbering(d) =>
                           /\ work[d].invoice \in Invoices /\ Exists(work[d].invoice)
                           /\ row[work[d].invoice].status = "ready"
                           /\ row[work[d].invoice].number = NoNumber
                           /\ ~row[work[d].invoice].imported
                           /\ work[d].submit => work[d].invoice \in Sale
                           /\ work[d].next # 0
                           /\ \A e \in Clients \ {d} : Numbering(e) => work[e].invoice # work[d].invoice
                       /\ work[d].step = "again" =>
                            work[d].invoice \in Invoices /\ Exists(work[d].invoice)
                            /\ ~row[work[d].invoice].imported)'
    BY DEF NumberingHoldsTheLock
  <2>1. CASE d = c
    BY <2>1, <1>6, <1>8, <1>11
  <2>2. CASE d # c
    <3>1. work'[d] = work[d] /\ Numbering(d)' = Numbering(d)
      BY <2>2, <1>8, <1>11
    <3>2. \A j \in Invoices : Exists(j) =>
            row'[j] # NoRow /\ (row'[j].imported => row[j].imported)
      <4> SUFFICES ASSUME NEW j \in Invoices, Exists(j)
                   PROVE  row'[j] # NoRow /\ (row'[j].imported => row[j].imported)
        OBVIOUS
      <4>1. CASE j = i
        BY <4>1, <1>4, RowAssumption
      <4>2. CASE j # i
        BY <4>2, <1>3 DEF Exists
      <4> QED
        BY <4>1, <4>2
    <3>3. Numbering(d) => row'[work[d].invoice] = row[work[d].invoice]
      BY <1>3, <1>11, <2>2
    <3>4. \A e \in Clients \ {d} : Numbering(e)' => Numbering(e) /\ work'[e] = work[e]
      BY <1>8, <1>11
    <3> QED
      BY <2>2, <3>1, <3>2, <3>3, <3>4 DEF Holding, NumberingHoldsTheLock, Exists
  <2> QED
    BY <2>1, <2>2
<1>13. RacesAreKnown'
  <2> SUFFICES ASSUME NEW d \in Clients, Numbering(d)', "raced" \notin trouble'[MonthOf(d)']
               PROVE  /\ \A e \in Clients \ {d} : ~(Numbering(e)' /\ MonthOf(e)' = MonthOf(d)')
                      /\ work'[d].step = "checked" =>
                           \A j \in Invoices : Issued(j)' => row'[j].number # Candidate(d)'
    BY DEF RacesAreKnown
  <2>1. d # c /\ Numbering(d) /\ MonthOf(d)' = MonthOf(d) /\ Candidate(d)' = Candidate(d)
    BY <1>11
  <2>2. "raced" \notin trouble[MonthOf(d)]
    BY <1>5, <2>1
  <2>3. \A e \in Clients \ {d} : ~(Numbering(e) /\ MonthOf(e) = MonthOf(d))
    BY <2>1, <2>2 DEF Holding, RacesAreKnown
  <2>4. Candidate(d) # Candidate(c)
    BY <1>0, <1>1, <2>1, <2>3 DEF Candidate
  <2>5. \A e \in Clients \ {d} : ~(Numbering(e)' /\ MonthOf(e)' = MonthOf(d)')
    BY <1>11, <2>1, <2>3
  <2>6. work'[d].step = "checked" =>
          \A j \in Invoices : Issued(j)' => row'[j].number # Candidate(d)'
    BY <1>3, <1>4, <1>8, <1>10, <2>1, <2>2, <2>4 DEF Holding, RacesAreKnown
  <2> QED
    BY <2>5, <2>6
<1>14. IssuedIsNumber'
  BY <1>2, <1>3, <1>4, <1>10 DEF Given, IssuedIsNumber
<1>15. NumbersAreUnique'
  <2>1. \A j \in Invoices \ {i} :
          Issued(j) /\ row[j].number = Candidate(c) => "raced" \in trouble[Candidate(c)[1]]
    <3>1. work[c].step = "checked" /\ Candidate(c)[1] = MonthOf(c)
      BY DEF CommitNumber, Candidate
    <3> QED
      BY <1>1, <3>1 DEF Holding, RacesAreKnown
  <2> SUFFICES ASSUME NEW j \in Invoices, NEW k \in Invoices, Issued(j)', Issued(k)',
                      row'[j].number = row'[k].number, j # k
               PROVE  "raced" \in trouble'[row'[j].number[1]]
    BY DEF NumbersAreUnique
  <2>2. CASE j # i /\ k # i
    <3>1. Issued(j) /\ Issued(k) /\ row'[j] = row[j] /\ row'[k] = row[k]
      BY <1>3, <1>10, <2>2
    <3> QED
      BY <3>1, <1>5 DEF Given, NumbersAreUnique
  <2>3. CASE j = i
    <3>1. Issued(k) /\ row[k].number = Candidate(c) /\ row'[j].number = Candidate(c)
      BY <1>3, <1>4, <1>10, <2>3
    <3> QED
      BY <3>1, <2>1, <2>3, <1>5
  <2>4. CASE k = i
    <3>1. Issued(j) /\ row[j].number = Candidate(c) /\ row'[j].number = Candidate(c)
      BY <1>3, <1>4, <1>10, <2>4
    <3> QED
      BY <3>1, <2>1, <2>4, <1>5
  <2> QED
    BY <2>2, <2>3, <2>4
<1>16. SentIsNumbered'
  <2> SUFFICES ASSUME NEW j \in Invoices, Exists(j)', j \in Sale, row'[j].status # "ready"
               PROVE  Numbered(j)'
    BY DEF SentIsNumbered
  <2>1. CASE j = i
    BY <1>10, <2>1 DEF Issued
  <2>2. CASE j # i
    <3>1. Exists(j) /\ row'[j] = row[j]
      BY <1>3, <1>9, <2>2
    <3> QED
      BY <3>1 DEF Given, SentIsNumbered, Numbered
  <2> QED
    BY <2>1, <2>2
<1>17. ImportedIsSent'
  BY <1>3, <1>4, <1>9 DEF Given, ImportedIsSent
<1>18. NumbersKept
  BY <1>1, <1>3, <1>9 DEF NumbersKept, Numbered
<1> QED
  BY <1>7, <1>12, <1>13, <1>14, <1>15, <1>16, <1>17, <1>18 DEF Holding, Given

-----------------------------------------------------------------------------
(* Every step                                                               *)

LEMMA SameRows ==
  ASSUME Given, row' = row, \A m \in Months : trouble[m] \subseteq trouble'[m]
  PROVE  Given' /\ NumbersKept
<1>1. \A i \in Invoices : Exists(i)' = Exists(i) /\ Numbered(i)' = Numbered(i) /\ Issued(i)' = Issued(i)
  BY DEF Exists, Numbered, Issued
<1>2. \A i \in Invoices : Issued(i) => row[i].number[1] \in Months
  BY DEF Given, IssuedIsNumber, Numbers
<1> QED
  BY <1>1, <1>2 DEF Given, IssuedIsNumber, ImportedIsSent, NumbersAreUnique, SentIsNumbered,
       NumbersKept, Numbered

LEMMA CountGrows ==
  ASSUME TypeOK, NEW c \in Clients, NEW i \in Invoices, NEW submit, NEW attempt,
         Exists(i), CountMonth(c, i, submit, attempt)
  PROVE  row' = row /\ \A m \in Months : trouble[m] \subseteq trouble'[m]
BY DEF CountMonth, TypeOK, Exists, Row

LEMMA CreateRewrites ==
  ASSUME Holding, Given, NEW i \in Invoices, NEW m \in Months, CreateInvoice(i, m)
  PROVE  Rewritten(i, NewInvoice(m))
<1> DEFINE r == NewInvoice(m)
<1>1. r \in Row /\ ~r.imported /\ r.number = NoNumber /\ r.status = "ready"
  BY DEF NewInvoice, Row
<1>2. ~Locked(i)
  BY DEF CreateInvoice, Locked, Holding, NumberingHoldsTheLock
<1> QED
  BY <1>1, <1>2 DEF CreateInvoice, Rewritten, Holding, TypeOK

LEMMA CreateStep ==
  ASSUME Holding, Given, NEW i \in Invoices, NEW m \in Months, CreateInvoice(i, m)
  PROVE  Holding' /\ Given' /\ NumbersKept
BY CreateRewrites, RewriteKeeps

LEMMA ImportRewrites ==
  ASSUME Holding, Given, NEW i \in Invoices, NEW m \in Months, NEW n \in SupplierNumbers,
         ImportPurchase(i, m, n)
  PROVE  Rewritten(i, [status |-> "sent", imported |-> TRUE, month |-> m, number |-> n])
<1> DEFINE r == [status |-> "sent", imported |-> TRUE, month |-> m, number |-> n]
<1>1. n \in Numbers \union {Foreign, NoNumber}
  BY InvoicingAssumption DEF SupplierNumbers, Numbers
<1>2. r \in Row /\ r.imported /\ r.status = "sent"
  BY <1>1 DEF Row
<1>3. ~Locked(i)
  BY DEF ImportPurchase, Locked, Holding, NumberingHoldsTheLock
<1>4. /\ trouble' \in [Months -> SUBSET {"raced", "disturbed"}]
      /\ \A k \in Months : trouble[k] \subseteq trouble'[k]
  BY DEF ImportPurchase, Disturb, Holding, TypeOK
<1> QED
  BY <1>2, <1>3, <1>4 DEF ImportPurchase, Rewritten

LEMMA ImportStep ==
  ASSUME Holding, Given, NEW i \in Invoices, NEW m \in Months, NEW n \in SupplierNumbers,
         ImportPurchase(i, m, n)
  PROVE  Holding' /\ Given' /\ NumbersKept
BY ImportRewrites, RewriteKeeps

LEMMA UpdateRewrites ==
  ASSUME Holding, Given, NEW c \in Clients, NEW i \in Invoices, NEW m \in Months,
         UpdateInvoice(c, i, m)
  PROVE  Rewritten(i, [row[i] EXCEPT !.month = m])
<1> DEFINE r == [row[i] EXCEPT !.month = m]
<1>1. row[i] \in Row /\ ~row[i].imported
  BY DEF UpdateInvoice, Editable, Exists, Holding, TypeOK, Given, ImportedIsSent
<1>2. /\ r \in Row /\ r.number = row[i].number /\ r.imported = row[i].imported
      /\ r.status = row[i].status
  BY <1>1 DEF Row
<1>3. row' = [row EXCEPT ![i] = r]
  BY <1>1 DEF UpdateInvoice, Holding, TypeOK
<1>4. /\ trouble' \in [Months -> SUBSET {"raced", "disturbed"}]
      /\ \A k \in Months : trouble[k] \subseteq trouble'[k]
  BY DEF UpdateInvoice, Disturb, Holding, TypeOK
<1>5. Rewritten(i, r)
  <2> HIDE DEF r
  <2> QED
    BY <1>1, <1>2, <1>3, <1>4 DEF UpdateInvoice, Rewritten, Given, SentIsNumbered, Numbered
<1> QED
  BY <1>5

LEMMA UpdateStep ==
  ASSUME Holding, Given, NEW c \in Clients, NEW i \in Invoices, NEW m \in Months,
         UpdateInvoice(c, i, m)
  PROVE  Holding' /\ Given' /\ NumbersKept
BY UpdateRewrites, RewriteKeeps

\* A submission of a numbered invoice, or a rejection.
LEMMA StatusRewrites ==
  ASSUME Holding, Given, NEW i \in Invoices, NEW status \in {"sent", "rejected"},
         Exists(i), ~Locked(i), i \in Sale => Numbered(i), ~row[i].imported,
         row' = [row EXCEPT ![i].status = status], UNCHANGED <<work, trouble>>
  PROVE  Rewritten(i, [row[i] EXCEPT !.status = status])
<1> DEFINE r == [row[i] EXCEPT !.status = status]
<1>1. row[i] \in Row
  BY DEF Exists, Holding, TypeOK
<1>2. /\ r \in Row /\ r.number = row[i].number /\ r.imported = row[i].imported
  BY <1>1 DEF Row
<1>3. row' = [row EXCEPT ![i] = r]
  BY <1>1 DEF Holding, TypeOK
<1>4. Rewritten(i, r)
  <2> HIDE DEF r
  <2> QED
    BY <1>2, <1>3 DEF Rewritten, Numbered, Holding, TypeOK
<1> QED
  BY <1>4

LEMMA StatusStep ==
  ASSUME Holding, Given, NEW i \in Invoices, NEW status \in {"sent", "rejected"},
         Exists(i), ~Locked(i), i \in Sale => Numbered(i), ~row[i].imported,
         row' = [row EXCEPT ![i].status = status], UNCHANGED <<work, trouble>>
  PROVE  Holding' /\ Given' /\ NumbersKept
BY StatusRewrites, RewriteKeeps

LEMMA NumberingStep ==
  ASSUME Holding, Given, NEW c \in Clients, NEW i \in Invoices,
         MarkReady(c, i) \/ SubmitUnnumbered(c, i)
  PROVE  Holding' /\ Given' /\ NumbersKept
<1>0. work[c].step = "idle" /\ Exists(i) /\ row[i].status = "ready"
  BY DEF MarkReady, SubmitUnnumbered
<1>1. ~Numbering(c) /\ ~row[i].imported /\ 1 \in 1..MAX_RETRIES
  BY <1>0, InvoicingAssumption DEF Numbering, Given, ImportedIsSent
<1>2. PICK submit \in BOOLEAN : CountMonth(c, i, submit, 1) /\ (submit => i \in Sale)
  BY DEF MarkReady, SubmitUnnumbered
<1>3. Exists(i) /\ ~Locked(i) /\ row[i].status = "ready" /\ row[i].number = NoNumber
  BY DEF MarkReady, SubmitUnnumbered
<1>4. Holding'
  BY <1>1, <1>2, <1>3, CountKeeps
<1>5. Given' /\ NumbersKept
  BY <1>2, <1>3, CountGrows, SameRows DEF Holding
<1> QED
  BY <1>4, <1>5

LEMMA AgainStep ==
  ASSUME Holding, Given, NEW c \in Clients, MarkReadyAgain(c)
  PROVE  Holding' /\ Given' /\ NumbersKept
<1>1. ~Numbering(c)
  BY DEF MarkReadyAgain, Numbering
<1>2. PICK i \in Invoices : i = work[c].invoice /\ Exists(i) /\ ~row[i].imported
  BY DEF MarkReadyAgain, Holding, NumberingHoldsTheLock
<1>3. work[c].attempt \in 1..MAX_RETRIES
  BY DEF Holding, TypeOK, Work
<1>4. CASE row[i].status = "ready" /\ row[i].number = NoNumber
  <2>1. CountMonth(c, i, FALSE, work[c].attempt) /\ ~Locked(i)
    BY <1>2, <1>4 DEF MarkReadyAgain
  <2>2. Holding'
    BY <1>1, <1>2, <1>3, <1>4, <2>1, CountKeeps
  <2> QED
    BY <1>2, <2>1, <2>2, CountGrows, SameRows DEF Holding
<1>5. CASE ~(row[i].status = "ready" /\ row[i].number = NoNumber)
  <2>1. Idle \in Work /\ Idle.step = "idle"
    BY InvoicingAssumption DEF Idle, Work
  <2>2. work' = [work EXCEPT ![c] = Idle] /\ row' = row /\ trouble' = trouble
    BY <1>2, <1>5 DEF MarkReadyAgain, Finish
  <2>3. Holding'
    BY <2>1, <2>2, LetGoKeeps
  <2> QED
    BY <2>2, <2>3, SameRows
<1> QED
  BY <1>4, <1>5

LEMMA QuietStep ==
  ASSUME Holding, Given, NEW c \in Clients,
         CheckNumber(c) \/ Rollback(c) \/ OperationalError(c)
  PROVE  Holding' /\ Given' /\ NumbersKept
<1>1. row' = row /\ trouble' = trouble
  BY DEF CheckNumber, Rollback, OperationalError, TryAgain
<1>2. Holding'
  <2>1. CASE CheckNumber(c)
    BY <2>1, CheckKeeps
  <2>2. CASE Rollback(c)
    <3>1. Idle \in Work /\ Idle.step = "idle"
      BY InvoicingAssumption DEF Idle, Work
    <3>2. work' = [work EXCEPT ![c] = Idle]
      BY <2>2 DEF Rollback, Finish
    <3> QED
      BY <1>1, <3>1, <3>2, LetGoKeeps
  <2>3. CASE OperationalError(c)
    BY <2>3, TryAgainKeeps DEF OperationalError
  <2> QED
    BY <2>1, <2>2, <2>3
<1> QED
  BY <1>1, <1>2, SameRows

LEMMA StepHolds == IInv /\ [Next]_vars => IInv' /\ NumbersKept
<1> SUFFICES ASSUME Holding, Given, [Next]_vars PROVE Holding' /\ Given' /\ NumbersKept
  BY Parts, PTL
<1>1. ASSUME NEW i \in Invoices, NEW m \in Months, CreateInvoice(i, m)
      PROVE  Holding' /\ Given' /\ NumbersKept
  BY <1>1, CreateStep
<1>2. ASSUME NEW c \in Clients, NEW i \in Invoices, MarkReady(c, i) \/ SubmitUnnumbered(c, i)
      PROVE  Holding' /\ Given' /\ NumbersKept
  BY <1>2, NumberingStep
<1>3. ASSUME NEW c \in Clients, NEW i \in Invoices, SubmitNumbered(c, i)
      PROVE  Holding' /\ Given' /\ NumbersKept
  <2>1. ~row[i].imported
    BY <1>3 DEF SubmitNumbered, Given, ImportedIsSent
  <2> QED
    BY <1>3, <2>1, StatusStep DEF SubmitNumbered
<1>4. ASSUME NEW c \in Clients, MarkReadyAgain(c)
      PROVE  Holding' /\ Given' /\ NumbersKept
  BY <1>4, AgainStep
<1>5. ASSUME NEW c \in Clients, CommitNumber(c)
      PROVE  Holding' /\ Given' /\ NumbersKept
  BY <1>5, CommitKeeps
<1>6. ASSUME NEW c \in Clients, CheckNumber(c) \/ Rollback(c) \/ OperationalError(c)
      PROVE  Holding' /\ Given' /\ NumbersKept
  BY <1>6, QuietStep
<1>7. ASSUME NEW c \in Clients, NEW i \in Invoices, NEW m \in Months, UpdateInvoice(c, i, m)
      PROVE  Holding' /\ Given' /\ NumbersKept
  BY <1>7, UpdateStep
<1>8. ASSUME NEW i \in Invoices, Reject(i)
      PROVE  Holding' /\ Given' /\ NumbersKept
  <2>1. i \in Sale => Numbered(i)
    BY <1>8 DEF Reject, Given, SentIsNumbered
  <2> QED
    BY <1>8, <2>1, StatusStep DEF Reject
<1>9. ASSUME NEW i \in Invoices, NEW m \in Months, NEW n \in SupplierNumbers, ImportPurchase(i, m, n)
      PROVE  Holding' /\ Given' /\ NumbersKept
  BY <1>9, ImportStep
<1>10. CASE UNCHANGED vars
  <2>1. Holding'
    BY <1>10 DEF vars, Holding, TypeOK, NumberingHoldsTheLock, RacesAreKnown, Numbering, MonthOf,
         Candidate, Issued, Numbered, Exists
  <2> QED
    BY <1>10, <2>1, SameRows DEF vars
<1> QED
  BY <1>1, <1>2, <1>3, <1>4, <1>5, <1>6, <1>7, <1>8, <1>9, <1>10 DEF Next

-----------------------------------------------------------------------------
(* The sequence of a month                                                  *)

\* In a month without trouble a request has counted what is there.
CountIsCurrent ==
  \A c \in Clients :
    Numbering(c) /\ trouble[MonthOf(c)] = {} =>
      work[c].next = Cardinality(OfMonth(MonthOf(c))) + 1

Sequence == CountIsCurrent /\ NumberedInSequence

\* Months keep their numbers or get into trouble, and a request that is
\* numbering goes on as it was or has just counted.
Settled ==
  /\ \A m \in Months : trouble'[m] = {} =>
       /\ trouble[m] = {} /\ OfMonth(m)' = OfMonth(m)
       /\ \A i \in OfMonth(m) : row'[i].number = row[i].number
  /\ \A c \in Clients : Numbering(c)' =>
       \E m \in Months :
         /\ MonthOf(c)' = m
         /\ \/ Numbering(c) /\ MonthOf(c) = m /\ work'[c].next = work[c].next
            \/ work'[c].next = Cardinality(OfMonth(m)) + 1

LEMMA InitSequence == Init => Sequence
<1> SUFFICES ASSUME Init PROVE Sequence
  OBVIOUS
<1>1. \A m \in Months : OfMonth(m) = {}
  BY DEF Init, OfMonth, Numbered, Exists
<1>2. \A m \in Months : {m} \X (1..Cardinality(OfMonth(m))) = {}
  BY <1>1, FS_EmptySet
<1>3. \A m \in Months : {row[i].number : i \in OfMonth(m)} = {}
  BY <1>1
<1> QED
  BY <1>2, <1>3 DEF Sequence, CountIsCurrent, NumberedInSequence, Init, Idle, Numbering

LEMMA SettledKeeps == ASSUME Sequence, Settled PROVE Sequence'
<1>1. CountIsCurrent'
  <2> SUFFICES ASSUME NEW c \in Clients, Numbering(c)', trouble'[MonthOf(c)'] = {}
               PROVE  work'[c].next = (Cardinality(OfMonth(MonthOf(c))) + 1)'
    BY DEF CountIsCurrent
  <2>1. PICK m \in Months :
          /\ MonthOf(c)' = m
          /\ \/ Numbering(c) /\ MonthOf(c) = m /\ work'[c].next = work[c].next
             \/ work'[c].next = Cardinality(OfMonth(m)) + 1
    BY DEF Settled
  <2>2. trouble[m] = {} /\ OfMonth(m)' = OfMonth(m)
    BY <2>1 DEF Settled
  <2>3. work'[c].next = Cardinality(OfMonth(m)) + 1
    BY <2>1, <2>2 DEF Sequence, CountIsCurrent
  <2>4. OfMonth(MonthOf(c))' = OfMonth(m)
    <3>1. OfMonth(MonthOf(c))' = OfMonth(m)'
      BY <2>1 DEF OfMonth
    <3> QED
      BY <2>2, <3>1
  <2> QED
    BY <2>3, <2>4
<1>2. NumberedInSequence'
  <2> SUFFICES ASSUME NEW m \in Months, trouble'[m] = {}
               PROVE  ({row[i].number : i \in OfMonth(m)} = {m} \X (1..Cardinality(OfMonth(m))))'
    BY DEF NumberedInSequence
  <2>1. /\ trouble[m] = {} /\ OfMonth(m)' = OfMonth(m)
        /\ \A i \in OfMonth(m) : row'[i].number = row[i].number
    BY DEF Settled
  <2>2. {row[i].number : i \in OfMonth(m)} = {m} \X (1..Cardinality(OfMonth(m)))
    BY <2>1 DEF Sequence, NumberedInSequence
  <2>3. {row'[i].number : i \in OfMonth(m)} = {row[i].number : i \in OfMonth(m)}
    BY <2>1
  <2> QED
    BY <2>1, <2>2, <2>3
<1> QED
  BY <1>1, <1>2 DEF Sequence

\* A step that leaves the rows alone.
LEMMA SameRowsSettle ==
  ASSUME Holding, row' = row, \A m \in Months : trouble[m] \subseteq trouble'[m],
         \A c \in Clients : Numbering(c)' =>
           Numbering(c) /\ work'[c].invoice = work[c].invoice /\ work'[c].next = work[c].next
  PROVE  Settled
<1>1. \A m \in Months : OfMonth(m)' = OfMonth(m)
  BY DEF OfMonth, Numbered, Exists
<1>2. \A c \in Clients : Numbering(c) => MonthOf(c) \in Months
  BY DEF Holding, TypeOK, NumberingHoldsTheLock, MonthOf, Exists, Row
<1>3. \A c \in Clients : Numbering(c)' => MonthOf(c)' = MonthOf(c)
  BY DEF MonthOf
<1> QED
  BY <1>1, <1>2, <1>3 DEF Settled

LEMMA CountSettles ==
  ASSUME Holding, NEW c \in Clients, NEW i \in Invoices, NEW submit, NEW attempt,
         Exists(i), CountMonth(c, i, submit, attempt)
  PROVE  Settled
<1> DEFINE m == row[i].month
<1>1. m \in Months
  BY DEF Holding, TypeOK, Exists, Row
<1>2. row' = row /\ \A k \in Months : trouble[k] \subseteq trouble'[k]
  BY CountGrows DEF Holding
<1>3. /\ work'[c].invoice = i /\ work'[c].next = Cardinality(OfMonth(m)) + 1
      /\ \A d \in Clients \ {c} : work'[d] = work[d]
  BY DEF CountMonth, NextSequenceNumber, Holding, TypeOK
<1>4. \A k \in Months : OfMonth(k)' = OfMonth(k)
  BY <1>2 DEF OfMonth, Numbered, Exists
<1>5. MonthOf(c)' = m
  BY <1>2, <1>3 DEF MonthOf
<1>6. \A d \in Clients \ {c} : Numbering(d)' =>
        Numbering(d) /\ MonthOf(d)' = MonthOf(d) /\ MonthOf(d) \in Months
  BY <1>2, <1>3 DEF Numbering, MonthOf, Holding, TypeOK, NumberingHoldsTheLock, Exists, Row
<1> QED
  BY <1>1, <1>2, <1>3, <1>4, <1>5, <1>6 DEF Settled

\* A row that is written outside the numbering is counted as before, unless its
\* months are in trouble.
LEMMA RewriteSettles ==
  ASSUME Holding, NEW i \in Invoices, NEW r, Rewritten(i, r),
         \A m \in Months : trouble'[m] = {} =>
           ((r.number # NoNumber /\ r.month = m) <=> i \in OfMonth(m))
  PROVE  Settled
<1>1. row'[i] = r /\ \A j \in Invoices \ {i} : row'[j] = row[j]
  BY DEF Holding, TypeOK, Rewritten
<1>2. r # NoRow
  BY RowAssumption DEF Rewritten
<1>3. \A m \in Months : trouble'[m] = {} => trouble[m] = {}
  BY DEF Rewritten
<1>4. ASSUME NEW m \in Months, trouble'[m] = {}
      PROVE  OfMonth(m)' = OfMonth(m)
  BY <1>1, <1>2, <1>4 DEF OfMonth, Numbered, Exists
<1>5. \A m \in Months : \A j \in OfMonth(m) : row'[j].number = row[j].number
  BY <1>1 DEF OfMonth, Numbered, Rewritten
<1>6. \A c \in Clients : Numbering(c)' =>
        /\ Numbering(c) /\ work'[c].next = work[c].next
        /\ MonthOf(c)' = MonthOf(c) /\ MonthOf(c) \in Months
  <2> SUFFICES ASSUME NEW c \in Clients, Numbering(c)'
               PROVE  /\ Numbering(c) /\ work'[c].next = work[c].next
                      /\ MonthOf(c)' = MonthOf(c) /\ MonthOf(c) \in Months
    OBVIOUS
  <2>1. Numbering(c) /\ work' = work
    BY DEF Rewritten, Numbering
  <2>2. work[c].invoice \in Invoices \ {i} /\ Exists(work[c].invoice)
    BY <2>1 DEF Rewritten, Locked, Holding, NumberingHoldsTheLock
  <2>3. MonthOf(c) \in Months
    BY <2>2 DEF MonthOf, Holding, TypeOK, Exists, Row
  <2> QED
    BY <1>1, <2>1, <2>2, <2>3 DEF MonthOf
<1> QED
  BY <1>3, <1>4, <1>5, <1>6 DEF Settled

\* The next number of a month follows those it has.
LEMMA CommitSequence ==
  ASSUME Holding, Sequence, NEW c \in Clients, CommitNumber(c)
  PROVE  Sequence'
<1>0. PICK i \in Invoices : i = work[c].invoice
  BY DEF CommitNumber, Numbering, Holding, NumberingHoldsTheLock
<1>1. /\ Numbering(c) /\ Exists(i) /\ row[i].number = NoNumber /\ row[i] \in Row
      /\ work[c].next \in Nat \ {0}
  BY <1>0 DEF CommitNumber, Numbering, Holding, NumberingHoldsTheLock, TypeOK, Work, Exists
<1>2. PICK m \in Months : m = MonthOf(c) /\ m = row[i].month
  BY <1>0, <1>1 DEF MonthOf, Row
<1>3. Candidate(c) = <<m, work[c].next>> /\ Candidate(c) # NoNumber
  BY <1>1, <1>2, InvoicingAssumption DEF Candidate, Numbers
<1>4. /\ row'[i] = [row[i] EXCEPT !.number = Candidate(c),
                                  !.status = IF work[c].submit THEN "sent" ELSE "ready"]
      /\ \A j \in Invoices \ {i} : row'[j] = row[j]
      /\ trouble' = trouble
  BY <1>0, <1>1 DEF CommitNumber, Holding, TypeOK
<1>5. row'[i].number = Candidate(c) /\ row'[i].month = m /\ row'[i] # NoRow
  <2>1. row'[i].number = Candidate(c) /\ row'[i].month = row[i].month
    BY <1>1, <1>4 DEF Row
  <2>2. row'[i] \in Row
    <3>1. Candidate(c) \in Numbers
      BY <1>1, <1>3 DEF Numbers
    <3> QED
      BY <1>1, <1>4, <3>1 DEF Row
  <2> QED
    BY <1>2, <2>1, <2>2, RowAssumption
<1>6. OfMonth(m)' = OfMonth(m) \union {i} /\ i \notin OfMonth(m)
  <2>1. \A j \in Invoices \ {i} : row'[j] = row[j]
    BY <1>4
  <2>2. /\ row'[i] # NoRow /\ row'[i].number # NoNumber /\ row'[i].month = m
        /\ row[i].number = NoNumber
    BY <1>1, <1>3, <1>5
  <2>3. \A j \in Invoices : (j \in OfMonth(m))' <=> j \in OfMonth(m) \/ j = i
    BY <2>1, <2>2 DEF OfMonth, Numbered, Exists
  <2> QED
    BY <2>2, <2>3 DEF OfMonth, Numbered
<1>7. ASSUME NEW k \in Months, k # m
      PROVE  OfMonth(k)' = OfMonth(k) /\ i \notin OfMonth(k)
  <2>1. \A j \in Invoices \ {i} : row'[j] = row[j]
    BY <1>4
  <2>2. row'[i].month = m /\ row[i].number = NoNumber
    BY <1>1, <1>5
  <2>3. \A j \in Invoices : (j \in OfMonth(k))' <=> j \in OfMonth(k)
    BY <1>7, <2>1, <2>2 DEF OfMonth, Numbered, Exists
  <2> QED
    BY <2>2, <2>3 DEF OfMonth, Numbered
<1>8. IsFiniteSet(OfMonth(m))
  BY InvoicingAssumption, FS_Subset DEF OfMonth
<1>9. PICK n \in Nat : n = Cardinality(OfMonth(m))
  BY <1>8, FS_CardinalityType
<1>10. Cardinality(OfMonth(m) \union {i}) = n + 1
  BY <1>6, <1>8, <1>9, FS_AddElement
<1>11. \A d \in Clients : Numbering(d)' =>
         /\ d # c /\ Numbering(d) /\ MonthOf(d)' = MonthOf(d) /\ work'[d] = work[d]
         /\ MonthOf(d) \in Months
  <2> SUFFICES ASSUME NEW d \in Clients, Numbering(d)'
               PROVE  /\ d # c /\ Numbering(d) /\ MonthOf(d)' = MonthOf(d) /\ work'[d] = work[d]
                      /\ MonthOf(d) \in Months
    OBVIOUS
  <2>1. d # c /\ work'[d] = work[d] /\ Numbering(d)
    BY DEF CommitNumber, Finish, Idle, Numbering, Holding, TypeOK
  <2>2. work[d].invoice \in Invoices \ {i} /\ Exists(work[d].invoice)
    BY <1>0, <1>1, <2>1 DEF Holding, NumberingHoldsTheLock
  <2>3. MonthOf(d) \in Months
    BY <2>2 DEF MonthOf, Holding, TypeOK, Exists, Row
  <2> QED
    BY <1>4, <2>1, <2>2, <2>3 DEF MonthOf
<1>12. CountIsCurrent'
  <2> SUFFICES ASSUME NEW d \in Clients, Numbering(d)', trouble'[MonthOf(d)'] = {}
               PROVE  work'[d].next = (Cardinality(OfMonth(MonthOf(d))) + 1)'
    BY DEF CountIsCurrent
  <2>1. PICK k \in Months : k = MonthOf(d) /\ k = MonthOf(d)'
    BY <1>11
  <2>2. trouble[k] = {}
    BY <1>4, <2>1
  <2>3. k # m
    BY <1>1, <1>2, <1>11, <2>1, <2>2 DEF Holding, RacesAreKnown
  <2>4. work'[d].next = Cardinality(OfMonth(k)) + 1
    BY <1>11, <2>1, <2>2 DEF Sequence, CountIsCurrent
  <2>5. OfMonth(MonthOf(d))' = OfMonth(k)'
    BY <2>1 DEF OfMonth
  <2> QED
    BY <1>7, <2>3, <2>4, <2>5
<1>13. NumberedInSequence'
  <2> SUFFICES ASSUME NEW k \in Months, trouble'[k] = {}
               PROVE  ({row[j].number : j \in OfMonth(k)} = {k} \X (1..Cardinality(OfMonth(k))))'
    BY DEF NumberedInSequence
  <2>1. {row[j].number : j \in OfMonth(k)} = {k} \X (1..Cardinality(OfMonth(k)))
    BY <1>4 DEF Sequence, NumberedInSequence
  <2>2. OfMonth(k) \subseteq Invoices
    BY DEF OfMonth
  <2>3. CASE k # m
    <3>1. OfMonth(k)' = OfMonth(k) /\ i \notin OfMonth(k)
      BY <1>7, <2>3
    <3>2. {row'[j].number : j \in OfMonth(k)} = {row[j].number : j \in OfMonth(k)}
      BY <1>4, <2>2, <3>1
    <3> QED
      BY <2>1, <3>1, <3>2
  <2>4. CASE k = m
    <3>1. work[c].next = n + 1
      BY <1>1, <1>2, <1>4, <1>9, <2>4 DEF Sequence, CountIsCurrent
    <3>2. {row'[j].number : j \in OfMonth(m) \union {i}}
            = {row[j].number : j \in OfMonth(m)} \union {<<m, n + 1>>}
      <4>1. row'[i].number = <<m, n + 1>>
        BY <1>3, <1>5, <3>1
      <4>2. \A j \in OfMonth(m) : row'[j].number = row[j].number
        BY <1>4, <1>6, <2>2, <2>4
      <4> QED
        BY <4>1, <4>2
    <3>3. ({m} \X (1..n)) \union {<<m, n + 1>>} = {m} \X (1..(n + 1))
      <4>1. 1..(n + 1) = 1..n \union {n + 1}
        OBVIOUS
      <4>2. \A S, x : ({m} \X S) \union {<<m, x>>} = {m} \X (S \union {x})
        OBVIOUS
      <4> QED
        BY <4>1, <4>2
    <3> QED
      BY <1>6, <1>9, <1>10, <2>1, <2>4, <3>2, <3>3
  <2> QED
    BY <2>3, <2>4
<1> QED
  BY <1>12, <1>13 DEF Sequence

LEMMA StepSequence ==
  ASSUME IInv, Sequence, [Next]_vars
  PROVE  Sequence'
<1>0. Holding /\ Given
  BY Parts
<1>1. ASSUME NEW i \in Invoices, NEW m \in Months, CreateInvoice(i, m)
      PROVE  Settled
  <2>1. Rewritten(i, NewInvoice(m)) /\ NewInvoice(m).number = NoNumber /\ ~Exists(i)
    BY <1>0, <1>1, CreateRewrites DEF CreateInvoice, NewInvoice
  <2> QED
    BY <1>0, <2>1, RewriteSettles DEF OfMonth, Numbered
<1>2. ASSUME NEW c \in Clients, NEW i \in Invoices, MarkReady(c, i) \/ SubmitUnnumbered(c, i)
      PROVE  Settled
  BY <1>0, <1>2, CountSettles DEF MarkReady, SubmitUnnumbered
<1>3. ASSUME NEW i \in Invoices, NEW status \in {"sent", "rejected"}, Exists(i), ~Locked(i),
             i \in Sale => Numbered(i), ~row[i].imported,
             row' = [row EXCEPT ![i].status = status], UNCHANGED <<work, trouble>>
      PROVE  Settled
  <2>1. row[i] \in Row
    BY <1>0, <1>3 DEF Exists, Holding, TypeOK
  <2>2. PICK r : r = [row[i] EXCEPT !.status = status]
    OBVIOUS
  <2>3. Rewritten(i, r) /\ r.number = row[i].number /\ r.month = row[i].month
    BY <1>0, <1>3, <2>1, <2>2, StatusRewrites DEF Row
  <2> QED
    BY <1>0, <1>3, <2>3, RewriteSettles DEF OfMonth, Numbered
<1>4. ASSUME NEW c \in Clients, NEW i \in Invoices, SubmitNumbered(c, i)
      PROVE  Settled
  BY <1>0, <1>3, <1>4 DEF SubmitNumbered, Given, ImportedIsSent
<1>5. ASSUME NEW c \in Clients, MarkReadyAgain(c)
      PROVE  Settled
  <2>1. PICK i \in Invoices : i = work[c].invoice /\ Exists(i)
    BY <1>0, <1>5 DEF MarkReadyAgain, Holding, NumberingHoldsTheLock
  <2>2. CASE row[i].status = "ready" /\ row[i].number = NoNumber
    BY <1>0, <1>5, <2>1, <2>2, CountSettles DEF MarkReadyAgain
  <2>3. CASE ~(row[i].status = "ready" /\ row[i].number = NoNumber)
    <3>1. row' = row /\ trouble' = trouble /\ work' = [work EXCEPT ![c] = Idle]
      BY <1>5, <2>1, <2>3 DEF MarkReadyAgain, Finish
    <3>2. \A d \in Clients : Numbering(d)' => Numbering(d) /\ work'[d] = work[d]
      BY <1>0, <3>1 DEF Numbering, Idle, Holding, TypeOK
    <3> QED
      BY <1>0, <3>1, <3>2, SameRowsSettle
  <2> QED
    BY <2>2, <2>3
<1>6. ASSUME NEW c \in Clients, CommitNumber(c)
      PROVE  Sequence'
  BY <1>0, <1>6, CommitSequence
<1>7. ASSUME NEW c \in Clients, CheckNumber(c) \/ Rollback(c) \/ OperationalError(c)
      PROVE  Settled
  <2>1. row' = row /\ trouble' = trouble
    BY <1>7 DEF CheckNumber, Rollback, OperationalError, TryAgain
  <2>2. \A d \in Clients : Numbering(d)' =>
          Numbering(d) /\ work'[d].invoice = work[d].invoice /\ work'[d].next = work[d].next
    <3>1. work \in [Clients -> Work]
      BY <1>0 DEF Holding, TypeOK
    <3>2. CASE Rollback(c)
      BY <3>1, <3>2 DEF Rollback, Finish, Idle, Numbering
    <3>3. ASSUME TryAgain(c)
          PROVE  \A d \in Clients : Numbering(d)' => Numbering(d) /\ work'[d] = work[d]
      BY <3>1, <3>3 DEF TryAgain, Finish, Idle, Numbering, Work
    <3>4. CASE CheckNumber(c) /\ ~TryAgain(c)
      BY <3>1, <3>4 DEF CheckNumber, Become, Numbering, Work
    <3> QED
      BY <1>7, <3>2, <3>3, <3>4 DEF OperationalError
  <2> QED
    BY <1>0, <2>1, <2>2, SameRowsSettle
<1>8. ASSUME NEW c \in Clients, NEW i \in Invoices, NEW m \in Months, UpdateInvoice(c, i, m)
      PROVE  Settled
  <2>1. row[i] \in Row /\ Exists(i)
    BY <1>0, <1>8 DEF UpdateInvoice, Exists, Holding, TypeOK
  <2>2. PICK r : r = [row[i] EXCEPT !.month = m]
    OBVIOUS
  <2>3. Rewritten(i, r) /\ r.number = row[i].number /\ r.month = m
    BY <1>0, <1>8, <2>1, <2>2, UpdateRewrites DEF Row
  <2>4. Numbered(i) => "disturbed" \in trouble'[m] /\ "disturbed" \in trouble'[row[i].month]
    BY <2>1, <1>8 DEF UpdateInvoice, Disturb, Row
  <2> QED
    BY <1>0, <2>1, <2>3, <2>4, RewriteSettles DEF OfMonth, Numbered
<1>9. ASSUME NEW i \in Invoices, Reject(i)
      PROVE  Settled
  BY <1>0, <1>3, <1>9 DEF Reject, Given, SentIsNumbered
<1>10. ASSUME NEW i \in Invoices, NEW m \in Months, NEW n \in SupplierNumbers, ImportPurchase(i, m, n)
       PROVE  Settled
  <2>1. PICK r : r = [status |-> "sent", imported |-> TRUE, month |-> m, number |-> n]
    OBVIOUS
  <2>2. Rewritten(i, r) /\ r.number = n /\ r.month = m /\ ~Exists(i)
    BY <1>0, <1>10, <2>1, ImportRewrites DEF ImportPurchase
  <2>3. n # NoNumber => "disturbed" \in trouble'[m]
    BY <1>10 DEF ImportPurchase, Disturb
  <2> QED
    BY <1>0, <2>2, <2>3, RewriteSettles DEF OfMonth, Numbered
<1>11. CASE UNCHANGED vars
  BY <1>0, <1>11, SameRowsSettle, SettledKeeps DEF vars, Numbering
<1> QED
  BY <1>1, <1>2, <1>4, <1>5, <1>6, <1>7, <1>8, <1>9, <1>10, <1>11, SettledKeeps DEF Next

-----------------------------------------------------------------------------
(* The theorems                                                             *)

\* A request keeps what it read under its lock, and the locks keep two of them
\* off one invoice; what two of them do to one month is recorded.
THEOREM InvariantHolds == Spec => []IInv
BY InitHolds, StepHolds, PTL DEF Spec

\* A local number is on two invoices only where two requests numbered that
\* month at once: a SELECT for the number and the count are enough otherwise,
\* however many requests there are and whatever else is done to the invoices.
THEOREM UniqueNumbers == Spec => []NumbersAreUnique
<1>1. IInv => NumbersAreUnique
  BY DEF IInv
<1> QED
  BY <1>1, InvariantHolds, PTL

\* An invoice keeps the number it was given, whatever is asked of it.
THEOREM NumberKept == Spec => NumberIsKept
<1>1. IInv /\ [Next]_vars =>
        [\A i \in Invoices : Numbered(i) => Exists(i)' /\ row'[i].number = row[i].number]_vars
  BY StepHolds DEF NumbersKept
<1> QED
  BY <1>1, InvariantHolds, PTL DEF Spec, NumberIsKept

\* The numbers of a month are 1, 2, ..., n for as long as invoices are numbered
\* one by one in it: however many requests fail, are repeated or give up, none
\* leaves a gap.
THEOREM NumbersInSequence == Spec => []NumberedInSequence
<1>1. IInv /\ Sequence /\ [Next]_vars => Sequence'
  BY StepSequence
<1>2. Sequence => NumberedInSequence
  BY DEF Sequence
<1> QED
  BY <1>1, <1>2, InitSequence, InvariantHolds, PTL DEF Spec

-----------------------------------------------------------------------------
(* The stock *)

LEMMA StockInitHolds == StockInit => StockIInv
<1> SUFFICES ASSUME StockInit PROVE StockIInv
  OBVIOUS
<1>1. \A c \in Clerks : movement[c] = NoMovement
  BY DEF StockInit
<1>2. StockTypeOK
  BY StockAssumption DEF StockInit, StockTypeOK, NoMovement
<1>3. AloneReadsTheRow
  BY <1>1, StockAssumption DEF AloneReadsTheRow, NoMovement
<1> QED
  BY <1>1, <1>2, <1>3 DEF StockIInv, StockInit, StockIsItsLog, NeverNegative, OnHand, NoMovement

LEMMA OnHandType == StockTypeOK => \A p \in Products : OnHand(p) \in Int
BY DEF StockTypeOK, OnHand

LEMMA LoadStep ==
  ASSUME StockIInv, NEW c \in Clerks, NEW p \in Products, LoadStock(c, p)
  PROVE  StockIInv'
<1> DEFINE w == [step |-> "loaded", product |-> p, read |-> OnHand(p),
                 new |-> quantity[p] = NoStock]
<1>1. /\ movement' = [movement EXCEPT ![c] = w] /\ movements' = movements + 1
      /\ quantity' = quantity /\ logged' = logged
  BY DEF LoadStock
<1>2. /\ OnHand(p) \in Int /\ OnHand(p) >= 0
      /\ w.step = "loaded" /\ w.product = p /\ w.read = OnHand(p)
  BY OnHandType DEF StockIInv, NeverNegative
<1>3. overlapped' = overlapped \union {q \in {p} : \E d \in Clerks \ {c} : movement[d].product = p}
  BY DEF LoadStock
<1>4. StockTypeOK'
  BY <1>1, <1>2, <1>3 DEF StockIInv, StockTypeOK
<1>5. movement'[c] = w /\ \A d \in Clerks \ {c} : movement'[d] = movement[d]
  BY <1>1 DEF StockIInv, StockTypeOK
<1> HIDE DEF w
<1>6. \A q \in Products : OnHand(q)' = OnHand(q)
  BY <1>1 DEF OnHand
<1>7. p # NoProduct
  BY StockAssumption
<1>9. AloneReadsTheRow'
  <2> SUFFICES ASSUME NEW d \in Clerks
               PROVE  (/\ (movement[d].step = "idle") = (movement[d].product = NoProduct)
                       /\ movement[d].product # NoProduct /\ movement[d].product \notin overlapped =>
                            /\ movement[d].read = OnHand(movement[d].product)
                            /\ \A e \in Clerks \ {d} : movement[e].product # movement[d].product)'
    BY DEF AloneReadsTheRow
  <2>1. CASE d = c
    <3>1. (movement'[d].step = "idle") = (movement'[d].product = NoProduct)
      BY <2>1, <1>2, <1>5, <1>7
    <3>2. ASSUME movement'[d].product # NoProduct, movement'[d].product \notin overlapped'
          PROVE  \A e \in Clerks \ {d} : movement'[e].product # movement'[d].product
      BY <2>1, <1>2, <1>3, <1>5, <3>2
    <3>3. movement'[d].read = OnHand(p)' /\ movement'[d].product = p
      BY <2>1, <1>2, <1>5, <1>6
    <3> QED
      BY <3>1, <3>2, <3>3
  <2>2. CASE d # c
    <3>1. movement'[d] = movement[d]
      BY <2>2, <1>5
    <3>2. (movement[d].step = "idle") = (movement[d].product = NoProduct)
      BY DEF StockIInv, AloneReadsTheRow
    <3>3. ASSUME movement[d].product # NoProduct, movement[d].product \notin overlapped'
          PROVE  /\ movement[d].read = OnHand(movement[d].product)'
                 /\ \A e \in Clerks \ {d} : movement'[e].product # movement[d].product
      <4>0. PICK r \in Products : r = movement[d].product
        BY <3>3 DEF StockIInv, StockTypeOK
      <4>1. r \notin overlapped
        BY <1>3, <3>3, <4>0
      <4>2. r # p
        BY <1>3, <2>2, <3>3, <4>0
      <4>3. /\ movement[d].read = OnHand(r)
            /\ \A e \in Clerks \ {d} : movement[e].product # r
        BY <3>3, <4>0, <4>1 DEF StockIInv, AloneReadsTheRow
      <4>4. movement[d].read = OnHand(r)'
        BY <1>6, <4>3
      <4>5. \A e \in Clerks \ {d} : movement'[e].product # r
        BY <1>2, <1>5, <4>2, <4>3
      <4> QED
        BY <3>1, <4>0, <4>4, <4>5
    <3> QED
      BY <3>1, <3>2, <3>3
  <2> QED
    BY <2>1, <2>2
<1>10. StockIsItsLog' /\ NeverNegative'
  BY <1>1, <1>3, <1>6 DEF StockIInv, StockIsItsLog, NeverNegative
<1>11. \A d \in Clerks : movement'[d].read >= 0
  BY <1>2, <1>5 DEF StockIInv
<1> QED
  BY <1>4, <1>9, <1>10, <1>11 DEF StockIInv

LEMMA LockStep ==
  ASSUME StockIInv, NEW c \in Clerks, LockStock(c)
  PROVE  StockIInv'
<1>1. /\ movement' = [movement EXCEPT ![c].step = "locked"] /\ movement[c].step = "loaded"
      /\ quantity' = quantity /\ logged' = logged
      /\ overlapped' = overlapped /\ movements' = movements
  BY DEF LockStock
<1>2. StockTypeOK'
  BY <1>1 DEF StockIInv, StockTypeOK
<1>3. \A d \in Clerks : /\ movement'[d].product = movement[d].product
                        /\ movement'[d].read = movement[d].read
                        /\ (movement'[d].step = "idle") = (movement[d].step = "idle")
  BY <1>1 DEF StockIInv, StockTypeOK
<1>4. \A q \in Products : OnHand(q)' = OnHand(q)
  BY <1>1 DEF OnHand
<1>5. AloneReadsTheRow'
  BY <1>1, <1>3 DEF StockIInv, AloneReadsTheRow, OnHand
<1> QED
  BY <1>1, <1>2, <1>3, <1>4, <1>5 DEF StockIInv, StockIsItsLog, NeverNegative

\* A movement that ends without touching the stock.
LEMMA RollbackStep ==
  ASSUME StockIInv, NEW c \in Clerks, RollbackMovement(c)
  PROVE  StockIInv'
<1>1. /\ movement' = [movement EXCEPT ![c] = NoMovement]
      /\ quantity' = quantity /\ logged' = logged
      /\ overlapped' = overlapped /\ movements' = movements
  BY DEF RollbackMovement
<1>2. StockTypeOK'
  BY <1>1 DEF StockIInv, StockTypeOK, NoMovement
<1>3. /\ movement'[c].step = "idle" /\ movement'[c].product = NoProduct /\ movement'[c].read = 0
      /\ \A d \in Clerks \ {c} : movement'[d] = movement[d]
  BY <1>1 DEF StockIInv, StockTypeOK, NoMovement
<1>4. \A q \in Products : OnHand(q)' = OnHand(q)
  BY <1>1 DEF OnHand
<1>5. AloneReadsTheRow'
  BY <1>1, <1>3 DEF StockIInv, AloneReadsTheRow, OnHand
<1>6. \A d \in Clerks : movement'[d].read >= 0
  BY <1>3 DEF StockIInv
<1> QED
  BY <1>1, <1>2, <1>4, <1>5, <1>6 DEF StockIInv, StockIsItsLog, NeverNegative

LEMMA ApplyStep ==
  ASSUME StockIInv, NEW c \in Clerks, NEW type \in MovementType, NEW q \in Quantities,
         ApplyMovement(c, type, q)
  PROVE  StockIInv'
<1>0. PICK p \in Products : p = movement[c].product
  BY DEF ApplyMovement, StockIInv, StockTypeOK, AloneReadsTheRow
<1>1. PICK result : result = Applied(movement[c].read, type, q)
  OBVIOUS
<1>2. /\ quantity' = [quantity EXCEPT ![p] = result]
      /\ logged' = [logged EXCEPT ![p] = @ + Signed(type, q)]
      /\ movement' = [movement EXCEPT ![c] = NoMovement]
      /\ overlapped' = overlapped /\ movements' = movements
  BY <1>0, <1>1 DEF ApplyMovement, SaveStock, LogMovement
<1>3. Signed(type, q) \in Int /\ movement[c].read \in Int
  BY StockAssumption DEF Signed, StockIInv, StockTypeOK
<1>4. result \in Int /\ result = movement[c].read + Signed(type, q)
  BY <1>1, <1>3 DEF Applied
<1>5. result >= 0
  <2>1. CASE type \in {"SALE", "TRANSFER"}
    BY <1>0, <1>1, <2>1 DEF ApplyMovement, Allowed
  <2>2. CASE type \in {"PURCHASE", "ADJUSTMENT"}
    <3>1. q \in Nat /\ Signed(type, q) = q
      BY <2>2, StockAssumption DEF Signed
    <3>2. movement[c].read >= 0
      BY DEF StockIInv
    <3> QED
      BY <1>3, <1>4, <3>1, <3>2
  <2> QED
    BY <2>1, <2>2 DEF MovementType
<1>6. StockTypeOK'
  BY <1>2, <1>3, <1>4 DEF StockIInv, StockTypeOK, NoMovement
<1>7. /\ movement'[c].step = "idle" /\ movement'[c].product = NoProduct /\ movement'[c].read = 0
      /\ \A d \in Clerks \ {c} : movement'[d] = movement[d]
  BY <1>2 DEF StockIInv, StockTypeOK, NoMovement
<1>8. /\ OnHand(p)' = result
      /\ \A r \in Products \ {p} : OnHand(r)' = OnHand(r)
  BY <1>2, <1>4, StockAssumption DEF OnHand, StockIInv, StockTypeOK
<1>9. AloneReadsTheRow'
  <2> SUFFICES ASSUME NEW d \in Clerks
               PROVE  (/\ (movement[d].step = "idle") = (movement[d].product = NoProduct)
                       /\ movement[d].product # NoProduct /\ movement[d].product \notin overlapped =>
                            /\ movement[d].read = OnHand(movement[d].product)
                            /\ \A e \in Clerks \ {d} : movement[e].product # movement[d].product)'
    BY DEF AloneReadsTheRow
  <2>1. CASE d = c
    BY <2>1, <1>7
  <2>2. CASE d # c
    <3>1. movement'[d] = movement[d]
      BY <2>2, <1>7
    <3>2. (movement[d].step = "idle") = (movement[d].product = NoProduct)
      BY DEF StockIInv, AloneReadsTheRow
    <3>3. ASSUME movement[d].product # NoProduct, movement[d].product \notin overlapped
          PROVE  /\ movement[d].read = OnHand(movement[d].product)'
                 /\ \A e \in Clerks \ {d} : movement'[e].product # movement[d].product
      <4>1. /\ movement[d].read = OnHand(movement[d].product)
            /\ \A e \in Clerks \ {d} : movement[e].product # movement[d].product
        BY <3>3 DEF StockIInv, AloneReadsTheRow
      <4>2. movement[d].product \in Products \ {p}
        BY <1>0, <2>2, <3>3, <4>1 DEF StockIInv, StockTypeOK
      <4>3. movement[d].read = OnHand(movement[d].product)'
        <5>1. \A r \in Products \ {p} : r = movement[d].product => OnHand(r)' = OnHand(r)
          BY <1>8
        <5>2. PICK r \in Products \ {p} : r = movement[d].product
          BY <4>2
        <5> QED
          BY <5>1, <5>2, <4>1, <3>1
      <4> QED
        BY <1>7, <3>3, <4>1, <4>3
    <3> QED
      BY <3>1, <3>2, <3>3, <1>2
  <2> QED
    BY <2>1, <2>2
<1>10. StockIsItsLog'
  <2> SUFFICES ASSUME NEW r \in Products \ overlapped
               PROVE  OnHand(r)' = logged'[r]
    BY <1>2 DEF StockIsItsLog
  <2>1. OnHand(r) = logged[r]
    BY DEF StockIInv, StockIsItsLog
  <2>2. CASE r = p
    <3>1. p # NoProduct
      BY StockAssumption
    <3>2. movement[c].read = OnHand(p)
      BY <1>0, <2>2, <3>1 DEF StockIInv, AloneReadsTheRow
    <3> QED
      BY <1>2, <1>4, <1>8, <2>1, <2>2, <3>2 DEF StockIInv, StockTypeOK
  <2>3. CASE r # p
    BY <1>2, <1>8, <2>1, <2>3 DEF StockIInv, StockTypeOK
  <2> QED
    BY <2>2, <2>3
<1>11. NeverNegative'
  BY <1>5, <1>8 DEF StockIInv, NeverNegative
<1>12. \A d \in Clerks : movement'[d].read >= 0
  BY <1>7 DEF StockIInv
<1> QED
  BY <1>6, <1>9, <1>10, <1>11, <1>12 DEF StockIInv

LEMMA StockStep == StockIInv /\ [StockNext]_stockVars => StockIInv'
<1> SUFFICES ASSUME StockIInv, [StockNext]_stockVars PROVE StockIInv'
  OBVIOUS
<1>1. ASSUME NEW c \in Clerks, NEW p \in Products, LoadStock(c, p)
      PROVE  StockIInv'
  BY <1>1, LoadStep
<1>2. ASSUME NEW c \in Clerks, LockStock(c)
      PROVE  StockIInv'
  BY <1>2, LockStep
<1>3. ASSUME NEW c \in Clerks, RollbackMovement(c)
      PROVE  StockIInv'
  BY <1>3, RollbackStep
<1>4. ASSUME NEW c \in Clerks, NEW type \in MovementType, NEW q \in Quantities,
             ApplyMovement(c, type, q)
      PROVE  StockIInv'
  BY <1>4, ApplyStep
<1>5. CASE UNCHANGED stockVars
  BY <1>5 DEF stockVars, StockIInv, StockTypeOK, AloneReadsTheRow, StockIsItsLog, NeverNegative,
       OnHand
<1> QED
  BY <1>1, <1>2, <1>3, <1>4, <1>5 DEF StockNext

-----------------------------------------------------------------------------
\* A movement that is alone with its product has read the row as it is, and no
\* movement, alone or not, is computed from less than nothing.
THEOREM StockInvariantHolds == StockSpec => []StockIInv
BY StockInitHolds, StockStep, PTL DEF StockSpec

\* The quantity of a product is the sum of its log, however many movements run,
\* fail or roll back, unless two of that product overlapped.
THEOREM LogAddsUp == StockSpec => []StockIsItsLog
<1>1. StockIInv => StockIsItsLog
  BY DEF StockIInv
<1> QED
  BY <1>1, StockInvariantHolds, PTL

\* No stock is less than nothing, even where movements overlapped.
THEOREM StockIsNotNegative == StockSpec => []NeverNegative
<1>1. StockIInv => NeverNegative
  BY DEF StockIInv
<1> QED
  BY <1>1, StockInvariantHolds, PTL
=============================================================================
