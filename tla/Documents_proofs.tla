--------------------------- MODULE Documents_proofs ---------------------------
(***************************************************************************)
(* Proofs about Documents, for any forms, lines, prices, quantities and    *)
(* rates, contractors and settings: what create and update compute passes  *)
(* the checks of sums of a submission, the FA(3) document adds up, and the *)
(* buyer reads in it what was sold.  The argument goes along the way of an *)
(* invoice: the form gives lines that add up, the row keeps them, the      *)
(* document is that of the row for as long as it is under way, and what    *)
(* the buyer reads is a function of the document.                          *)
(***************************************************************************)
EXTENDS Documents, Sums_proofs, SequenceTheorems

-----------------------------------------------------------------------------
(* Rounding *)

\* The difference of two numbers, without its sign.
LEMMA DistanceIs ==
  ASSUME NEW x \in Int, NEW y \in Int, NEW e \in Int
  PROVE  /\ Distance(x, y) \in Nat /\ Distance(x, x) = 0
         /\ Distance(x, y) <= e <=> x - y \in (-e)..e
BY DEF Distance

\* A price in 1/1000 zl rounded to the grosz is off by half a grosz at most.
LEMMA HalfUpTen ==
  ASSUME NEW n \in Int
  PROVE  /\ HalfUp(n, 10) \in Int
         /\ 10 * HalfUp(n, 10) - n \in (-5)..5
         /\ n >= 0 => HalfUp(n, 10) >= 0
BY DEF HalfUp

\* And so is a percentage.
LEMMA HalfUpHundred ==
  ASSUME NEW n \in Int
  PROVE  /\ HalfUp(n, 100) \in Int
         /\ 100 * HalfUp(n, 100) - n \in (-50)..50
         /\ n >= 0 => HalfUp(n, 100) >= 0
BY DEF HalfUp

\* Products of numbers that are not negative.
LEMMA ProductIsNatural ==
  ASSUME NEW a \in Nat, NEW b \in Nat
  PROVE  a * b \in Nat
OBVIOUS

\* A bound may be multiplied.
LEMMA ScaledBound ==
  ASSUME NEW q \in Nat, NEW d \in (-5)..5
  PROVE  q * d \in (-(5 * q))..(5 * q)
<1>1. q * (5 - d) \in Nat /\ q * (5 + d) \in Nat
  <2>1. 5 - d \in Nat /\ 5 + d \in Nat
    OBVIOUS
  <2> QED
    BY <2>1, ProductIsNatural
<1>2. q * (5 - d) = 5 * q - q * d /\ q * (5 + d) = 5 * q + q * d
  OBVIOUS
<1>3. q * d \in Int
  OBVIOUS
<1> QED
  BY <1>1, <1>2, <1>3

-----------------------------------------------------------------------------
(* Lines *)

\* A line as it is stored: its price has two decimals, and everything else was
\* computed from the price with three.
LineIsRight(item) ==
  /\ item.quantity > 0 /\ item.price >= 0 /\ item.net >= 0 /\ item.tax >= 0
  /\ item.vat \in 0..100
  /\ item.gross = item.net + item.tax
  /\ 2 * Distance(item.quantity * item.price, item.net) <= item.quantity + 1
  /\ 100 * item.tax - item.vat * item.net \in (-50)..50

\* What the rounding of the price does to a line.
LEMMA PriceRounded ==
  ASSUME NEW q \in Int, q > 0, NEW p \in Int, p >= 0
  PROVE  2 * Distance(q * HalfUp(p, 10), HalfUp(q * p, 10)) <= q + 1
<1> DEFINE h == HalfUp(p, 10)
           net == HalfUp(q * p, 10)
           d == 10 * h - p
           e == 10 * net - q * p
<1>1. q * p \in Int /\ q \in Nat
  OBVIOUS
<1>2. h \in Int /\ d \in (-5)..5 /\ net \in Int /\ e \in (-5)..5
  BY <1>1, HalfUpTen
<1>3. q * d \in (-(5 * q))..(5 * q) /\ q * d \in Int
  <2> HIDE DEF d
  <2> QED
    BY <1>1, <1>2, ScaledBound
<1>4. q * h \in Int /\ 10 * (q * h) - 10 * net = q * d - e
  <2> HIDE DEF h, net
  <2> QED
    BY <1>1, <1>2
<1> DEFINE x == q * h
           y == q * d
<1>5. x \in Int /\ y \in (-(5 * q))..(5 * q) /\ y \in Int /\ 10 * x - 10 * net = y - e
  BY <1>3, <1>4
<1> HIDE DEF h, net, d, e, x, y
<1>6. 2 * Distance(x, net) <= q + 1
  BY <1>1, <1>2, <1>5 DEF Distance
<1> QED
  BY <1>6 DEF x, h, net

\* build_items gives such a line.
LEMMA BuiltLine ==
  ASSUME NEW i \in InvoiceItemInput, ItemIsRight(i)
  PROVE  /\ BuildItem(i) \in Item /\ ItemToOrm(BuildItem(i)) \in Item
         /\ LineIsRight(ItemToOrm(BuildItem(i)))
         /\ ItemToOrm(BuildItem(i)).net = BuildItem(i).net
         /\ ItemToOrm(BuildItem(i)).tax = BuildItem(i).tax
         /\ ItemToOrm(BuildItem(i)).gross = BuildItem(i).gross
<1> DEFINE q == i.quantity
           p == i.price
           v == i.vat
           net == HalfUp(q * p, 10)
           tax == HalfUp(net * v, 100)
           price == HalfUp(p, 10)
<1>1. q \in Int /\ q > 0 /\ p \in Int /\ p >= 0 /\ v \in 0..100 /\ v \in Int
  BY DEF InvoiceItemInput, ItemIsRight
<1>2. BuildItem(i) = [quantity |-> q, price |-> p, vat |-> v, net |-> net, tax |-> tax,
                      gross |-> net + tax]
  BY DEF BuildItem, LineGross
<1>3. ItemToOrm(BuildItem(i)) =
        [quantity |-> q, price |-> price, vat |-> v, net |-> net, tax |-> tax,
         gross |-> net + tax]
  BY <1>2 DEF ItemToOrm
<1>4. 2 * Distance(q * price, net) <= q + 1
  <2> HIDE DEF q, p
  <2> QED
    BY <1>1, PriceRounded
<1>5. q * p \in Nat
  <2> HIDE DEF q, p
  <2> QED
    BY <1>1
<1>6. net \in Int /\ net >= 0 /\ price \in Int /\ price >= 0
  <2>1. q * p \in Int /\ q * p >= 0
    BY <1>5
  <2> HIDE DEF q, p
  <2> QED
    BY <1>1, <2>1, HalfUpTen
<1>7. net * v \in Int /\ net * v >= 0 /\ net * v = v * net
  <2> HIDE DEF v, net
  <2>1. net * v \in Nat
    BY <1>1, <1>6, ProductIsNatural
  <2> QED
    BY <1>1, <1>6, <2>1
<1>8. tax \in Int /\ tax >= 0 /\ 100 * tax - v * net \in (-50)..50
  <2> HIDE DEF v, net
  <2> QED
    BY <1>7, HalfUpHundred
<1> HIDE DEF q, p, v, net, tax, price
<1> QED
  BY <1>1, <1>2, <1>3, <1>4, <1>6, <1>8 DEF Item, LineIsRight

\* A function on the first numbers is a sequence.
LEMMA IsSequence ==
  ASSUME NEW S, NEW n \in Nat, NEW f \in [1..n -> S]
  PROVE  f \in Seq(S) /\ Len(f) = n /\ DOMAIN f = 1..n
OBVIOUS

-----------------------------------------------------------------------------
(* Sums *)

\* A sum over a set of lines.
LEMMA LineSum ==
  ASSUME NEW items \in Seq(Item), NEW T \in SUBSET (DOMAIN items)
  PROVE  /\ IsFiniteSet(T)
         /\ IntsOn([k \in T |-> items[k].net], T) /\ IntsOn([k \in T |-> items[k].tax], T)
         /\ IntsOn([k \in T |-> items[k].gross], T)
<1>1. DOMAIN items = 1..Len(items) /\ Len(items) \in Int
  OBVIOUS
<1>2. IsFiniteSet(DOMAIN items)
  BY <1>1, FS_Interval
<1>3. \A k \in DOMAIN items : items[k] \in Item
  OBVIOUS
<1>4. IsFiniteSet(T)
  BY <1>2, FS_Subset
<1>5. \A k \in T : items[k].net \in Int /\ items[k].tax \in Int /\ items[k].gross \in Int
  BY <1>3 DEF Item
<1> QED
  BY <1>4, <1>5 DEF IntsOn

\* The sums of the lines are numbers.
LEMMA SumsAreNumbers ==
  ASSUME NEW items \in Seq(Item)
  PROVE  Net(items) \in Int /\ Tax(items) \in Int /\ Gross(items) \in Int
<1> DEFINE S == DOMAIN items
           net == [k \in S |-> items[k].net]
           tax == [k \in S |-> items[k].tax]
           gross == [k \in S |-> items[k].gross]
<1>1. IsFiniteSet(S) /\ IntsOn(net, S) /\ IntsOn(tax, S) /\ IntsOn(gross, S)
  BY LineSum
<1>2. /\ Net(items) = SumFunctionOnSet(net, S) /\ Tax(items) = SumFunctionOnSet(tax, S)
      /\ Gross(items) = SumFunctionOnSet(gross, S)
  BY DEF Net, Tax, Gross, SumFunction
<1> HIDE DEF S, net, tax, gross
<1> QED
  BY <1>1, <1>2, SumInt

\* The gross of lines that add up is their net and their tax, and none of
\* these is negative.
LEMMA GrossIsNetAndTax ==
  ASSUME NEW items \in Seq(Item), \A k \in DOMAIN items : LineIsRight(items[k])
  PROVE  Gross(items) = Net(items) + Tax(items) /\ Net(items) \in Nat /\ Tax(items) \in Nat
<1> DEFINE S == DOMAIN items
           net == [k \in S |-> items[k].net]
           tax == [k \in S |-> items[k].tax]
           gross == [k \in S |-> items[k].gross]
<1>1. IsFiniteSet(S) /\ IntsOn(net, S) /\ IntsOn(tax, S) /\ IntsOn(gross, S)
  BY LineSum
<1>2. /\ Net(items) = SumFunctionOnSet(net, S) /\ Tax(items) = SumFunctionOnSet(tax, S)
      /\ Gross(items) = SumFunctionOnSet(gross, S)
  BY DEF Net, Tax, Gross, SumFunction
<1>3. \A k \in S : gross[k] = net[k] + tax[k] /\ net[k] \in Nat /\ tax[k] \in Nat
  <2>1. ASSUME NEW k \in S
        PROVE  /\ items[k].gross = items[k].net + items[k].tax
               /\ items[k].net \in Nat /\ items[k].tax \in Nat
    <3>1. items[k] \in Item /\ LineIsRight(items[k])
      OBVIOUS
    <3> QED
      BY <3>1 DEF Item, LineIsRight
  <2> QED
    BY <2>1
<1> HIDE DEF S, net, tax, gross
<1>4. SumFunctionOnSet(gross, S) = SumFunctionOnSet(net, S) + SumFunctionOnSet(tax, S)
  BY <1>1, <1>3, SumPlus
<1>5. SumFunctionOnSet(net, S) \in Nat /\ SumFunctionOnSet(tax, S) \in Nat
  BY <1>1, <1>3, SumNatural
<1> QED
  BY <1>2, <1>4, <1>5

-----------------------------------------------------------------------------
(* The document *)

\* Every rate has a field of its own.
LEMMA RateFields ==
  /\ DOMAIN VatRateFields = {23, 8, 5, 0}
  /\ \A r \in DOMAIN VatRateFields : VatRateFields[r] \in 1..4
  /\ \A r, s \in DOMAIN VatRateFields : VatRateFields[r] = VatRateFields[s] => r = s
BY DEF VatRateFields

\* Rates of lines, those that FA(3) knows, and the fields of the totals.
Rates(items) == {items[k].vat : k \in DOMAIN items}
AreMapped(items) == \A k \in DOMAIN items : items[k].vat \in DOMAIN VatRateFields
Fields(items) == {VatRateFields[items[k].vat] : k \in DOMAIN items}

LEMMA FieldTypes ==
  ASSUME NEW items, AreMapped(items)
  PROVE  Fields(items) \subseteq 1..4 /\ IsFiniteSet(Fields(items))
<1>1. Fields(items) \subseteq 1..4
  BY RateFields DEF Fields, AreMapped
<1>2. IsFiniteSet(1..4)
  <2>1. 1 \in Int /\ 4 \in Int
    OBVIOUS
  <2> QED
    BY <2>1, FS_Interval
<1> QED
  BY <1>1, <1>2, FS_Subset

\* The fields of the totals are those of the rates of the lines, and what they
\* hold are the sums of the lines of that rate.
LEMMA TotalsAre ==
  ASSUME NEW i, i.items \in Seq(Item), AreMapped(i.items)
  PROVE  /\ DOMAIN VatTotals(i) = Fields(i.items)
         /\ \A r \in Rates(i.items) :
              VatTotals(i)[VatRateFields[r]] =
                [net |-> SumFunction([k \in Lines(i.items, r) |-> i.items[k].net]),
                 tax |-> SumFunction([k \in Lines(i.items, r) |-> i.items[k].tax])]
<1> DEFINE items == i.items
           totals == TotalsByRate(items)
<1>1. DOMAIN totals = Rates(items)
  BY DEF TotalsByRate, Rates
<1>2. \A r \in Rates(items) :
        totals[r] = [net |-> SumFunction([k \in Lines(items, r) |-> items[k].net]),
                     tax |-> SumFunction([k \in Lines(items, r) |-> items[k].tax])]
  BY DEF TotalsByRate, Rates
<1>3. VatTotals(i) = [n \in {VatRateFields[r] : r \in DOMAIN totals} |->
                        totals[CHOOSE r \in DOMAIN totals : VatRateFields[r] = n]]
  BY DEF VatTotals
<1>4. Rates(items) \subseteq DOMAIN VatRateFields
  BY DEF Rates, AreMapped
<1> HIDE DEF totals
<1>5. DOMAIN VatTotals(i) = Fields(items)
  <2>1. {VatRateFields[r] : r \in Rates(items)} = Fields(items)
    BY DEF Rates, Fields
  <2> QED
    BY <1>1, <1>3, <2>1
<1>6. ASSUME NEW r \in Rates(items) PROVE VatTotals(i)[VatRateFields[r]] = totals[r]
  <2> DEFINE c == CHOOSE s \in DOMAIN totals : VatRateFields[s] = VatRateFields[r]
  <2>1. c \in DOMAIN totals /\ VatRateFields[c] = VatRateFields[r]
    BY <1>1
  <2>2. VatTotals(i)[VatRateFields[r]] = totals[c]
    BY <1>1, <1>3
  <2> HIDE DEF c
  <2>3. c = r
    BY <1>1, <1>4, <2>1, RateFields
  <2> QED
    BY <2>2, <2>3
<1> QED
  BY <1>2, <1>5, <1>6

\* What is summed for each field is summed for all lines.
LEMMA FieldsAddUp ==
  ASSUME NEW items \in Seq(Item), AreMapped(items), NEW f, IntsOn(f, DOMAIN items), NEW g,
         \A r \in Rates(items) : g[VatRateFields[r]] = SumFunctionOnSet(f, Lines(items, r))
  PROVE  /\ IntsOn(g, Fields(items))
         /\ SumFunctionOnSet(g, Fields(items)) = SumFunctionOnSet(f, DOMAIN items)
<1> DEFINE S == DOMAIN items
           C == Fields(items)
           class == [k \in S |-> VatRateFields[items[k].vat]]
<1>1. IsFiniteSet(S) /\ IsFiniteSet(C) /\ class \in [S -> C]
  BY LineSum, FieldTypes DEF Fields
<1>2. ASSUME NEW c \in C PROVE g[c] = SumFunctionOnSet(f, Class(class, S, c))
  <2>1. PICK k \in S : c = VatRateFields[items[k].vat]
    BY DEF Fields
  <2>2. items[k].vat \in Rates(items)
    BY DEF Rates
  <2>3. Class(class, S, c) = Lines(items, items[k].vat)
    BY <2>1, RateFields DEF Class, Lines, AreMapped
  <2> QED
    BY <2>1, <2>2, <2>3
<1> HIDE DEF S, C, class
<1>3. IntsOn(f, S)
  BY DEF S
<1>4. IntsOn(g, C) /\ SumFunctionOnSet(g, C) = SumFunctionOnSet(f, S)
  BY <1>1, <1>2, <1>3, SumByClass
<1> QED
  BY <1>4 DEF C, S

\* The same sum, written over the lines of a rate.
LEMMA RateSum ==
  ASSUME NEW items \in Seq(Item), NEW r
  PROVE  /\ SumFunction([k \in Lines(items, r) |-> items[k].net])
            = SumFunctionOnSet([k \in DOMAIN items |-> items[k].net], Lines(items, r))
         /\ SumFunction([k \in Lines(items, r) |-> items[k].tax])
            = SumFunctionOnSet([k \in DOMAIN items |-> items[k].tax], Lines(items, r))
<1> DEFINE T == Lines(items, r)
           net == [k \in T |-> items[k].net]
           tax == [k \in T |-> items[k].tax]
           allNet == [k \in DOMAIN items |-> items[k].net]
           allTax == [k \in DOMAIN items |-> items[k].tax]
<1>1. T \in SUBSET (DOMAIN items)
  BY DEF Lines
<1>2. IsFiniteSet(T) /\ IntsOn(net, T) /\ IntsOn(tax, T)
  <2> HIDE DEF T
  <2> QED
    BY <1>1, LineSum
<1>3. (\A k \in T : net[k] = allNet[k]) /\ (\A k \in T : tax[k] = allTax[k])
  BY <1>1
<1>4. SumFunction(net) = SumFunctionOnSet(net, T) /\ SumFunction(tax) = SumFunctionOnSet(tax, T)
  BY DEF SumFunction
<1> HIDE DEF T, net, tax, allNet, allTax
<1>5. SumFunctionOnSet(net, T) = SumFunctionOnSet(allNet, T)
  BY <1>2, <1>3, SumSame
<1>6. SumFunctionOnSet(tax, T) = SumFunctionOnSet(allTax, T)
  BY <1>2, <1>3, SumSame
<1> QED
  BY <1>4, <1>5, <1>6 DEF T, net, tax, allNet, allTax

\* So the totals of the document add up to those of the lines.
LEMMA TotalsAddUp ==
  ASSUME NEW i, i.items \in Seq(Item), AreMapped(i.items)
  PROVE  LET totals == VatTotals(i) IN
         /\ DOMAIN totals \subseteq 1..4
         /\ SumFunction([n \in DOMAIN totals |-> totals[n].net]) = Net(i.items)
         /\ SumFunction([n \in DOMAIN totals |-> totals[n].tax]) = Tax(i.items)
         /\ SumFunction([n \in DOMAIN totals |-> totals[n].net + totals[n].tax])
            = Net(i.items) + Tax(i.items)
<1> DEFINE items == i.items
           C == Fields(items)
           totals == VatTotals(i)
           S == DOMAIN items
           net == [k \in S |-> items[k].net]
           tax == [k \in S |-> items[k].tax]
           nets == [n \in C |-> totals[n].net]
           taxes == [n \in C |-> totals[n].tax]
           both == [n \in C |-> totals[n].net + totals[n].tax]
<1>1. DOMAIN totals = C /\ C \subseteq 1..4 /\ IsFiniteSet(C)
  BY TotalsAre, FieldTypes
<1>2. IntsOn(net, S) /\ IntsOn(tax, S)
  BY LineSum
<1>3. /\ Net(items) = SumFunctionOnSet(net, S) /\ Tax(items) = SumFunctionOnSet(tax, S)
      /\ SumFunction(nets) = SumFunctionOnSet(nets, C)
      /\ SumFunction(taxes) = SumFunctionOnSet(taxes, C)
      /\ SumFunction(both) = SumFunctionOnSet(both, C)
  BY DEF Net, Tax, SumFunction
<1>4. ASSUME NEW r \in Rates(items)
      PROVE  /\ nets[VatRateFields[r]] = SumFunctionOnSet(net, Lines(items, r))
             /\ taxes[VatRateFields[r]] = SumFunctionOnSet(tax, Lines(items, r))
  <2>1. VatRateFields[r] \in C
    BY DEF Rates, Fields
  <2>2. totals[VatRateFields[r]] =
          [net |-> SumFunction([k \in Lines(items, r) |-> items[k].net]),
           tax |-> SumFunction([k \in Lines(items, r) |-> items[k].tax])]
    BY TotalsAre
  <2>3. /\ totals[VatRateFields[r]].net = SumFunction([k \in Lines(items, r) |-> items[k].net])
        /\ totals[VatRateFields[r]].tax = SumFunction([k \in Lines(items, r) |-> items[k].tax])
    BY <2>2
  <2> HIDE DEF totals
  <2> QED
    BY <2>1, <2>3, RateSum
<1>5. \A n \in C : both[n] = nets[n] + taxes[n]
  OBVIOUS
<1>6. items \in Seq(Item) /\ AreMapped(items)
  OBVIOUS
<1> HIDE DEF items, totals, net, tax, nets, taxes, both
<1>7. IntsOn(nets, C) /\ SumFunctionOnSet(nets, C) = SumFunctionOnSet(net, S)
  BY <1>2, <1>4, <1>6, FieldsAddUp
<1>8. IntsOn(taxes, C) /\ SumFunctionOnSet(taxes, C) = SumFunctionOnSet(tax, S)
  BY <1>2, <1>4, <1>6, FieldsAddUp
<1> HIDE DEF C, S
<1>9. SumFunctionOnSet(both, C) = SumFunctionOnSet(nets, C) + SumFunctionOnSet(taxes, C)
  <2>1. IsFiniteSet(C) /\ IntsOn(nets, C) /\ IntsOn(taxes, C)
    BY <1>1, <1>7, <1>8
  <2> QED
    BY <1>5, <2>1, SumPlus
<1>10. SumFunction(nets) = Net(items)
  BY <1>3, <1>7
<1>11. SumFunction(taxes) = Tax(items)
  BY <1>3, <1>8
<1>12. SumFunction(both) = Net(items) + Tax(items)
  BY <1>3, <1>7, <1>8, <1>9
<1> QED
  BY <1>1, <1>10, <1>11, <1>12 DEF items, totals, nets, taxes, both

\* The row of an invoice: its lines are right and its sums are theirs.
RowIsRight(i) ==
  /\ i \in Document
  /\ \A k \in DOMAIN i.items : LineIsRight(i.items[k])
  /\ i.net = Net(i.items) /\ i.tax = Tax(i.items) /\ i.gross = Gross(i.items)

LEMMA RowNumbers ==
  ASSUME NEW i, RowIsRight(i)
  PROVE  /\ i.items \in Seq(Item) /\ Len(i.items) \in Nat
         /\ i.net \in Nat /\ i.tax \in Nat /\ i.gross = i.net + i.tax
<1>1. i.items \in Seq(Item) /\ \A k \in DOMAIN i.items : LineIsRight(i.items[k])
  BY DEF RowIsRight, Document
<1>2. Gross(i.items) = Net(i.items) + Tax(i.items) /\ Net(i.items) \in Nat /\ Tax(i.items) \in Nat
  BY <1>1, GrossIsNetAndTax
<1> QED
  BY <1>1, <1>2, LenProperties DEF RowIsRight

\* Such an invoice passes the checks of the sums.
LEMMA RowSumsAgree ==
  ASSUME NEW i, RowIsRight(i)
  PROVE  SumsAgree(i)
<1>1. i.net \in Int /\ i.tax \in Int /\ i.gross \in Int /\ Len(i.items) \in Nat
  BY RowNumbers
<1>2. i.gross = i.net + i.tax
  BY RowNumbers
<1>3. Net(i.items) = i.net /\ Tax(i.items) = i.tax /\ Gross(i.items) = i.gross
  BY DEF RowIsRight
<1>4. Distance(i.net, i.net) = 0 /\ Distance(i.tax, i.tax) = 0 /\ Distance(i.gross, i.gross) = 0
  BY <1>1 DEF Distance
<1>5. Distance(i.net + i.tax, i.gross) = 0
  BY <1>2, <1>4
<1> QED
  BY <1>1, <1>3, <1>4, <1>5 DEF SumsAgree

\* What the document says of an invoice.
LEMMA XmlIs ==
  ASSUME NEW i
  PROVE  /\ ToXml(i).P_1 = i.issue /\ ToXml(i).P_2 = i.numbered
         /\ ToXml(i).KodWaluty = i.currency
         /\ ToXml(i).Podmiot1 = Podmiot1(i.seller) /\ ToXml(i).Podmiot2 = Podmiot2(i.buyer)
         /\ ToXml(i).totals = VatTotals(i) /\ ToXml(i).P_15 = i.gross
         /\ ToXml(i).Platnosc = Platnosc(i)
         /\ DOMAIN ToXml(i).rows = DOMAIN i.items
         /\ \A k \in DOMAIN i.items :
              ToXml(i).rows[k] = [P_8B |-> i.items[k].quantity, P_9A |-> i.items[k].price,
                                  P_11 |-> i.items[k].net, P_12 |-> LineVatRate(i.items[k].vat)]
BY DEF ToXml

\* A rate that FA(3) knows is read as it was written.
ReadRate(p12) == IF p12 = ZeroKR THEN 0 ELSE p12
LEMMA RateReadBack ==
  ASSUME NEW vat \in DOMAIN VatRateFields
  PROVE  ReadRate(LineVatRate(vat)) = vat /\ vat \in Int /\ vat \in 0..100
<1>1. vat \in {23, 8, 5, 0}
  BY RateFields
<1>2. vat # 0 => vat # ZeroKR
  BY <1>1, DocumentsAssumption
<1> QED
  BY <1>1, <1>2 DEF ReadRate, LineVatRate

\* The rows of the document.
LEMMA RowsAre ==
  ASSUME NEW i, RowIsRight(i), IsMapped(i), NEW x, x = ToXml(i)
  PROVE  /\ AreMapped(i.items)
         /\ DOMAIN x.rows = DOMAIN i.items
         /\ \A k \in DOMAIN i.items :
              /\ x.rows[k].P_8B = i.items[k].quantity /\ x.rows[k].P_9A = i.items[k].price
              /\ x.rows[k].P_11 = i.items[k].net
              /\ ReadRate(x.rows[k].P_12) = i.items[k].vat
<1>1. AreMapped(i.items)
  BY DEF IsMapped, AreMapped
<1>2. DOMAIN x.rows = DOMAIN i.items
  BY XmlIs
<1>3. ASSUME NEW k \in DOMAIN i.items
      PROVE  /\ x.rows[k].P_8B = i.items[k].quantity /\ x.rows[k].P_9A = i.items[k].price
             /\ x.rows[k].P_11 = i.items[k].net
             /\ ReadRate(x.rows[k].P_12) = i.items[k].vat
  <2>1. x.rows[k] = [P_8B |-> i.items[k].quantity, P_9A |-> i.items[k].price,
                     P_11 |-> i.items[k].net, P_12 |-> LineVatRate(i.items[k].vat)]
    BY XmlIs
  <2>2. ReadRate(LineVatRate(i.items[k].vat)) = i.items[k].vat
    BY <1>1, RateReadBack DEF AreMapped
  <2> QED
    BY <2>1, <2>2
<1> QED
  BY <1>1, <1>2, <1>3

\* The VAT of a rate is that of its net but for half a grosz a line.
LEMMA RateTaxRounded ==
  ASSUME NEW items \in Seq(Item), \A k \in DOMAIN items : LineIsRight(items[k]), NEW r \in 0..100
  PROVE  LET net == SumFunction([k \in Lines(items, r) |-> items[k].net])
             tax == SumFunction([k \in Lines(items, r) |-> items[k].tax]) IN
         2 * Distance(100 * tax, r * net) <= 100 * Cardinality(Lines(items, r))
<1> DEFINE T == Lines(items, r)
           net == [k \in T |-> items[k].net]
           tax == [k \in T |-> items[k].tax]
<1>1. T \in SUBSET (DOMAIN items)
  BY DEF Lines
<1>2. IsFiniteSet(T) /\ IntsOn(net, T) /\ IntsOn(tax, T)
  <2> HIDE DEF T
  <2> QED
    BY <1>1, LineSum
<1>3. \A k \in T : 100 * tax[k] - r * net[k] \in (-50)..50
  <2>1. ASSUME NEW k \in T PROVE 100 * items[k].tax - r * items[k].net \in (-50)..50
    BY <1>1 DEF Lines, LineIsRight
  <2> QED
    BY <2>1
<1>4. SumFunction(net) = SumFunctionOnSet(net, T) /\ SumFunction(tax) = SumFunctionOnSet(tax, T)
  BY DEF SumFunction
<1>5. Cardinality(T) \in Nat
  BY <1>2, FS_CardinalityType
<1>6. 100 \in Int /\ 50 \in Nat /\ r \in Int
  OBVIOUS
<1> DEFINE n == SumFunctionOnSet(net, T)
           t == SumFunctionOnSet(tax, T)
           c == Cardinality(T)
<1> HIDE DEF T, net, tax
<1>7. 100 * t - r * n \in (-(50 * c))..(50 * c)
  BY <1>2, <1>3, <1>6, SumRounded
<1>8. n \in Int /\ t \in Int /\ c \in Nat
  BY <1>2, <1>5, SumInt
<1> HIDE DEF n, t, c
<1>9. 2 * Distance(100 * t, r * n) <= 100 * c
  <2>1. r * n \in Int
    BY <1>6, <1>8
  <2> DEFINE y == r * n
  <2>2. y \in Int /\ 100 * t - y \in (-(50 * c))..(50 * c)
    BY <1>7, <2>1
  <2> HIDE DEF y
  <2>3. 2 * Distance(100 * t, y) <= 100 * c
    BY <1>8, <2>2 DEF Distance
  <2> QED
    BY <2>3 DEF y
<1> QED
  BY <1>4, <1>9 DEF n, t, c, T, net, tax

\* The document of a row that is right adds up.
LEMMA XmlAddsUp ==
  ASSUME NEW i, RowIsRight(i), IsMapped(i), sent = ToXml(i)
  PROVE  SentAddsUp
<1> DEFINE items == i.items
<1>0. items \in Seq(Item) /\ AreMapped(items) /\ \A k \in DOMAIN items : LineIsRight(items[k])
  BY RowNumbers, RowsAre DEF RowIsRight
<1>1. /\ DOMAIN sent.rows = DOMAIN items
      /\ \A k \in DOMAIN items :
           /\ sent.rows[k].P_8B = items[k].quantity /\ sent.rows[k].P_9A = items[k].price
           /\ sent.rows[k].P_11 = items[k].net
           /\ ReadRate(sent.rows[k].P_12) = items[k].vat
  BY RowsAre
<1>2. sent.totals = VatTotals(i) /\ sent.P_15 = i.gross
  BY XmlIs
<1>3. \A k \in DOMAIN sent.rows :
        2 * Distance(sent.rows[k].P_8B * sent.rows[k].P_9A, sent.rows[k].P_11)
          <= sent.rows[k].P_8B + 1
  BY <1>0, <1>1 DEF LineIsRight
<1>4. {ReadRate(sent.rows[k].P_12) : k \in DOMAIN sent.rows} = Rates(items)
  BY <1>1 DEF Rates
<1>5. ASSUME NEW r \in Rates(items)
      PROVE  LET total == sent.totals[VatRateFields[r]]
                 lines == {k \in DOMAIN sent.rows : ReadRate(sent.rows[k].P_12) = r} IN
             /\ total.net = SumFunction([k \in lines |-> sent.rows[k].P_11])
             /\ 2 * Distance(100 * total.tax, r * total.net) <= 100 * Cardinality(lines)
  <2> DEFINE lines == {k \in DOMAIN sent.rows : ReadRate(sent.rows[k].P_12) = r}
             total == sent.totals[VatRateFields[r]]
  <2>1. lines = Lines(items, r)
    BY <1>1 DEF Lines
  <2>2. total = [net |-> SumFunction([k \in Lines(items, r) |-> items[k].net]),
                 tax |-> SumFunction([k \in Lines(items, r) |-> items[k].tax])]
    BY <1>0, <1>2, TotalsAre
  <2>3. [k \in lines |-> sent.rows[k].P_11] = [k \in Lines(items, r) |-> items[k].net]
    <3>1. Lines(items, r) \subseteq DOMAIN items
      BY DEF Lines
    <3> HIDE DEF items, lines
    <3> QED
      BY <1>1, <2>1, <3>1
  <2>4. r \in 0..100
    BY <1>0, RateReadBack DEF Rates, AreMapped
  <2>5. /\ total.net = SumFunction([k \in Lines(items, r) |-> items[k].net])
        /\ total.tax = SumFunction([k \in Lines(items, r) |-> items[k].tax])
    BY <2>2
  <2> HIDE DEF total, items, lines
  <2>6. 2 * Distance(100 * total.tax, r * total.net) <= 100 * Cardinality(Lines(items, r))
    BY <1>0, <2>4, <2>5, RateTaxRounded
  <2> QED
    BY <2>1, <2>3, <2>5, <2>6 DEF total, lines
<1>6. sent.P_15 = SumFunction([n \in DOMAIN sent.totals |->
                                 sent.totals[n].net + sent.totals[n].tax])
  BY <1>0, <1>2, TotalsAddUp, RowNumbers DEF RowIsRight
<1> HIDE DEF items
<1> QED
  BY <1>3, <1>4, <1>5, <1>6 DEF SentAddsUp, ReadRate

-----------------------------------------------------------------------------
(* What the buyer reads *)

\* An invoice that a submission lets through.
Sendable(i) ==
  /\ IsMapped(i) /\ IsValidNip(i.seller.nip) /\ IsValidNip(i.buyer.nip)
  /\ i.direction = "sale" => i.numbered

\* A party whose NIP needs no prefix cut off is read as it was.
LEMMA PartyReadBack ==
  ASSUME NEW p \in Parties, IsValidNip(p.nip)
  PROVE  ParseSubject(Podmiot1(p)) = ReadAs(p) /\ ParseSubject(Podmiot2(p)) = ReadAs(p)
BY DEF Parties, NipKinds, IsValidNip, NormalizeNip, ParseSubject, Podmiot1, Podmiot2, ReadAs, AdresL1

\* The fields of the totals are all among those that the parser adds up.
LEMMA ExtractedTotals ==
  ASSUME NEW i, RowIsRight(i), IsMapped(i), NEW x, x = ToXml(i)
  PROVE  ExtractNet(x) = i.net /\ ExtractTax(x) = i.tax /\ ExtractGross(x) = i.gross
<1>1. x.totals = VatTotals(i) /\ x.P_15 = i.gross /\ i.items \in Seq(Item) /\ AreMapped(i.items)
  BY XmlIs, RowNumbers, RowsAre
<1>2. /\ DOMAIN x.totals \subseteq 1..4
      /\ SumFunction([n \in DOMAIN x.totals |-> x.totals[n].net]) = Net(i.items)
      /\ SumFunction([n \in DOMAIN x.totals |-> x.totals[n].tax]) = Tax(i.items)
  BY <1>1, TotalsAddUp
<1>3. /\ DOMAIN x.totals \intersect P13Fields = DOMAIN x.totals
      /\ DOMAIN x.totals \intersect P14Fields = DOMAIN x.totals
  BY <1>2 DEF P13Fields, P14Fields
<1>4. ExtractNet(x) = Net(i.items) /\ ExtractTax(x) = Tax(i.items)
  BY <1>2, <1>3 DEF ExtractNet, ExtractTax
<1>5. ExtractNet(x) = i.net /\ ExtractTax(x) = i.tax
  BY <1>4 DEF RowIsRight
<1>6. i.net \in Nat /\ i.tax \in Nat /\ i.gross = i.net + i.tax
  BY RowNumbers
<1> QED
  BY <1>1, <1>5, <1>6 DEF ExtractGross

\* The method of payment has a code of its own.
LEMMA MethodReadBack ==
  ASSUME NEW i, i.method \in Methods, NEW x, x.Platnosc = Platnosc(i)
  PROVE  ExtractPaymentMethod(x) = i.method /\ ExtractDueDate(x) = i.due
BY DEF Methods, Platnosc, FormaPlatnosci, ExtractPaymentMethod, ExtractDueDate

\* The fields of a line that are read as they are.
LEMMA LineReadBack ==
  ASSUME NEW row
  PROVE  /\ ParseItem(row).quantity = row.P_8B /\ ParseItem(row).price = row.P_9A
         /\ ParseItem(row).vat = ReadRate(row.P_12) /\ ParseItem(row).net = row.P_11
BY DEF ParseItem, ReadRate

\* What is read of an invoice that was let through.
LEMMA ReadBack ==
  ASSUME NEW i, RowIsRight(i), Sendable(i), NEW y, y = Parse(ToXml(i))
  PROVE  /\ y.issue = i.issue /\ y.due = i.due /\ y.method = i.method
         /\ y.currency = i.currency /\ y.net = i.net /\ y.tax = i.tax /\ y.gross = i.gross
         /\ y.seller = ReadAs(i.seller) /\ y.buyer = ReadAs(i.buyer)
         /\ Len(y.items) = Len(i.items)
         /\ \A k \in DOMAIN i.items :
              /\ y.items[k].quantity = i.items[k].quantity /\ y.items[k].price = i.items[k].price
              /\ y.items[k].vat = i.items[k].vat /\ y.items[k].net = i.items[k].net
         /\ y.number = i.numbered
<1> DEFINE x == ToXml(i)
<1>0. IsMapped(i) /\ IsValidNip(i.seller.nip) /\ IsValidNip(i.buyer.nip)
  BY DEF Sendable
<1>1. i \in Document /\ i.method \in Methods /\ i.seller \in Parties /\ i.buyer \in Parties
  BY DEF RowIsRight, Document
<1>2. /\ y.issue = x.P_1 /\ y.due = ExtractDueDate(x) /\ y.method = ExtractPaymentMethod(x)
      /\ y.currency = x.KodWaluty /\ y.net = ExtractNet(x) /\ y.tax = ExtractTax(x)
      /\ y.gross = ExtractGross(x) /\ y.seller = ParseSubject(x.Podmiot1)
      /\ y.buyer = ParseSubject(x.Podmiot2) /\ y.number = x.P_2
      /\ y.items = [k \in DOMAIN x.rows |-> ParseItem(x.rows[k])]
  <2> HIDE DEF x
  <2>1. y = Parse(x)
    BY DEF x
  <2> QED
    BY <2>1 DEF Parse
<1>3. /\ x.P_1 = i.issue /\ x.P_2 = i.numbered /\ x.KodWaluty = i.currency
      /\ x.Podmiot1 = Podmiot1(i.seller) /\ x.Podmiot2 = Podmiot2(i.buyer)
      /\ x.Platnosc = Platnosc(i)
  BY XmlIs
<1>4. /\ DOMAIN x.rows = DOMAIN i.items
      /\ \A k \in DOMAIN i.items :
           /\ x.rows[k].P_8B = i.items[k].quantity /\ x.rows[k].P_9A = i.items[k].price
           /\ x.rows[k].P_11 = i.items[k].net /\ ReadRate(x.rows[k].P_12) = i.items[k].vat
  BY <1>0, RowsAre
<1>5. ExtractNet(x) = i.net /\ ExtractTax(x) = i.tax /\ ExtractGross(x) = i.gross
  BY <1>0, ExtractedTotals
<1> HIDE DEF x
<1>6. y.due = i.due /\ y.method = i.method
  BY <1>1, <1>2, <1>3, MethodReadBack
<1>7. y.seller = ReadAs(i.seller) /\ y.buyer = ReadAs(i.buyer)
  BY <1>0, <1>1, <1>2, <1>3, PartyReadBack
<1>8. /\ DOMAIN y.items = DOMAIN i.items
      /\ \A k \in DOMAIN i.items : y.items[k] = ParseItem(x.rows[k])
  BY <1>2, <1>4
<1>9. ASSUME NEW k \in DOMAIN i.items
      PROVE  /\ y.items[k].quantity = i.items[k].quantity /\ y.items[k].price = i.items[k].price
             /\ y.items[k].vat = i.items[k].vat /\ y.items[k].net = i.items[k].net
  <2>1. y.items[k] = ParseItem(x.rows[k])
    BY <1>8
  <2> QED
    BY <1>4, <2>1, LineReadBack
<1>10. Len(y.items) = Len(i.items)
  <2>1. i.items \in Seq(Item) /\ DOMAIN i.items = 1..Len(i.items) /\ Len(i.items) \in Nat
    BY RowNumbers, LenProperties
  <2>2. y.items \in [1..Len(i.items) -> {y.items[k] : k \in DOMAIN i.items}]
    BY <1>2, <1>4, <2>1
  <2> DEFINE n == Len(i.items)
             s == {y.items[k] : k \in DOMAIN i.items}
             f == y.items
  <2>3. n \in Nat /\ f \in [1..n -> s]
    BY <2>1, <2>2
  <2> HIDE DEF n, s, f
  <2>4. Len(f) = n
    BY <2>3, IsSequence
  <2> QED
    BY <2>4 DEF f, n
<1> QED
  BY <1>2, <1>3, <1>5, <1>6, <1>7, <1>9, <1>10

-----------------------------------------------------------------------------
(* Content *)

\* The company and the snapshot of the contractor are parties.
LEMMA PartyTypes ==
  ASSUME settings \in Parties, contractor \in Parties,
         override \in [name: Names \union {NoText, None}, street: Streets \union {NoText, None}]
  PROVE  Company \in Parties /\ Snapshot(override) \in Parties
<1>1. Configured \in Parties
  BY DocumentsAssumption
<1>2. Company \in Parties
  BY <1>1 DEF Company, FixedOrDb, Parties
<1>3. Snapshot(override) \in Parties
  BY DEF Snapshot, Overridden, Parties
<1> QED
  BY <1>2, <1>3

\* What the user sees of the contractor is the snapshot, unless a field of it
\* is overridden with nothing.
LEMMA ShownIsSnapshot ==
  ASSUME ShownContractor # None
  PROVE  ShownContractor = Snapshot(override)
BY DEF ShownContractor, Snapshot, Shown, Overridden

\* The day of a table of NBP is a day.
LEMMA MidRateType ==
  ASSUME NEW day \in Int
  PROVE  MidRate(day) \in Int \union {None}
<1> DEFINE T == {d \in Published : d \in (day - 7)..day}
<1>1. T \subseteq Int
  BY DocumentsAssumption
<1>2. CASE T = {}
  BY <1>2 DEF MidRate
<1>3. CASE T # {}
  <2>1. IsFiniteSet((day - 7)..day)
    BY FS_Interval
  <2>2. \E x \in T : \A y \in T : x >= y
    <3> DEFINE B == {day - t : t \in T}
    <3>1. B \in SUBSET Nat /\ B # {}
      BY <1>1, <1>3
    <3>2. PICK m \in B : \A n \in B : m <= n
      <4> HIDE DEF B
      <4> QED
        BY <3>1, NatLeast
    <3>3. PICK x \in T : m = day - x
      BY <3>2
    <3>4. ASSUME NEW y \in T PROVE x >= y
      <4>1. day - y \in B
        OBVIOUS
      <4>2. m <= day - y
        BY <3>2, <4>1
      <4> QED
        BY <1>1, <3>3, <4>2
    <3> QED
      BY <3>4
  <2>3. Max(T) \in T
    BY <2>2 DEF Max
  <2>4. MidRate(day) = Max(T)
    BY <1>3 DEF MidRate
  <2> QED
    BY <1>1, <2>3, <2>4
<1> QED
  BY <1>2, <1>3

\* The part of a row that the form does not give.
Header ==
  [status: {"ready", "sending", "accepted", "rejected"}, direction: {"sale", "purchase"},
   numbered: BOOLEAN, rate: Int \union {None}, due: Int \union {None}]

\* A form that is right becomes a row that is right.
LEMMA ContentIsRight ==
  ASSUME NEW f \in InvoiceCreateRequest, NEW h \in Header, FormIsRight(f, h.direction),
         Company \in Parties, Snapshot(override) \in Parties
  PROVE  /\ RowIsRight(ToOrm(WithContent(h, f)))
         /\ ToOrm(WithContent(h, f)).status = h.status
         /\ ToOrm(WithContent(h, f)).direction = h.direction
         /\ ToOrm(WithContent(h, f)).buyer =
              IF h.direction = "sale" THEN Snapshot(override) ELSE Company
<1> DEFINE built == [k \in DOMAIN f.items |-> BuildItem(f.items[k])]
           rows == [k \in DOMAIN built |-> ItemToOrm(built[k])]
           w == WithContent(h, f)
           i == ToOrm(WithContent(h, f))
           n == Len(f.items)
<1>1. f.items \in Seq(InvoiceItemInput) /\ n \in Nat /\ DOMAIN f.items = 1..n
  BY LenProperties DEF InvoiceCreateRequest
<1>2. \A k \in 1..n : f.items[k] \in InvoiceItemInput /\ ItemIsRight(f.items[k])
  BY <1>1 DEF FormIsRight
<1>3. DOMAIN built = 1..n /\ DOMAIN rows = 1..n
  BY <1>1
<1>4. ASSUME NEW k \in 1..n
      PROVE  /\ built[k] \in Item /\ rows[k] \in Item /\ LineIsRight(rows[k])
             /\ rows[k].net = built[k].net /\ rows[k].tax = built[k].tax
             /\ rows[k].gross = built[k].gross
  <2>1. built[k] = BuildItem(f.items[k]) /\ rows[k] = ItemToOrm(BuildItem(f.items[k]))
    BY <1>1
  <2> HIDE DEF built, rows
  <2> QED
    BY <1>2, <2>1, BuiltLine
<1>5. built \in [1..n -> Item] /\ rows \in [1..n -> Item]
  BY <1>1, <1>3, <1>4
<1>6. /\ Net(built) = Net(rows) /\ Tax(built) = Tax(rows) /\ Gross(built) = Gross(rows)
  <2>1. /\ [k \in DOMAIN built |-> built[k].net] = [k \in DOMAIN rows |-> rows[k].net]
        /\ [k \in DOMAIN built |-> built[k].tax] = [k \in DOMAIN rows |-> rows[k].tax]
        /\ [k \in DOMAIN built |-> built[k].gross] = [k \in DOMAIN rows |-> rows[k].gross]
    <3> HIDE DEF built, rows
    <3> QED
      BY <1>3, <1>4
  <2> QED
    BY <2>1 DEF Net, Tax, Gross
<1>7. /\ w.status = h.status /\ w.direction = h.direction /\ w.numbered = h.numbered
      /\ w.rate = h.rate /\ w.due = h.due
      /\ w.seller = (IF h.direction = "sale" THEN Company ELSE Snapshot(override))
      /\ w.buyer = (IF h.direction = "sale" THEN Snapshot(override) ELSE Company)
      /\ w.issue = f.issue /\ w.sale = f.sale /\ w.delivery = f.delivery /\ w.method = Paid(f)
      /\ w.currency = f.currency /\ w.items = built
      /\ w.net = Net(built) /\ w.tax = Tax(built) /\ w.gross = Gross(built)
  BY DEF WithContent
<1>8. i = [status |-> w.status, direction |-> w.direction, numbered |-> w.numbered,
           rate |-> w.rate, due |-> w.due, seller |-> w.seller, buyer |-> w.buyer,
           issue |-> w.issue, sale |-> w.sale, delivery |-> w.delivery, method |-> w.method,
           currency |-> w.currency, items |-> rows, net |-> w.net, tax |-> w.tax,
           gross |-> w.gross]
  <2>1. w = [status |-> w.status, direction |-> w.direction, numbered |-> w.numbered,
             rate |-> w.rate, due |-> w.due, seller |-> w.seller, buyer |-> w.buyer,
             issue |-> w.issue, sale |-> w.sale, delivery |-> w.delivery, method |-> w.method,
             currency |-> w.currency, items |-> w.items, net |-> w.net, tax |-> w.tax,
             gross |-> w.gross]
    BY DEF WithContent
  <2>2. w.items = built
    BY <1>7
  <2> HIDE DEF w
  <2>3. i = [w EXCEPT !.items = rows]
    BY <2>2 DEF ToOrm, w
  <2> QED
    BY <2>1, <2>3
<1>9. rows \in Seq(Item) /\ DOMAIN rows = 1..n
  <2> HIDE DEF rows
  <2> QED
    BY <1>1, <1>5, IsSequence
<1>10. Net(rows) \in Int /\ Tax(rows) \in Int /\ Gross(rows) \in Int
  <2> HIDE DEF rows
  <2> QED
    BY <1>9, SumsAreNumbers
<1>11. Paid(f) \in Methods
  BY DEF FormIsRight, Paid, Methods
<1>12. /\ f.issue \in Int /\ f.sale \in Int /\ f.delivery \in Int \union {None}
       /\ f.currency \in {"PLN", "EUR"}
  BY DEF InvoiceCreateRequest
<1>13. /\ h.status \in {"ready", "sending", "accepted", "rejected"}
       /\ h.direction \in {"sale", "purchase"} /\ h.numbered \in BOOLEAN
       /\ h.rate \in Int \union {None} /\ h.due \in Int \union {None}
  BY DEF Header
<1> HIDE DEF built, rows, w, i, n
<1>14. i \in Document
  BY <1>6, <1>7, <1>8, <1>9, <1>10, <1>11, <1>12, <1>13 DEF Document
<1>15. /\ i.items = rows /\ i.net = Net(rows) /\ i.tax = Tax(rows) /\ i.gross = Gross(rows)
       /\ i.status = h.status /\ i.direction = h.direction
       /\ i.buyer = IF h.direction = "sale" THEN Snapshot(override) ELSE Company
  BY <1>6, <1>7, <1>8
<1>16. RowIsRight(i)
  BY <1>4, <1>9, <1>14, <1>15 DEF RowIsRight
<1> QED
  BY <1>15, <1>16 DEF i

-----------------------------------------------------------------------------
(* The inductive invariant *)

DocumentsTypes ==
  /\ settings \in Parties /\ contractor \in Parties \union {None}
  /\ override \in [name: Names \union {NoText, None}, street: Streets \union {NoText, None}]
  /\ stored \in Document \union {NoDocument}
  /\ refusal \in Refusals \union {None} /\ changes \in Nat

\* A stored invoice was entered for a contractor that is still there, adds up,
\* and names the buyer that the user saw.
RowHolds ==
  stored # NoDocument =>
    /\ RowIsRight(stored) /\ contractor \in Parties
    /\ entered # None => stored.buyer = entered

\* The document of a row that is under way, or was, is the document of the row
\* as it is now: what changes the row afterwards takes the document away.
IsUnderWay == stored # NoDocument /\ stored.status \in {"sending", "accepted"}
DocumentIsOfRow ==
  sent # None \/ IsUnderWay =>
    stored # NoDocument /\ Sendable(stored) /\ sent = ToXml(stored)

\* Only an accepted invoice is received, and nothing changes one.
ReceivedIsRead ==
  received # None =>
    /\ stored # NoDocument /\ stored.status = "accepted"
    /\ received = Parse(sent)

DocumentsIInv ==
  /\ DocumentsTypes /\ RowHolds /\ DocumentIsOfRow /\ ReceivedIsRead
  /\ NotRefusedForItsSums

\* A row is there.
LEMMA DocumentIsThere == \A i \in Document : i # NoDocument
BY DocumentsAssumption

LEMMA DocumentsStart == DocumentsInit => DocumentsIInv
<1> SUFFICES ASSUME DocumentsInit PROVE DocumentsIInv
  OBVIOUS
<1>1. DocumentsTypes
  BY DocumentsAssumption DEF DocumentsInit, DocumentsTypes, NoOverride
<1>2. RowHolds /\ DocumentIsOfRow /\ ReceivedIsRead
  BY DEF DocumentsInit, RowHolds, DocumentIsOfRow, IsUnderWay, ReceivedIsRead
<1>3. NotRefusedForItsSums
  BY DocumentsAssumption DEF DocumentsInit, NotRefusedForItsSums, Refusals
<1> QED
  BY <1>1, <1>2, <1>3 DEF DocumentsIInv

\* Contractors and settings may change at any time: the row has its own copy.
LEMMA PartiesKeep ==
  ASSUME DocumentsIInv, DocumentsTypes',
         UNCHANGED <<stored, entered, sent, received, refusal>>,
         contractor' = contractor \/ contractor' \in Parties
  PROVE  DocumentsIInv'
<1>1. RowHolds'
  BY DEF DocumentsIInv, RowHolds
<1>2. DocumentIsOfRow' /\ ReceivedIsRead' /\ NotRefusedForItsSums'
  BY DEF DocumentsIInv, DocumentIsOfRow, IsUnderWay, ReceivedIsRead, NotRefusedForItsSums
<1> QED
  BY <1>1, <1>2 DEF DocumentsIInv

LEMMA PartyStep ==
  ASSUME DocumentsIInv,
         \/ \E c \in Companies : UpdateSettings(c)
         \/ \E p \in Contractors : CreateManual(p)
         \/ \E answer \in Lookup : RegonSync(answer)
         \/ \E name \in Names \union {NoText, None}, street \in Streets \union {NoText, None} :
              UpdateOverride([name |-> name, street |-> street])
  PROVE  DocumentsIInv'
<1>0. DocumentsTypes /\ Companies \subseteq Parties /\ Contractors \subseteq Parties
  BY DocumentsAssumption DEF DocumentsIInv
<1>1. ASSUME NEW c \in Companies, UpdateSettings(c) PROVE DocumentsIInv'
  <2>1. DocumentsTypes'
    BY <1>0, <1>1 DEF UpdateSettings, Change, DocumentsTypes
  <2> QED
    BY <1>1, <2>1, PartiesKeep DEF UpdateSettings
<1>2. ASSUME NEW p \in Contractors, CreateManual(p) PROVE DocumentsIInv'
  <2>1. DocumentsTypes' /\ contractor' \in Parties
    BY <1>0, <1>2 DEF CreateManual, DocumentsTypes
  <2> QED
    BY <1>2, <2>1, PartiesKeep DEF CreateManual
<1>3. ASSUME NEW answer \in Lookup, RegonSync(answer) PROVE DocumentsIInv'
  <2>1. answer \in RegonAnswers
    BY <1>3 DEF RegonSync, Lookup
  <2>2. answer \in Parties
    BY <2>1 DEF RegonAnswers, Parties, NipKinds
  <2>3. DocumentsTypes' /\ contractor' \in Parties
    BY <1>0, <1>3, <2>2 DEF RegonSync, Change, DocumentsTypes
  <2> QED
    BY <1>3, <2>3, PartiesKeep DEF RegonSync
<1>4. ASSUME NEW name \in Names \union {NoText, None}, NEW street \in Streets \union {NoText, None},
             UpdateOverride([name |-> name, street |-> street])
      PROVE  DocumentsIInv'
  <2>1. DocumentsTypes'
    BY <1>0, <1>4 DEF UpdateOverride, Change, DocumentsTypes
  <2> QED
    BY <1>4, <2>1, PartiesKeep DEF UpdateOverride
<1> QED
  BY <1>1, <1>2, <1>3, <1>4

\* What is entered is the buyer of the row, or nothing is known of it.
LEMMA EnteredIsBuyer ==
  ASSUME NEW direction \in {"sale", "purchase"}, Entered(direction), entered' # None
  PROVE  entered' = IF direction = "sale" THEN Snapshot(override) ELSE Company
BY ShownIsSnapshot DEF Entered

LEMMA CreateStep ==
  ASSUME DocumentsIInv, NEW f \in CreateForms, CreateDocument(f)
  PROVE  DocumentsIInv'
<1>1. f \in InvoiceCreateRequest
  BY DocumentsAssumption
<1>2. contractor \in Parties /\ FormIsRight(f, f.direction) /\ stored = NoDocument
  BY DEF CreateDocument, DocumentsIInv, DocumentsTypes
<1>3. Company \in Parties /\ Snapshot(override) \in Parties
  BY <1>2, PartyTypes DEF DocumentsIInv, DocumentsTypes
<1>4. PICK rate \in RateOf(f) :
        stored' = ToOrm(WithContent(
          [status |-> "ready", direction |-> f.direction, numbered |-> FALSE, rate |-> rate,
           due |-> IF f.due = None THEN f.issue + 14 ELSE f.due], f))
  BY DEF CreateDocument
<1> DEFINE h == [status |-> "ready", direction |-> f.direction, numbered |-> FALSE, rate |-> rate,
                 due |-> IF f.due = None THEN f.issue + 14 ELSE f.due]
<1>5. h \in Header
  <2>1. f.issue \in Int /\ f.rate \in Int \union {None} /\ f.due \in Int \union {None}
        /\ f.direction \in {"sale", "purchase"}
    BY <1>1 DEF InvoiceCreateRequest
  <2>2. MidRate(f.issue - 1) \in Int \union {None}
    BY <2>1, MidRateType
  <2>3. rate \in Int \union {None}
    BY <2>1, <2>2 DEF RateOf
  <2>4. (IF f.due = None THEN f.issue + 14 ELSE f.due) \in Int \union {None}
    BY <2>1
  <2> QED
    BY <2>1, <2>3, <2>4 DEF Header
<1>6. h.direction = f.direction /\ h.status = "ready"
  OBVIOUS
<1>7. stored' = ToOrm(WithContent(h, f))
  BY <1>4
<1> HIDE DEF h
<1>8. /\ RowIsRight(stored') /\ stored'.status = "ready"
      /\ stored'.buyer = IF f.direction = "sale" THEN Snapshot(override) ELSE Company
  BY <1>1, <1>2, <1>3, <1>5, <1>6, <1>7, ContentIsRight
<1>9. stored' \in Document /\ stored' # NoDocument
  BY <1>8, DocumentIsThere DEF RowIsRight
<1>10. sent = None /\ received = None
  BY <1>2 DEF DocumentsIInv, DocumentIsOfRow, ReceivedIsRead
<1>11. sent' = sent /\ received' = received /\ refusal' = refusal /\ contractor' = contractor
       /\ settings' = settings /\ override' = override /\ changes' = changes
       /\ Entered(f.direction)
  BY DEF CreateDocument
<1>12. entered' # None => stored'.buyer = entered'
  <2>1. f.direction \in {"sale", "purchase"}
    BY <1>1 DEF InvoiceCreateRequest
  <2> QED
    BY <1>8, <1>11, <2>1, EnteredIsBuyer
<1>13. DocumentsTypes'
  BY <1>9, <1>11 DEF DocumentsIInv, DocumentsTypes
<1>14. RowHolds'
  BY <1>2, <1>8, <1>11, <1>12 DEF RowHolds
<1>15. DocumentIsOfRow' /\ ReceivedIsRead'
  BY <1>8, <1>10, <1>11 DEF DocumentIsOfRow, IsUnderWay, ReceivedIsRead
<1>16. NotRefusedForItsSums'
  BY <1>11 DEF DocumentsIInv, NotRefusedForItsSums
<1> QED
  BY <1>13, <1>14, <1>15, <1>16 DEF DocumentsIInv

LEMMA UpdateStep ==
  ASSUME DocumentsIInv, NEW f \in UpdateForms, UpdateDocument(f)
  PROVE  DocumentsIInv'
<1>1. f \in InvoiceCreateRequest
  BY DocumentsAssumption
<1>2. /\ stored # NoDocument /\ stored \in Document /\ contractor \in Parties
      /\ FormIsRight(f, stored.direction) /\ stored.status \in {"ready", "rejected"}
  BY DEF UpdateDocument, DocumentsIInv, DocumentsTypes, RowHolds
<1>3. Company \in Parties /\ Snapshot(override) \in Parties
  BY <1>2, PartyTypes DEF DocumentsIInv, DocumentsTypes
<1> DEFINE h == [status |-> stored.status, direction |-> stored.direction,
                 numbered |-> stored.numbered, rate |-> stored.rate, due |-> f.due]
<1>4. stored' = ToOrm(WithContent(h, f))
  BY DEF UpdateDocument
<1>5. h \in Header
  <2>1. f.due \in Int \union {None}
    BY <1>1 DEF InvoiceCreateRequest
  <2> QED
    BY <1>2, <2>1 DEF Header, Document
<1>6. h.direction = stored.direction /\ h.status = stored.status
  OBVIOUS
<1> HIDE DEF h
<1>8. /\ RowIsRight(stored') /\ stored'.status = stored.status
      /\ stored'.buyer = IF stored.direction = "sale" THEN Snapshot(override) ELSE Company
  BY <1>1, <1>2, <1>3, <1>4, <1>5, <1>6, ContentIsRight
<1>9. stored' \in Document /\ stored' # NoDocument
  BY <1>8, DocumentIsThere DEF RowIsRight
<1>10. received = None
  BY <1>2 DEF DocumentsIInv, ReceivedIsRead
<1>11. sent' = None /\ received' = received /\ refusal' = refusal /\ contractor' = contractor
       /\ settings' = settings /\ override' = override /\ changes' = changes + 1
       /\ Entered(stored.direction)
  BY DEF UpdateDocument, Change
<1>12. entered' # None => stored'.buyer = entered'
  <2>1. stored.direction \in {"sale", "purchase"}
    BY <1>2 DEF Document
  <2> QED
    BY <1>8, <1>11, <2>1, EnteredIsBuyer
<1>13. DocumentsTypes'
  BY <1>9, <1>11 DEF DocumentsIInv, DocumentsTypes
<1>14. RowHolds'
  BY <1>2, <1>8, <1>11, <1>12 DEF RowHolds
<1>15. DocumentIsOfRow' /\ ReceivedIsRead'
  BY <1>2, <1>8, <1>10, <1>11 DEF DocumentIsOfRow, IsUnderWay, ReceivedIsRead
<1>16. NotRefusedForItsSums'
  BY <1>11 DEF DocumentsIInv, NotRefusedForItsSums
<1> QED
  BY <1>13, <1>14, <1>15, <1>16 DEF DocumentsIInv

\* A row with the same lines and sums is as right.
LEMMA RowStaysRight ==
  ASSUME NEW i, RowIsRight(i), NEW j \in Document,
         j.items = i.items, j.net = i.net, j.tax = i.tax, j.gross = i.gross
  PROVE  RowIsRight(j)
BY DEF RowIsRight

\* The status is not in the document.
LEMMA StatusIsNotSent ==
  ASSUME NEW i \in Document, NEW status \in {"ready", "sending", "accepted", "rejected"},
         NEW j, j = [i EXCEPT !.status = status]
  PROVE  /\ j \in Document /\ ToXml(j) = ToXml(i) /\ (Sendable(j) <=> Sendable(i))
         /\ j.status = status /\ j.buyer = i.buyer
         /\ j.items = i.items /\ j.net = i.net /\ j.tax = i.tax /\ j.gross = i.gross
<1>1. /\ j.status = status /\ j.direction = i.direction /\ j.numbered = i.numbered
      /\ j.due = i.due /\ j.seller = i.seller /\ j.buyer = i.buyer
      /\ j.issue = i.issue /\ j.sale = i.sale /\ j.delivery = i.delivery
      /\ j.method = i.method /\ j.currency = i.currency /\ j.items = i.items
      /\ j.net = i.net /\ j.tax = i.tax /\ j.gross = i.gross
  BY DEF Document
<1>2. j \in Document
  BY DEF Document
<1>3. ToXml(j) = ToXml(i)
  <2>1. VatTotals(j) = VatTotals(i) /\ Platnosc(j) = Platnosc(i)
    BY <1>1 DEF VatTotals, Platnosc
  <2> QED
    BY <1>1, <2>1 DEF ToXml
<1>4. Sendable(j) <=> Sendable(i)
  BY <1>1 DEF Sendable, IsMapped
<1> QED
  BY <1>1, <1>2, <1>3, <1>4

\* A submission takes the company as it is now, and a number.
LEMMA PreparedIsRight ==
  ASSUME NEW i, RowIsRight(i), Company \in Parties
  PROVE  /\ RowIsRight(Prepared(i)) /\ Prepared(i).buyer = i.buyer
         /\ Prepared(i).direction = i.direction
         /\ i.direction = "sale" => Prepared(i).numbered
<1>1. i \in Document
  BY DEF RowIsRight
<1>2. CASE i.direction = "sale"
  <2> DEFINE j == [i EXCEPT !.seller = Company, !.numbered = TRUE]
  <2>1. Prepared(i) = j
    BY <1>2 DEF Prepared
  <2>2. /\ j \in Document /\ j.items = i.items /\ j.net = i.net /\ j.tax = i.tax
        /\ j.gross = i.gross /\ j.buyer = i.buyer /\ j.direction = i.direction /\ j.numbered
    BY <1>1 DEF Document
  <2> HIDE DEF j
  <2>3. RowIsRight(j)
    BY <2>2, RowStaysRight
  <2> QED
    BY <2>1, <2>2, <2>3
<1>3. CASE i.direction # "sale"
  BY <1>3 DEF Prepared
<1> QED
  BY <1>2, <1>3

LEMMA SubmitStep ==
  ASSUME DocumentsIInv, SubmitDocument
  PROVE  DocumentsIInv'
<1> DEFINE i == Prepared(stored)
<1>1. /\ stored # NoDocument /\ RowIsRight(stored) /\ contractor \in Parties
      /\ stored.status \in {"ready", "rejected"}
  BY DEF SubmitDocument, DocumentsIInv, RowHolds
<1>2. Company \in Parties
  BY <1>1, PartyTypes DEF DocumentsIInv, DocumentsTypes
<1>3. /\ RowIsRight(i) /\ i.buyer = stored.buyer /\ i.direction = stored.direction
      /\ i.direction = "sale" => i.numbered
  BY <1>1, <1>2, PreparedIsRight
<1>4. /\ settings' = settings /\ contractor' = contractor /\ override' = override
      /\ entered' = entered /\ received' = received /\ changes' = changes
  BY DEF SubmitDocument
<1>5. \/ /\ ReasonsToRefuse(i) = {} /\ stored' = [i EXCEPT !.status = "sending"]
         /\ sent' = ToXml(i) /\ refusal' = None
      \/ /\ refusal' \in ReasonsToRefuse(i) /\ stored' = stored /\ sent' = sent
  BY DEF SubmitDocument
<1> HIDE DEF i
<1>6. received' = None
  BY <1>1, <1>4 DEF DocumentsIInv, ReceivedIsRead
<1>7. CASE /\ ReasonsToRefuse(i) = {} /\ stored' = [i EXCEPT !.status = "sending"]
           /\ sent' = ToXml(i) /\ refusal' = None
  <2>1. "nip" \notin ReasonsToRefuse(i) /\ "mapping" \notin ReasonsToRefuse(i)
    BY <1>7
  <2>2. Sendable(i)
    BY <1>3, <2>1 DEF ReasonsToRefuse, Refusals, Sendable
  <2>3. i \in Document
    BY <1>3 DEF RowIsRight
  <2>4. /\ stored' \in Document /\ ToXml(stored') = ToXml(i) /\ Sendable(stored')
        /\ stored'.status = "sending" /\ stored'.buyer = i.buyer
        /\ stored'.items = i.items /\ stored'.net = i.net /\ stored'.tax = i.tax
        /\ stored'.gross = i.gross
    BY <1>7, <2>2, <2>3, StatusIsNotSent
  <2>5. RowIsRight(stored') /\ stored' # NoDocument
    BY <1>3, <2>4, RowStaysRight, DocumentIsThere
  <2>6. DocumentsTypes'
    BY <1>4, <1>7, <2>4 DEF DocumentsIInv, DocumentsTypes
  <2>7. RowHolds'
    BY <1>1, <1>3, <1>4, <2>4, <2>5 DEF DocumentsIInv, RowHolds
  <2>8. DocumentIsOfRow' /\ ReceivedIsRead'
    BY <1>6, <1>7, <2>4, <2>5 DEF DocumentIsOfRow, ReceivedIsRead
  <2>9. NotRefusedForItsSums'
    BY <1>7, DocumentsAssumption DEF NotRefusedForItsSums, Refusals
  <2> QED
    BY <2>6, <2>7, <2>8, <2>9 DEF DocumentsIInv
<1>8. CASE refusal' \in ReasonsToRefuse(i) /\ stored' = stored /\ sent' = sent
  <2>1. refusal' \in Refusals
    BY <1>8 DEF ReasonsToRefuse
  <2>2. NotRefusedForItsSums'
    BY <1>3, <1>8, RowSumsAgree DEF ReasonsToRefuse, NotRefusedForItsSums
  <2>3. DocumentsTypes'
    BY <1>4, <1>8, <2>1 DEF DocumentsIInv, DocumentsTypes
  <2>4. RowHolds' /\ DocumentIsOfRow' /\ ReceivedIsRead'
    BY <1>4, <1>6, <1>8 DEF DocumentsIInv, RowHolds, DocumentIsOfRow, IsUnderWay, ReceivedIsRead
  <2> QED
    BY <2>2, <2>3, <2>4 DEF DocumentsIInv
<1> QED
  BY <1>5, <1>7, <1>8

LEMMA VerdictStep ==
  ASSUME DocumentsIInv, NEW status \in {"accepted", "rejected"}, Verdict(status)
  PROVE  DocumentsIInv'
<1>1. /\ stored # NoDocument /\ RowIsRight(stored) /\ stored \in Document
      /\ Sendable(stored) /\ sent = ToXml(stored)
  BY DEF Verdict, DocumentsIInv, RowHolds, DocumentIsOfRow, IsUnderWay, RowIsRight
<1>2. /\ stored' = [stored EXCEPT !.status = status] /\ stored.status = "sending"
      /\ settings' = settings /\ contractor' = contractor /\ override' = override
      /\ entered' = entered /\ sent' = sent /\ received' = received /\ refusal' = refusal
      /\ changes' = changes
  BY DEF Verdict
<1>3. /\ stored' \in Document /\ ToXml(stored') = ToXml(stored) /\ Sendable(stored')
      /\ stored'.status = status /\ stored'.buyer = stored.buyer
      /\ stored'.items = stored.items /\ stored'.net = stored.net /\ stored'.tax = stored.tax
      /\ stored'.gross = stored.gross
  BY <1>1, <1>2, StatusIsNotSent
<1>4. RowIsRight(stored') /\ stored' # NoDocument
  BY <1>1, <1>3, RowStaysRight, DocumentIsThere
<1>5. DocumentsTypes'
  BY <1>2, <1>3 DEF DocumentsIInv, DocumentsTypes
<1>6. RowHolds'
  BY <1>1, <1>2, <1>3, <1>4 DEF DocumentsIInv, RowHolds
<1>7. DocumentIsOfRow'
  BY <1>1, <1>2, <1>3, <1>4 DEF DocumentIsOfRow
<1>8. ReceivedIsRead'
  BY <1>2 DEF DocumentsIInv, ReceivedIsRead
<1>9. NotRefusedForItsSums'
  BY <1>2 DEF DocumentsIInv, NotRefusedForItsSums
<1> QED
  BY <1>5, <1>6, <1>7, <1>8, <1>9 DEF DocumentsIInv

LEMMA ImportStep ==
  ASSUME DocumentsIInv, Import
  PROVE  DocumentsIInv'
BY DEF Import, DocumentsIInv, DocumentsTypes, RowHolds, DocumentIsOfRow, IsUnderWay,
       ReceivedIsRead, NotRefusedForItsSums

LEMMA DocumentsStep == DocumentsIInv /\ [DocumentsNext]_docVars => DocumentsIInv'
<1> SUFFICES ASSUME DocumentsIInv, [DocumentsNext]_docVars PROVE DocumentsIInv'
  OBVIOUS
<1>1. CASE UNCHANGED docVars
  BY <1>1 DEF docVars, DocumentsIInv, DocumentsTypes, RowHolds, DocumentIsOfRow, IsUnderWay,
              ReceivedIsRead, NotRefusedForItsSums
<1> QED
  BY <1>1, PartyStep, CreateStep, UpdateStep, SubmitStep, VerdictStep, ImportStep
     DEF DocumentsNext

\* The inductive invariant: a stored invoice adds up and names the buyer its
\* user saw, the document of one that is under way is that of its row, and only
\* an accepted one is received.
THEOREM DocumentsHold == DocumentsSpec => []DocumentsIInv
BY DocumentsStart, DocumentsStep, PTL DEF DocumentsSpec

\* No submission is refused for its sums, whatever lines, prices and rates were
\* entered.
THEOREM SumsAreAccepted == DocumentsSpec => []NotRefusedForItsSums
<1>1. DocumentsIInv => NotRefusedForItsSums
  BY DEF DocumentsIInv
<1> QED
  BY <1>1, DocumentsHold, PTL

\* The document that is sent adds up, for any number of lines: the totals of a
\* rate are those of its lines, and the VAT of a rate is off by half a grosz a
\* line at most.
THEOREM SentDocumentAddsUp == DocumentsSpec => []SentAddsUp
<1>1. DocumentsIInv => SentAddsUp
  <2> SUFFICES ASSUME DocumentsIInv PROVE SentAddsUp
    OBVIOUS
  <2>1. CASE sent # None
    <3>1. RowIsRight(stored) /\ IsMapped(stored) /\ sent = ToXml(stored)
      BY <2>1 DEF DocumentsIInv, RowHolds, DocumentIsOfRow, Sendable
    <3> QED
      BY <3>1, XmlAddsUp
  <2>2. CASE sent = None
    BY <2>2 DEF SentAddsUp
  <2> QED
    BY <2>1, <2>2
<1> QED
  BY <1>1, DocumentsHold, PTL

\* A buyer who runs this program reads what was sold, from the buyer its user
\* saw; the date of sale and the VAT of single lines are not part of it.
THEOREM BuyerReads == DocumentsSpec => []BuyerReadsWhatWasSold
<1>1. DocumentsIInv => BuyerReadsWhatWasSold
  <2> SUFFICES ASSUME DocumentsIInv, received # None PROVE BuyerReadsWhatWasSold
    BY DEF BuyerReadsWhatWasSold
  <2>1. /\ stored # NoDocument /\ RowIsRight(stored) /\ Sendable(stored)
        /\ received = Parse(ToXml(stored))
        /\ entered # None => stored.buyer = entered
        /\ stored.direction = "sale" => stored.numbered
    BY DEF DocumentsIInv, RowHolds, DocumentIsOfRow, IsUnderWay, ReceivedIsRead, Sendable
  <2>2. /\ received.issue = stored.issue /\ received.due = stored.due
        /\ received.method = stored.method /\ received.currency = stored.currency
        /\ received.net = stored.net /\ received.tax = stored.tax
        /\ received.gross = stored.gross
        /\ received.seller = ReadAs(stored.seller) /\ received.buyer = ReadAs(stored.buyer)
        /\ Len(received.items) = Len(stored.items)
        /\ received.number = stored.numbered
    BY <2>1, ReadBack
  <2>3. \A k \in DOMAIN stored.items :
          /\ received.items[k].quantity = stored.items[k].quantity
          /\ received.items[k].price = stored.items[k].price
          /\ received.items[k].vat = stored.items[k].vat
          /\ received.items[k].net = stored.items[k].net
    BY <2>1, ReadBack
  <2>4. \A field \in {"issue", "due", "method", "currency", "net", "tax", "gross"} :
          received[field] = stored[field]
    BY <2>2
  <2>5. \A k \in DOMAIN stored.items, field \in {"quantity", "price", "vat", "net"} :
          received.items[k][field] = stored.items[k][field]
    BY <2>3
  <2> QED
    BY <2>1, <2>2, <2>4, <2>5 DEF BuyerReadsWhatWasSold
<1> QED
  BY <1>1, DocumentsHold, PTL
=============================================================================
