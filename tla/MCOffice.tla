------------------------------ MODULE MCOffice ------------------------------
(***************************************************************************)
(* Small instances of three modules that share no table: invoices and      *)
(* their numbers, the content of one invoice, and the stock.  A behaviour  *)
(* is one of one of them; the others stay as they are.                     *)
(***************************************************************************)
EXTENDS Invoicing, Documents, Stock, TLC

CONSTANTS i1, i2, i3, c1, c2, m1, m2, p1, p2, n1, n2, s1

VARIABLE part

Saved(name, street) == [nip |-> "valid", name |-> name, street |-> street]
Unset == [nip |-> "missing", name |-> NoText, street |-> NoText]

OfficeVars == <<vars, docVars, stockVars, part>>

OfficeInit ==
  /\ part \in {"invoices", "content", "stock"}
  /\ Init /\ DocumentsInit /\ StockInit
  /\ part # "content" => settings = Saved(n1, s1)

OfficeNext ==
  /\ UNCHANGED part
  /\ \/ part = "invoices" /\ Next /\ UNCHANGED <<docVars, stockVars>>
     \/ part = "content" /\ DocumentsNext /\ UNCHANGED <<vars, stockVars>>
     \/ part = "stock" /\ StockNext /\ UNCHANGED <<vars, docVars>>

OfficeSpec == OfficeInit /\ [][OfficeNext]_OfficeVars

Symmetry == Permutations(Sale) \union Permutations(Clients) \union Permutations(Months)

Line(q, p, v) == [named |-> TRUE, quantity |-> q, price |-> p, vat |-> v]
\* 1,115 zl at 23 % twice; half a grosz of VAT, three decimals and four rates;
\* nothing to pay; a rate FA(3) does not know; a line without goods; no line.
Plain == <<Line(1, 1115, 23), Line(1, 1115, 23)>>
Mixed == <<Line(1, 1500, 23), Line(3, 333, 8), Line(1, 1500, 23), Line(7, 45, 5), Line(2, 995, 0)>>
Unknown == <<Line(1, 1000, 7)>>
Contents == {Plain, Mixed, Unknown, <<Line(1, 0, 0)>>, <<Line(0, 1000, 23)>>, <<>>}
Form ==
  [direction |-> "sale", issue |-> 10, sale |-> 10, delivery |-> None, due |-> 20,
   method |-> "cash", currency |-> "PLN", rate |-> None, items |-> <<Line(1, 1500, 23)>>]
Forms ==
  {[Form EXCEPT !.items = c] : c \in Contents}
  \union {[Form EXCEPT !.direction = d, !.method = m] :
            d \in {"sale", "purchase"}, m \in {"transfer", NoText}}
  \union {[Form EXCEPT !.direction = d, !.due = due] :
            d \in {"sale", "purchase"}, due \in {None, 9, 69, 70}}
  \union {[Form EXCEPT !.sale = 9, !.delivery = 12], [Form EXCEPT !.sale = 11]}
  \union {[Form EXCEPT !.currency = "EUR", !.issue = i, !.sale = i] : i \in {10, 19}}
Edits ==
  {[Form EXCEPT !.items = Mixed], [Form EXCEPT !.items = Unknown], [Form EXCEPT !.due = None]}
ByHand ==
  {[nip |-> "valid", name |-> n, street |-> s] : n \in {n1, n2, NoText}, s \in {s1, NoText}}
  \union {[nip |-> kind, name |-> n1, street |-> s1] : kind \in NipKinds}
Settings == {Saved(n1, s1), Saved(n2, NoText)}
=============================================================================
