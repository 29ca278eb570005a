SPECIFICATION Spec
CONSTANTS
  d1 = d1  d2 = d2  d3 = d3  a = a
  l1 = l1  l2 = l2  l3 = l3  c1 = c1  c2 = c2
  NoDoc = NoDoc
  Items = {a}
  Docs = {d1, d2, d3}
  Layers = {l1, l2, l3}
  Clients = {c1, c2}
  Lines <- FewLines
  MaxRequests = 3
CHECK_DEADLOCK FALSE
SYMMETRY Symmetry
INVARIANTS
  BooksIInv
  NumbersAreUnique
  UnpostedHasNoEffect
  BalanceIsStock
  CostIsTraceable
  OldestLayersGoFirst
  TakesEffectOnceAlone
PROPERTIES
  DecidedIsFinal
