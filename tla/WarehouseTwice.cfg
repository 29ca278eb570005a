SPECIFICATION Spec
CONSTANTS
  d1 = d1  d2 = d2  d3 = d3  a = a
  l1 = l1  l2 = l2  l3 = l3  c1 = c1  c2 = c2
  NoDoc = NoDoc
  Items = {a}
  Docs = {d1}
  Layers = {l1, l2}
  Clients = {c1, c2}
  Lines <- OneLine
  MaxRequests = 2
CHECK_DEADLOCK FALSE
INVARIANT TakesEffectOnce
