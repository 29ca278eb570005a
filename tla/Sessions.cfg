SPECIFICATION FairSpec
CONSTANTS
  s1 = s1  s2 = s2  c1 = c1  c2 = c2  c3 = c3
  NoRow = NoRow
  Rows = {s1, s2}
  Clients = {c1, c2, c3}
INVARIANTS
  OneActiveSession
PROPERTIES
  LateSessionIsCleared
