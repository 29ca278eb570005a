SPECIFICATION Spec
CONSTANTS
  c1 = c1  c2 = c2  p1 = p1
  Worker = Worker
  Clients = {c1, c2}
  Purchases = {p1}
  JobWindows <- SomeWindows
  WindowDays = 3
  MaxDay = 5
  MaxSyncs = 3
  MaxJobs = 1
CHECK_DEADLOCK FALSE
SYMMETRY Symmetry
INVARIANTS
  ImportedOnce
  NothingIsMissed
PROPERTIES
  WindowOnlyAdvances
