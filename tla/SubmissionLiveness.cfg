SPECIFICATION FairSpec
CONSTANTS
  i1 = i1  i2 = i2  t1 = t1  t2 = t2
  j1 = j1  j2 = j2  j3 = j3  w1 = w1  w2 = w2
  r1 = r1  r2 = r2  r3 = r3
  NoInvoice = NoInvoice  NoTransmission = NoTransmission  NoJob = NoJob
  NoWorker = NoWorker  NoRef = NoRef
  Workers = {w1}
  Invoices = {i1, i2}
  Sale = {i1, i2}
  Transmissions = {t1, t2}
  Jobs = {j1, j2}
  Refs = {r1, r2}
  BatchSize = 10
  MaxAttempts = 2
  Faults <- StableSession
  MaxSessions = 1
  MaxEdits = 0
  MaxCrashes = 1
CHECK_DEADLOCK FALSE
PROPERTIES
  SendingIsDecided
  QueuedIsAttempted
