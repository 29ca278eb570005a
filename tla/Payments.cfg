SPECIFICATION Spec
CONSTANTS
  i1 = i1  i2 = i2  b1 = b1  b2 = b2  k1 = k1  k2 = k2
  a1 = a1  a2 = a2  a3 = a3  c1 = c1  c2 = c2
  NoEntry = NoEntry  NoInvoice = NoInvoice  NoAllocation = NoAllocation
  Invoices = {i1}
  Entries = {b1, b2, k1}
  Allocations = {a1, a2, a3}
  Clients = {c1, c2}
  CashEntry <- CashEntryOfOne
  Statement <- TwoLines
  Clue <- Clues
  Amounts = {1, 2}
  MaxRequests = 4
CHECK_DEADLOCK FALSE
SYMMETRY Symmetry
INVARIANTS
  RepairIInv
  DebtsAgree
  SettledIsRight
  BankLineIsNotOverdrawn
PROPERTIES
  HistoryIsKept
  FormPaymentIsAsEntered
