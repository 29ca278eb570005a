SPECIFICATION OfficeSpec
CONSTANTS
  i1 = i1  i2 = i2  i3 = i3  c1 = c1  c2 = c2  m1 = m1  m2 = m2
  p1 = p1  p2 = p2  n1 = n1  n2 = n2  s1 = s1
  NoRow = NoRow  NoInvoice = NoInvoice  NoNumber = NoNumber  Foreign = Foreign
  NoText = NoText  None = None  NoDocument = NoDocument  ZeroKR = ZeroKR  Locality = Locality
  NoStock = NoStock  NoProduct = NoProduct
  Invoices = {i1, i2, i3}
  Sale = {i1, i2}
  Clients = {c1, c2}
  Months = {m1, m2}
  MAX_RETRIES = 2
  MaxForeign = 1
  MaxImports = 1
  MaxMoved = 1
  CreateForms <- Forms
  UpdateForms <- Edits
  Configured <- Unset
  Companies <- Settings
  Contractors <- ByHand
  Names = {n1, n2}
  Streets = {s1}
  Published = {2, 11}
  MaxPaymentDueDays = 59
  MaxChanges = 2
  Products = {p1, p2}
  Clerks = {c1, c2}
  Quantities = {1, 2}
  MaxMovements = 4
CHECK_DEADLOCK FALSE
SYMMETRY Symmetry
INVARIANTS
  IInv
  NumberedInSequence
  StockIsItsLog
  NotRefusedForItsSums
  SentAddsUp
  BuyerReadsWhatWasSold
PROPERTIES
  NumberIsKept
