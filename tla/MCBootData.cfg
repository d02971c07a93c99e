CONSTANTS
  a = a
  b = b
  old = old
  Values = {a, b}
  LegacyValues = {old}
  Upgrade <- MCUpgrade
  DefaultValue = a
  NotFound = NotFound
  Lost = Lost
  EntriesPerPage = 2
  DefaultCounter = 5
  MaxCounter = 9
  LcState = "Dev"
  DefaultInProd = FALSE
SPECIFICATION Spec
INVARIANTS NewestIsLast SearchFindsNewest
PROPERTY AtomicRecord
