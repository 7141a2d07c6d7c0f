SPECIFICATION Spec
CONSTANTS
  d1 = d1
  d2 = d2
  Docs <- MCDocs
  LineCount <- Late
  MaxVer = 2
  MaxSession = 2
  MaxCrash = 0
INVARIANTS
  CallsSucceed
CHECK_DEADLOCK FALSE
