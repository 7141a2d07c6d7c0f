SPECIFICATION Spec
CONSTANTS
  d1 = d1
  d2 = d2
  Docs <- MCDocs
  LineCount <- Fact
  MaxVer = 3
  MaxSession = 3
  MaxCrash = 1
  Doubled <- MCDoubled
INVARIANTS
  TypeOK
  KeysStayUnique
  PartsMatchRow
  SingleCopyHeals
PROPERTIES
  SurrogateKeysAreStable
  PromiseToReader
CHECK_DEADLOCK FALSE
