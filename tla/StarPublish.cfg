SPECIFICATION FairSpec
CONSTANTS
  d1 = d1
  d2 = d2
  Docs <- MCDocs
  LineCount <- Late
  MaxVer = 3
  MaxSession = 3
  MaxCrash = 3
INVARIANTS
  TypeOK
  KeysStayUnique
  PartsMatchRow
PROPERTIES
  SurrogateKeysAreStable
  PromiseToReader
  SessionsGetClosed
CHECK_DEADLOCK FALSE
