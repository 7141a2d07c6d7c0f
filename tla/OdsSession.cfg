SPECIFICATION Spec
CONSTANTS
  Runs = {r1}
  d1 = d1
  d2 = d2
  Docs <- MCDocs
  NStars = 2
  StarOf <- MCStarOf
  Lined <- MCLined
  MaxVer = 3
  MaxSid = 3
  MaxCrash = 2
INVARIANTS
  TypeOK
  OneOpenSession
  NothingLost
  VersionsGrowWithSessions
  LinesTravelWithDoc
  ReadyCanBePublished
PROPERTIES
  PackedIsFrozen
CHECK_DEADLOCK FALSE
