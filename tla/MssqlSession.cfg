SPECIFICATION FairSpec
CONSTANTS
  d1 = d1
  d2 = d2
  Docs <- MCDocs
  NStars = 2
  StarOf <- TwoStars
  Lined = {2}
  MaxVer = 2
  MaxSid = 3
  MaxFail = 3
INVARIANTS
  NothingLost
  CopiesInOrder
PROPERTIES
  LoadedIsClosed
CHECK_DEADLOCK FALSE
