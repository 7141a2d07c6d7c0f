SPECIFICATION Spec
CONSTANTS
  d1 = d1
  d2 = d2
  Docs <- MCDocs
  NStars = 1
  StarOf <- OneStar
  Lined = {1}
  MaxVer = 1
  MaxSid = 1
  MaxFail = 0
INVARIANTS
  LinesTravelWithDoc
CHECK_DEADLOCK FALSE
