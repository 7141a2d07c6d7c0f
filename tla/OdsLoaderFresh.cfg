SPECIFICATION Spec
CONSTANTS
  d1 = d1
  d2 = d2
  Docs <- MCDocs
  Messages <- GoodMessages
  Modes = {2}
  Overlapping = {2}
  Short = 0
  Long = 1
  MaxRows = 3
  MaxDay = 3
  MaxLost = 1
INVARIANTS
  NothingDropped
CHECK_DEADLOCK FALSE
