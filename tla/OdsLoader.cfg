SPECIFICATION FairSpec
CONSTANTS
  d1 = d1
  d2 = d2
  Docs <- MCDocs
  Messages <- MCMessages
  Modes = {0, 1, 2, 3}
  Overlapping = {0, 1}
  Short = 0
  Long = 1
  MaxRows = 3
  MaxDay = 4
  MaxLost = 1
INVARIANTS
  TypeOK
  NothingDropped
PROPERTIES
  LaterArrivalWins
  ErrorsAreKept
  MessagesAreProcessed
CHECK_DEADLOCK FALSE
