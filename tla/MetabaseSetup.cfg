SPECIFICATION FairSpec
CONSTANTS
  MaxFail = 3
INVARIANTS
  TypeOK
  NoDuplicates
  FinishedIsComplete
  PublishedShowsReports
PROPERTIES
  PublishedInTheEnd
