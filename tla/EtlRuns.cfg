SPECIFICATION FairSpec
CONSTANTS
  Runs = {r1}
  Dims = {valyuty, klienty}
  Facts = {prodazhi}
  Nobody = Nobody
  MaxSession = 3
  MaxMq = 4
  MaxFail = 2
INVARIANTS
  TypeOK
  BothClosedAreApplied
  FactsFollowDims
PROPERTIES
  StarsNeverStepBack
  RunsEnd
CHECK_DEADLOCK FALSE
