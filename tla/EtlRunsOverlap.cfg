SPECIFICATION Spec
CONSTANTS
  Runs = {r1, r2}
  Dims = {valyuty}
  Facts = {prodazhi}
  Nobody = Nobody
  MaxSession = 2
  MaxMq = 3
  MaxFail = 0
INVARIANTS
  ClosedIsApplied
CHECK_DEADLOCK FALSE
