SPECIFICATION FairPipelineSpec
CONSTANTS
  Runs = {r1}
  d1 = d1
  d2 = d2
  Docs <- MCDocs
  NStars = 2
  StarOf <- MCStarOf
  Lined <- MCFacts
  Facts <- MCFacts
  MaxVer = 2
  MaxSid = 3
  MaxCrash = 2
INVARIANTS
  ShownFactsHaveDims
PROPERTIES
  ShownNeverStepsBack
  LoadedIsShown
CHECK_DEADLOCK FALSE
