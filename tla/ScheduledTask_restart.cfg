SPECIFICATION FairSpec
CONSTANTS
  Caller = {u1}
  Loader = loader
  Calls = {"pause", "cancel"}
  Count = 2
  StuckCutoff = 1
  MaxTime = 3
  MaxRegs = 2
  MaxCalls = 1
  MaxCrashes = 2
CHECK_DEADLOCK FALSE
INVARIANTS ArmedFromPlan FiresOneByOne
PROPERTIES TaskEnds
