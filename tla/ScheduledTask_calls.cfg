SPECIFICATION Spec
CONSTANTS
  Caller = {u1}
  Loader = loader
  Calls = {"pause", "resume", "cancel"}
  Count = 2
  StuckCutoff = 0
  MaxTime = 2
  MaxRegs = 2
  MaxCalls = 2
  MaxCrashes = 0
CHECK_DEADLOCK FALSE
INVARIANTS TypeOK PlanFollowsLog
