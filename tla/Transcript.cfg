SPECIFICATION Spec
CONSTANTS
  Strategies = {"window", "summarize"}
  WindowSize = 3
  Preserved = 0
  MinTurnGap = 2
  Tools = {"work", "checkpoint", "hide", "expand", "rollback"}
  Midway = {"note"}
  PageLimit = 99
  MaxCalls = 2
  MaxLog = 8
  MaxRestarts = 1
CHECK_DEADLOCK FALSE
INVARIANTS TypeOK WholeOrGone BriefKept HistoryIsLog
