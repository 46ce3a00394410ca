SPECIFICATION FairSpec
CONSTANTS
  Msg = {m1}
  Ref = {r1, r2}
  Cap = 1
  HardCeiling = 2
  MaxGate = 1
  MaxEmpty = 1
  CloseTurns = 2
  MaxCrash = 1
INVARIANTS TypeOK BudgetsKept ResultsAccounted ChildReports
PROPERTIES TurnEnds
CHECK_DEADLOCK FALSE
