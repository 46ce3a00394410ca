SPECIFICATION FairSpec
CONSTANTS
  r = r
  m = m
  w = w
  nil = nil
  Session <- MCSession
  Root = r
  ParentOf <- Chain
  Driven = {}
  Inputs = {"ceiling", "terminate"}
  None = nil
INVARIANTS JoinBeforeExit
PROPERTIES CloseCompletes
CHECK_DEADLOCK FALSE
