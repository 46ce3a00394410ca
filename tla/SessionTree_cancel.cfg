SPECIFICATION Spec
CONSTANTS
  r = r
  m = m
  w = w
  nil = nil
  Session <- MCSession
  Root = r
  ParentOf <- Chain
  Driven = {w}
  Inputs = {"cancel", "terminate"}
  None = nil
INVARIANTS TypeOK ResultOnce ResultAfterTerminal RegisteredUntilDone
CHECK_DEADLOCK FALSE
