SPECIFICATION FairSpec
CONSTANTS
  r = r
  m = m
  w = w
  nil = nil
  Session <- MCSession
  Root = r
  ParentOf <- Chain
  Driven = {}
  Inputs = {"shutdown"}
  None = nil
PROPERTIES ImplementsScope ShutdownCompletes
CHECK_DEADLOCK FALSE
