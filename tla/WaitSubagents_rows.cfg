SPECIFICATION FairSpec
CONSTANTS
  kid1 = kid1
  kid2 = kid2
  kid3 = kid3
  msg1 = msg1
  nil = nil
  Child <- ThreeChildren
  Message <- OneMessage
  Async <- AsyncChild
  Beside <- TaskChild
  None = nil
INVARIANTS TypeOK LogExact StatusTruthful
PROPERTIES WaitLetsGo
CHECK_DEADLOCK FALSE
