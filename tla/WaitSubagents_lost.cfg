SPECIFICATION FairSpec
CONSTANTS
  kid1 = kid1
  kid2 = kid2
  kid3 = kid3
  msg1 = msg1
  nil = nil
  Child <- TwoChildren
  Message <- OneMessage
  Async <- AsyncChild
  Beside <- Nobody
  None = nil
PROPERTIES WaitEnds
CHECK_DEADLOCK FALSE
