SPECIFICATION FairSpec
CONSTANTS
  top = top
  mid = mid
  low = low
  ask = ask
  nil = nil
  Session <- MCSession
  Root = top
  ParentOf <- MCParent
  Depth <- MCDepth
  Request = {ask}
  Asker <- MCAsker
  Copies <- MCCopies
  Closable = {top, low}
  Beside = {low}
  None = nil
INVARIANTS TypeOK AnswerKept NotShownAfter
PROPERTIES NobodyHangs PromiseKept
CHECK_DEADLOCK FALSE
