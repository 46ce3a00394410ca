SPECIFICATION FairSpec
CONSTANTS
  Root = root
  kid = kid
  grandkid = grandkid
  Sub = {kid, grandkid}
  ParentOf <- Chain
  Resumer = {r1}
  MaxCrashes = 2
CHECK_DEADLOCK FALSE
INVARIANTS TypeOK SettledOnce LiveNotBuried
PROPERTIES OrphansRetire
