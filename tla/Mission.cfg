SPECIFICATION FairSpec
CONSTANTS
  Name = {"w"}
  Manifests <- MCManifests
  Races = {}
  MaxWaves = 2
  MaxErrors = 2
  MaxRows = 1
INVARIANTS TypeOK OutcomeIsOwn NoneUnwatched
PROPERTIES ContractSigned MissionEnds
CHECK_DEADLOCK FALSE
