SPECIFICATION FairSpec
CONSTANTS
  video = video
  subtitle = subtitle
  sequel = sequel
  sequelSubtitle = sequelSubtitle
  season1 = season1
  season2 = season2
  Members <- MCMembers
  Dirs <- MCDirs
  Parent <- MCParent
  Contract <- MCContract
  Faults = {"crash", "interrupt", "io", "read", "append", "fsync", "torn"}
  MaxFaults = 3
INVARIANTS
  TypeOK
  Conservation
  WriteAhead
  RollbackResultIsTrue
  GroupsWholeWhenIdle
PROPERTIES
  Reorganizes
  BenignFaultsRecovered
  ResumeCompletes

\* A completed run, and a run no resume can read, are over.
CHECK_DEADLOCK FALSE
