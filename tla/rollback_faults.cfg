SPECIFICATION FairRollbackSpec
CONSTANTS
  video = video
  subtitle = subtitle
  sequel = sequel
  sequelSubtitle = sequelSubtitle
  season1 = season1
  season2 = season2
  Members <- MCMembers
  Dirs <- MCDirs
  Parent <- MCParent
  Contract <- MCContract
  Faults = {"crash", "io", "read", "append", "fsync", "torn", "interrupt", "meddle"}
  MaxFaults = 3
INVARIANTS
  RollbackTypeOK
  RollbackConserves
  ReverseOrder
PROPERTIES
  NoOverwrite
  RollbackResumes

\* A completed run, and a run no resume can read, are over.
CHECK_DEADLOCK FALSE
