SPECIFICATION FairRestoreSpec
CONSTANTS
  video = video
  subtitle = subtitle
  sequel = sequel
  sequelSubtitle = sequelSubtitle
  release1 = release1
  release2 = release2
  Members <- MCMembers
  Dirs <- MCDirs
  Parent <- MCParent
  Plan <- MCPlan
  Faults = {"crash", "interrupt", "io", "read", "look", "append", "fsync", "torn", "vanish", "evict", "unwind"}
  MaxFaults = 3
INVARIANTS
  RestoreTypeOK
  LosersConserved
  RestoreRecordsStand
  RestoreReverseOrder
PROPERTIES
  ReorganizesUntilRestored
  QuarantineResumes
  RestoreResumes

\* A completed run, and a run no resume can read, are over.
CHECK_DEADLOCK FALSE
