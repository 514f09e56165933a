SPECIFICATION FairSpec
CONSTANTS
  video = video
  subtitle = subtitle
  sequel = sequel
  sequelSubtitle = sequelSubtitle
  season1 = season1
  season2 = season2
  Members <- MCMembers
  Dirs <- MCDirs
  Parent <- MCParent
  Contract <- MCContract
  Faults = {"crash", "io"}
  MaxFaults = 2
PROPERTIES
  Recovery

\* A completed run, and a run no resume can read, are over.
CHECK_DEADLOCK FALSE
