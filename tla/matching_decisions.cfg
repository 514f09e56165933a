SPECIFICATION Spec
CONSTANTS
  MinExactMatches = 3
  MinDisagreements = 2
  ShowYear = 8
  SourcePool <- MCSources
  MaxSources = 1
  Catalogs <- MCCatalogs
  ModePool = {"aired"}
  Unreliable = FALSE
INVARIANT DecisionsStand
CHECK_DEADLOCK FALSE
