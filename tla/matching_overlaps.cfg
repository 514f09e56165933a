SPECIFICATION Spec
CONSTANTS
  MinExactMatches = 3
  MinDisagreements = 2
  ShowYear = 8
  SourcePool <- Overlapping
  MaxSources = 3
  Catalogs <- MCCatalogs
  ModePool = {"aired"}
  Unreliable = FALSE
INVARIANT SharedEpisodesAreEqual
CHECK_DEADLOCK FALSE
