SPECIFICATION MatchingSpec
CONSTANTS
  MinExactMatches = 3
  MinDisagreements = 2
  ShowYear = 8
  SourcePool <- MCSources
  MaxSources = 3
  Catalogs <- MCCatalogs
  ModePool = {"aired", "absolute", "special", "date", "segment"}
  Unreliable = TRUE
  Cases <- MCCases
  WorldOf <- MCWorldOf
INVARIANTS
  EpisodesGuarded
  AnswersDecide
PROPERTY
  ReleasedTogether
CHECK_DEADLOCK FALSE
