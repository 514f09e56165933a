SPECIFICATION FairCacheSpec
CONSTANTS
  remake = remake
  original = original
  first = first
  second = second
  Uses <- MCUses
  Commands = {first, second}
  TitleCount = 2
  Shows = {remake, original}
  TitleOf <- MCTitleOf
  Listed <- MCListed
  Suggested <- MCSuggested
  Faults = {"outage", "io", "read", "crash", "damage"}
  MaxFaults = 1
INVARIANTS
  CacheTypeOK
  ReplayFaithful
PROPERTIES
  FreshAnswersKept
  RefreshRepairs
