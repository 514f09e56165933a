SPECIFICATION FairReviewSpec
CONSTANTS
  sameRelease = sameRelease
  unmatched = unmatched
  series = series
  tvdb = tvdb
  none = none
  Count = 3
  Duplicates <- MCDuplicates
  Recommended <- MCDuplicates
  Manual <- MCDuplicates
  Evidence <- MCEvidence
  Shows = {series}
  ShowOf <- MCShowOf
  Ids = {tvdb, none}
  NoIds = none
  Entered = {tvdb}
  Prepared <- MCPrepared
  CommandLines <- MCCommandLines
  MaxDecided = 0
  NoContract = NoContract
  NoBundle = NoBundle
  Faults = {"crash", "io"}
  MaxFaults = 1
INVARIANTS
  ReviewTypeOK
  ContractBehindLedger
PROPERTIES
  AnswersStand
  ApprovalStands
  PreparedAnswersFit
  OneSittingKeepsIds
  ReviewCompletes
