SPECIFICATION PlanningSpec
CONSTANTS
  first = first
  second = second
  later = later
  firstSub = firstSub
  secondSub = secondSub
  Videos <- MCVideos
  Sidecars <- MCSidecars
  FolderOf <- MCFolderOf
  ExtensionOf <- MCExtensionOf
  Quality <- MCQuality
  Beside <- MCBeside
  KindOf <- MCKindOf
  SuffixOf <- MCSuffixOf
  FormatOf <- MCFormatOf
  Findings <- MCFindings
  Answers <- MCAnswers
  Absences <- MCAbsences
  Budgets <- MCBudgets
INVARIANTS
  DriftFailsClosed
