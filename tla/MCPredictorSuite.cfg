CONSTANTS
  Predictors <- MCPredictors
  Branches <- MCBranches
  MaxBranches = 6
SPECIFICATION Spec
INVARIANTS
  TypeOK
  HistoriesAgree
  EntriesFollowOutcomes
  DirectionTournamentChoosesBetter
  TagsFromTrace
  ResultsMatchTrace
PROPERTY
  UsefulEntriesKept
CHECK_DEADLOCK FALSE
