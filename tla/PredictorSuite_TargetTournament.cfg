CONSTANTS
  Predictors <- MCPredictors
  Branches <- MCBranches
  MaxBranches = 6
SPECIFICATION Spec
INVARIANT
  TargetTournamentChoosesBetter
CHECK_DEADLOCK FALSE
