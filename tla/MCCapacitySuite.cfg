CONSTANTS
  EAs <- MCEAs
  block_log_size = 4
  MaxReqs = 6
  small_log = 1
  large_log = 2
SPECIFICATION Spec
INVARIANTS
  TypeOK
  FullHoldsRecent
  DirectHoldsLatest
  LargerIncludesSmaller
CHECK_DEADLOCK FALSE
