CONSTANTS
  EAs <- MCEAs
  block_log_size = 4
  MaxReqs = 5
  m_sets_log = 2
  m_asso = 2
SPECIFICATION Spec
PROPERTY
  HitsWereLoaded
CHECK_DEADLOCK FALSE
