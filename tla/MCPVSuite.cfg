CONSTANTS
  EAs <- MCWholePageEAs
  block_log_size = 10
  MaxReqs = 5
  m_sets_log = 2
  m_asso = 2
SPECIFICATION Spec
INVARIANTS
  TypeOK
  UniqueTags
  FilledInOrder
  VIPTEqualsPIPT
PROPERTIES
  LRUReplImplementsFIFO
CHECK_DEADLOCK FALSE
