CONSTANTS
  block_num = 3
  m_blksz_log = 6
  Addrs <- MCAddrs
  StaleTags <- MCStaleTags
  MaxReqs = 6
SPECIFICATION ObservedSpec
INVARIANTS
  TypeOK
  QueueIsPermutation
  UniqueTags
  MissesFillBlocks
PROPERTIES
  EvictOnlyWhenFull
  ImplementsLRUStack
CHECK_DEADLOCK FALSE
