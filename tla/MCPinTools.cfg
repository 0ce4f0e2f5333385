CONSTANTS
  Threads = {t1, t2}
  THREADIDs = {t1, t2}
  MaxDepth = 2
  Sizes = {0, 2}
  KnobTimeout = 1
  Blocks <- MCBlocks
  BufferSize = 3
  MaxBlocks = 3
SPECIFICATION MCSpec
INVARIANTS
  TypeOK
  ReportedIsWithinMax
  CodeIsAsEnabled
  SuiteTypeOK
  FilesAndBuffersComplete
  CompleteAtExit
PROPERTIES
  NewMaxIsNew
  BreaksEnd
  DumpsUnbroken
