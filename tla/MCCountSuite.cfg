CONSTANTS
  a = a
  b = b
  Regs <- MCRegs
  Instrs <- RepInstrs
  Blocks <- RepBlocks
  maxSize = 3
  IntWidth = 4
  MaxIns = 9
  RepInfo <- MCRepInfo
  memoryOpsToLog = 3
  UIntWidth = 2
  MemReads <- MCMemReads
  MemWrites <- MCMemWrites
  RepCounts = {0, 3, 4}
  LastRepStart = 1
SPECIFICATION CountSpec
INVARIANTS
  TypeOK
  HistogramIsTrue
  ToolsAgree
  CountersAgree
  SlowAndFastAgree
  LogsAgree
CHECK_DEADLOCK FALSE
