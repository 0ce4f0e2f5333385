CONSTANTS
  a = a
  b = b
  Regs <- MCRegs
  Instrs <- MCInstrs
  Blocks <- MCBlocks
  maxSize = 3
  IntWidth = 4
  MaxIns = 10
SPECIFICATION Spec
INVARIANT
  InsideArray
CHECK_DEADLOCK FALSE
