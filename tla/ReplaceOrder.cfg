CONSTANTS
  MaxTotal = 9
SPECIFICATION Spec
INVARIANTS
  TypeOK
  LRUReplIsFIFORepl
  NoWayStarves
