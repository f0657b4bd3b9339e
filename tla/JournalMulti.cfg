CONSTANTS
  Size = 9
  Blocks = {b1, b2}
  KILLED = KILLED
  MaxTr = 3
  MaxReadErr = 0
  Threads = {t1}
  NONE = NONE
  NOldStart = 3
  BlhdrCap = 1
  MaxBlhdrs = 2
  MaxNest = 1
  MaxKill = 1
  MaxErr = 0
  MaxHomeErr = 0
  MaxCrash = 0
  MaxClose = 1
SPECIFICATION Spec
SYMMETRY Alike
INVARIANTS
  UnfinishedStaysCharted
  
  LastBlockIsLast
CHECK_DEADLOCK FALSE
