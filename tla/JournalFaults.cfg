CONSTANTS
  Size = 8
  Blocks = {b1}
  KILLED = KILLED
  MaxTr = 2
  MaxReadErr = 1
  Threads = {t1, t2}
  NONE = NONE
  NOldStart = 3
  BlhdrCap = 2
  MaxBlhdrs = 1
  MaxNest = 1
  MaxKill = 1
  MaxErr = 1
  MaxHomeErr = 1
  MaxCrash = 1
  MaxClose = 0
SPECIFICATION Spec
SYMMETRY Alike
INVARIANTS
  NoSelfLock
  
  LastBlockIsLast
PROPERTIES
  HomeAfterCommit
