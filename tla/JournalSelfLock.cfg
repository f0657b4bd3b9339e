CONSTANTS
  Size = 8
  Blocks = {b1, b2}
  KILLED = KILLED
  MaxTr = 1
  MaxReadErr = 0
  Threads = {t1}
  NONE = NONE
  NOldStart = 2
  BlhdrCap = 2
  MaxBlhdrs = 1
  MaxNest = 1
  MaxKill = 0
  MaxErr = 1
  MaxHomeErr = 0
  MaxCrash = 0
  MaxClose = 1
SPECIFICATION Spec
SYMMETRY Alike
INVARIANTS
  NoSelfLock
