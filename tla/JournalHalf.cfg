CONSTANTS
  Size = 10
  Blocks = {b1, b2}
  KILLED = KILLED
  MaxTr = 2
  MaxReadErr = 0
  Threads = {t1}
  NONE = NONE
  NOldStart = 2
  BlhdrCap = 1
  MaxBlhdrs = 2
  MaxNest = 1
  MaxKill = 0
  MaxErr = 0
  MaxHomeErr = 0
  MaxCrash = 1
  MaxClose = 0
SPECIFICATION Spec
SYMMETRY Alike
INVARIANTS
  RecoveredPrefix
