CONSTANTS
  Size = 8
  Blocks = {b1, b2}
  KILLED = KILLED
  MaxTr = 1
  MaxReadErr = 0
  Threads = {t1}
  NONE = NONE
  NOldStart = 2
  BlhdrCap = 2
  MaxBlhdrs = 1
  MaxNest = 1
  MaxKill = 1
  MaxErr = 0
  MaxHomeErr = 0
  MaxCrash = 0
  MaxClose = 0
SPECIFICATION Spec
SYMMETRY Alike
INVARIANTS
  FlaggedWillClear
