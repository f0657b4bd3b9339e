CONSTANTS
  Size = 8
  Blocks = {b1, b2}
  KILLED = KILLED
  MaxTr = 2
  MaxReadErr = 0
  Threads = {t1, t2}
  NONE = NONE
  NOldStart = 2
  BlhdrCap = 2
  MaxBlhdrs = 1
  MaxNest = 2
  MaxKill = 0
  MaxErr = 0
  MaxHomeErr = 0
  MaxCrash = 0
  MaxClose = 1
SPECIFICATION Spec
SYMMETRY Alike
INVARIANTS
  WriteAhead
  OneFlusher
  FlaggedWillClear
  FlushCommitsBuffered
  
