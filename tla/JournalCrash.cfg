CONSTANTS
  Size = 6
  Blocks = {b1, b2}
  KILLED = KILLED
  MaxTr = 3
  MaxReadErr = 0
  Threads = {t1}
  NONE = NONE
  NOldStart = 2
  BlhdrCap = 2
  MaxBlhdrs = 1
  MaxNest = 1
  MaxKill = 0
  MaxErr = 0
  MaxHomeErr = 0
  MaxCrash = 2
  MaxClose = 0
SPECIFICATION Spec
SYMMETRY Alike
INVARIANTS
  TypeOK
  
  ReplayNeverFails
  KeepsGood
  NoOverrun
  CallbackFindsItsEntry
