SPECIFICATION Spec
CONSTANTS
  RL_INFINITY = 20
  MaxOffset = 8
  AddAtTail = TRUE
INVARIANTS StaysWellFormed SubtractKeepsLargest
PROPERTY EachCallIsItsSetOperation
