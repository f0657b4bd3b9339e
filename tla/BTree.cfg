CONSTANTS
  Keys = {1, 2, 3, 4, 5, 6, 7, 8, 9, 10, 11, 12}
  Active = {7, 9, 10}
  Starts <- MCStarts
  StartData = 3
  KeySize <- MCKeySize
  Datas = {1, 3, 9}
  NodeSize = 10
  MaxRecord = 5
  HeaderBits = 5
  MapRecBits = 4
  InitNodes = 5
  MaxNodes = 15
  Clump = 2
SPECIFICATION Spec
INVARIANTS
  TypeOK
  NeverStuckHalfway
  NodesAccountedFor
  WellShaped
  HintNeverMisleads

  
