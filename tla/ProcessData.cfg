SPECIFICATION ProcessSpec
CONSTANTS
  Setups <- AllSetups
  Limit = 4
  MaxIOSegments = 12
  GroupStride = 64
  MaxBuf = 8
  Losses = TRUE
  WriteInFlight = FALSE
  OneGroup = TRUE
INVARIANTS
  RegionsDisjoint
  ImagesComplete
  PointersRight
  WkcProvesCycle
  NoFalseAlarm
  OutputsKept
CHECK_DEADLOCK FALSE
