SPECIFICATION ProcessSpec
CONSTANTS
  Setups <- AllInOne
  Limit = 4
  MaxIOSegments = 12
  GroupStride = 64
  MaxBuf = 8
  Losses = TRUE
  WriteInFlight = FALSE
  OneGroup = TRUE
INVARIANT
  NoSmBroken
CHECK_DEADLOCK FALSE
