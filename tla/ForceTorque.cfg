SPECIFICATION BridgeSpec
CONSTANTS
  N = 4
  MaxTries = 3
  Paced = TRUE
  Junk = Junk
  NumBytes = 2
  LowBytes = {0, 1, 9, 15, 16, 127, 128, 240, 255}
  Factor = 100
  Identifiers <- CanIdentifiers
  Retries = 2
  nReservedTx = 1
  RateKnown = {TRUE}
  Fresh = TRUE
  ModesLate = FALSE
  MaxSends = 3
  MaxArrivals = 2
  MaxSetups = 2
  Sizes = {0, 13}
  Fifo = 8
  Tout = 2
  MaxImages = 2
INVARIANTS
  SampleCoherent
  ValuesArrive
PROPERTIES
  EverySampleInOrder
  CycleEnds
CHECK_DEADLOCK FALSE
