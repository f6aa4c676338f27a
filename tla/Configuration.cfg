SPECIFICATION AnySpec
CONSTANTS
  NSlaves = 5
  HalfRange = 4096
  MaxSm = 8
  MaxPdos = 511
  MaxName = 40
  Setups <- AllSetups
  Words = 3
  Wide = {1}
  Retries = 1
  MaxNacks = 1
  MaxLosses = 1
  MaxCalls = 3
  DiscoveredSlaves = 3
  MaxSlave = 5
  Repeats = 1
  DiscoveryLosses = 2
  Clocks = {1, 2}
  PulseCalls <- AllPulses
  SyncDelay = 2
  MaxNow = 3
  MaxPulseLosses = 1
  MaxRequests = 3
INVARIANTS
  IdentityOwn
  ParentsRight
  ClocksRight
  SetupOwn
  MappingOwn
  FetchedIsWord
  OwnerAsBelieved
CHECK_DEADLOCK FALSE
