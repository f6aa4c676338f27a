SPECIFICATION DiscoverySpec
CONSTANTS
  DiscoveredSlaves = 3
  MaxSlave = 5
  Repeats = 1
  DiscoveryLosses = 0
INVARIANT
  WideIsOwn
CHECK_DEADLOCK FALSE
