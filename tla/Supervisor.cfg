SPECIFICATION FairSpec
CONSTANTS
  N = 3
  Twins = {}
  Steady = {3}
  MaxFaults = 2
  MaxLosses = 1
  Exposed = {"readstate", "control"}
  Untimely = FALSE
  Stops = TRUE
INVARIANT
  AddressIsOwn
PROPERTIES
  OperationalLeftAlone
  Resumes
CHECK_DEADLOCK FALSE
