SPECIFICATION Spec
CONSTANTS
  MaxSize = 6
  MinSize = 1
  DataL = 2
  DataRl = 2
  MaxBusy = 1
  Faults = FALSE
  None = None
INVARIANT
  WriteComplete
