SPECIFICATION FairServices
CONSTANTS
  Indexes = {x}
  Idns = {s}
  Sizes = {3, 9, 16}
  MailData = 3
  MaxCalls = 2
  MaxFaults = 2
  SlaveStops = FALSE
  Block = 4
  Stamp = 1
  Stamped = {TRUE, FALSE}
  MaxFrames = 2
  MaxODList = 11
  MaxSize = 6
  MinSize = 0
  DataL = 2
  DataRl = 2
  MaxBusy = 1
  Faults = TRUE
  None = None
INVARIANTS
  CopyIsPrefix
  ReadIsObject
  WriteIsStored
  FrameWhole
PROPERTY
  CallEnds
