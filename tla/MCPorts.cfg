SPECIFICATION FairAnyPart
CONSTANTS
  Systems = {"win32", "macosx", "rtems", "rtk", "erika", "intime", "vxworks"}
  Threads = {t1, t2}
  MaxBuf = 2
  MaxCalls = 3
  Briefly = {"win32", "macosx", "rtems", "rtk", "erika", "intime"}
  MaxSends = 2
  MaxMishaps = 1
  None = None
  Nothing = Nothing
  Absent = Absent
  Rings = {"linux", "win32", "macosx", "rtems", "vxworks"}
  RingSlaves = 3
  RingSends = 2
  MaxLosses = 2
  MaxChanges = 2
  LateFrames = FALSE
  MaxMulti = 3
  MaxSlaves = 7
  Lengths = {1, 3}
INVARIANTS
  BreakTolerated
  AnswerIsDatagram
  EachReadsOwn
PROPERTIES
  PortsKeepPromise
  PortCallEnds
