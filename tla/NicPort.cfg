SPECIFICATION Spec
CONSTANTS
  Threads = {t1, t2}
  None = None
  MaxBuf = 2
  MaxRequests = 2
  MaxSends = 2
  LateFrames = FALSE
  SendFailures = FALSE
INVARIANT
  IndexExclusive
PROPERTY
  CallsAnswered
