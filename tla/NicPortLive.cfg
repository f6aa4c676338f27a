SPECIFICATION FairSpec
CONSTANTS
  Threads = {t1, t2}
  None = None
  MaxBuf = 2
  MaxRequests = 1
  MaxSends = 2
  LateFrames = TRUE
  SendFailures = TRUE
INVARIANT
  IndexLostOnlyLate
PROPERTY
  TransactionEnds
