SPECIFICATION FairAnyPart
CONSTANTS
  Slaves = {1}
  MaxElist = 3
  None = None
  NoMail = NoMail
  MaxCnt = 2
  MaxTries = 2
  MaxRequests = 3
  MaxUnasked = 1
  MaxLosses = 1
INVARIANTS
  FlagCoversList
  NoMailSkipped
  RequestOnce
  AnswerIsOwn
PROPERTIES
  RingIsLog
  TransferEnds
