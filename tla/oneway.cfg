SPECIFICATION FairSpec
CONSTANTS
  SeqSpace = 16
  ISN <- MidISN
  MaxSent <- ClientSends3
  MaxWriteChunks = 2
  DefaultWindowSize = 3
  MaxWindowSize = 3
  FastRetransmitThreshold = 2
  MaxRetransmissions = 1
  MaxNACKs = 3
  BufSize = 10
  SendMayFail = FALSE
  StatusReports = FALSE
  Closers = {}
INVARIANTS TypeOK NackSound GapsNacked ReadIsPrefix NoLostWakeup
PROPERTIES AcceptedOrGivenUp
