SPECIFICATION Spec
CONSTANTS
  SeqSpace = 16
  ISN <- MidISN
  MaxSent <- BothSend2And1
  MaxWriteChunks = 2
  DefaultWindowSize = 1
  MaxWindowSize = 2
  FastRetransmitThreshold = 2
  MaxRetransmissions = 1
  MaxNACKs = 2
  BufSize = 10
  SendMayFail = FALSE
  StatusReports = FALSE
  Closers = {}
INVARIANTS SentNotYetAcked
