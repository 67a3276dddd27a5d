SPECIFICATION Spec
CONSTANTS
  SeqSpace = 16
  ISN <- MidISN
  MaxSent <- BothSend2And1
  MaxWriteChunks = 2
  DefaultWindowSize = 2
  MaxWindowSize = 2
  FastRetransmitThreshold = 1
  MaxRetransmissions = 0
  MaxNACKs = 1
  BufSize = 4
  SendMayFail = FALSE
  StatusReports = FALSE
  Closers = {}
INVARIANTS NoSilentLoss AckHonest
PROPERTIES ImplementsChannel
