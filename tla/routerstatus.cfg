SPECIFICATION Spec
CONSTANTS
  SeqSpace = 16
  ISN <- MidISN
  MaxSent <- ClientSends2
  MaxWriteChunks = 1
  DefaultWindowSize = 2
  MaxWindowSize = 2
  FastRetransmitThreshold = 2
  MaxRetransmissions = 1
  MaxNACKs = 2
  BufSize = 10
  SendMayFail = FALSE
  StatusReports = TRUE
  Closers = {}
INVARIANTS NoSilentLoss
