SPECIFICATION Spec
CONSTANTS
  SeqSpace = 16
  ISN <- MidISN
  MaxSent <- ClientSends3
  MaxWriteChunks = 2
  DefaultWindowSize = 1
  MaxWindowSize = 2
  FastRetransmitThreshold = 2
  MaxRetransmissions = 0
  MaxNACKs = 2
  BufSize = 1
  SendMayFail = FALSE
  StatusReports = FALSE
  Closers = {}
PROPERTIES NoChunkWhileChoked
