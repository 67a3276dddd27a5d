SPECIFICATION Spec
CONSTANTS
  SeqSpace = 16
  ISN <- MidISN
  MaxSent <- ClientSends4
  MaxWriteChunks = 2
  DefaultWindowSize = 2
  MaxWindowSize = 3
  FastRetransmitThreshold = 2
  MaxRetransmissions = 0
  MaxNACKs = 2
  BufSize = 2
  SendMayFail = FALSE
  StatusReports = FALSE
  Closers = {}
INVARIANTS ReadIsPrefix
