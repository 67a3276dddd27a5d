SPECIFICATION Spec
CONSTANTS
  SeqSpace = 16
  ISN <- MidISN
  MaxSent <- ClientSends3
  MaxWriteChunks = 2
  DefaultWindowSize = 3
  MaxWindowSize = 3
  FastRetransmitThreshold = 2
  MaxRetransmissions = 0
  MaxNACKs = 1
  BufSize = 2
  SendMayFail = FALSE
  StatusReports = FALSE
  Closers = {}
INVARIANTS NoStuckChoke AcceptedIsPrefix NackSound
PROPERTIES ReadUntilOverflow
