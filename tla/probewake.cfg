SPECIFICATION Spec
CONSTANTS
  SeqSpace = 16
  ISN <- MidISN
  MaxSent <- ClientSends5
  MaxWriteChunks = 3
  DefaultWindowSize = 2
  MaxWindowSize = 4
  FastRetransmitThreshold = 2
  MaxRetransmissions = 0
  MaxNACKs = 2
  BufSize = 1
  SendMayFail = FALSE
  StatusReports = FALSE
  Closers = {}
INVARIANTS NoLostWakeupProbes
