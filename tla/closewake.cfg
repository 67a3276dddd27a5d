SPECIFICATION Spec
CONSTANTS
  SeqSpace = 16
  ISN <- MidISN
  MaxSent <- ClientSends2
  MaxWriteChunks = 2
  DefaultWindowSize = 1
  MaxWindowSize = 2
  FastRetransmitThreshold = 2
  MaxRetransmissions = 1
  MaxNACKs = 2
  BufSize = 10
  SendMayFail = FALSE
  StatusReports = FALSE
  Closers = {"client", "server"}
INVARIANTS ClosedWakesWriter
CHECK_DEADLOCK FALSE
