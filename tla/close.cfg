SPECIFICATION Spec
CONSTANTS
  SeqSpace = 16
  ISN <- MidISN
  MaxSent <- ClientSends2
  MaxWriteChunks = 2
  DefaultWindowSize = 2
  MaxWindowSize = 2
  FastRetransmitThreshold = 2
  MaxRetransmissions = 0
  MaxNACKs = 2
  BufSize = 10
  SendMayFail = TRUE
  StatusReports = TRUE
  Closers = {"client", "server"}
INVARIANTS AckHonest TrackedIsTimed
PROPERTIES NeverBackwards
CHECK_DEADLOCK FALSE
