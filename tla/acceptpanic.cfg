SPECIFICATION Spec
CONSTANTS
  p1 = p1
  Peers = {p1}
  NoPeer = nil
  Length <- Lengths
  Configs <- TwoStreams
  MaxTime = 0
  MaxAdmissions = 4
  k1 = k1
  SynKeys = {k1}
  DialKeys = {}
  AcceptBacklog = 1
  MaxConns = 2
INVARIANTS CloseRejects
CHECK_DEADLOCK FALSE
