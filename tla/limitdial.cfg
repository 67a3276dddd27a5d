SPECIFICATION Spec
CONSTANTS
  p1 = p1
  Peers = {p1}
  NoPeer = nil
  Length <- Lengths
  Configs <- OneStream
  MaxTime = 0
  MaxAdmissions = 4
  k1 = k1
  SynKeys = {k1}
  d1 = d1
  DialKeys = {d1}
  AcceptBacklog = 1
  MaxConns = 2
INVARIANTS CombinedLimit
CHECK_DEADLOCK FALSE
