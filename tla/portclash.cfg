SPECIFICATION Spec
CONSTANTS
  p1 = p1
  p2 = p2
  Peers = {p1, p2}
  NoPeer = nil
  Length <- Lengths
  Configs <- TwoStreams
  MaxTime = 0
  MaxAdmissions = 4
  k1 = k1
  SynKeys = {k1}
  DialKeys = {}
  AcceptBacklog = 1
  MaxConns = 2
INVARIANTS HeldIsRouted
CHECK_DEADLOCK FALSE
