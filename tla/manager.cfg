SPECIFICATION ManagerSpec
CONSTANTS
  Parts = {"listener", "handshake", "filter", "tcb"}
  p1 = p1
  p2 = p2
  Peers = {p1, p2}
  NoPeer = nil
  Length <- Lengths
  Configs <- AllConfigs
  MaxTime = 3
  MaxAdmissions = 4
  k1 = k1
  SynKeys = {k1}
  d1 = d1
  DialKeys = {d1}
  AcceptBacklog = 1
  MaxConns = 3
  Dials = {1, 2}
  PortPair <- PortPairs
  MTU <- MTUs
  ServerMTU = 2
  MaxIncoming = 2
  r1 = r1
  r2 = r2
  Dests = {r1, r2}
  Forms = {"padded", "unpadded", "i2p", "raw", "other"}
  g1 = g1
  Configurers = {g1}
  ReplaceWhileListening = FALSE
  MaxHashes = 2
  NoHash = NoHash
  c1 = c1
  c2 = c2
  c3 = c3
  TcbConns = {c1, c2, c3}
  Rtts = {2, 9}
  CwndEnds = {1, 16}
  DefaultWindow = 6
  MaxWindow = 16
  MinRTO = 3
  MaxRTO = 24
  InitialRTO = 9
  EntryTTL = 1
  MaxSamples = 1
  MaxClock = 2
INVARIANTS
  TypeOK RateRespected NeverUndercounts RouteLostOnlyByClash
  ClientAgrees ServerAgrees FilterDecides
  RttWithinMeasured RtoCoversRtt CacheOnlyHelps
SYMMETRY PeerSymmetry
CHECK_DEADLOCK FALSE
