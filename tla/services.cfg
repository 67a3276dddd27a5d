SPECIFICATION ServicesSpec
CONSTANTS
  Services = {"requests", "status"}
  q1 = q1
  q2 = q2
  Pings = {q1, q2}
  l1 = l1
  l2 = l2
  Lookups = {l1, l2}
  EarlyAnswers = FALSE
  NoPing = NoPing
  c1 = c1
  c2 = c2
  Senders = {c1, c2}
  m1 = m1
  m2 = m2
  m3 = m3
  Messages = {m1, m2, m3}
  CleanupWhileSending = FALSE
  MaxReports = 4
  NoMessage = NoMessage
  NoSender = NoSender
INVARIANTS NoPendingLeak CountedOnce
PROPERTIES PingReturns DispatcherContinues SendCompletes
CHECK_DEADLOCK FALSE
