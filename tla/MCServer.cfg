CONSTANTS
  Query = {q1, q2}
  Conn = {c1}
  MaxConcurrency = 2
  OverallTimeout = 1
  TCPIdleTimeout = 3
  TCPAdmitTimeout = 1
  DrainGrace = 1
  ForwardLate = 2
  MaxFrames = 1
SPECIFICATION FairSpec
INVARIANTS
  SlotsAccounted
  DrainCoversLookups
  ShutdownWithin
PROPERTIES
  NoAddAfterWait
  ShutdownReturns
  ConnectionsEnd
CHECK_DEADLOCK FALSE
