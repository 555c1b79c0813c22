CONSTANTS
  ConnectionIds = {c1, c2}
  Sessions = {s1, s2}
  NoSession = NoSession
  TimeWait = TimeWait
  TimeWaitPeriod = 2
  MaxConnections = 1
  MaxTime = 3
  MaxPackets = 3
  MaxResponses = 3
SPECIFICATION Spec
PROPERTIES
  ShutdownReachesAllClients
CHECK_DEADLOCK FALSE
