CONSTANTS
  ConnectionIds = {c1, c2}
  Sessions = {s1, s2, s3}
  NoSession = NoSession
  TimeWait = TimeWait
  TimeWaitPeriod = 2
  MaxConnections = 1
  MaxTime = 3
  MaxPackets = 3
  MaxResponses = 3
SYMMETRY DispatcherSymmetry
SPECIFICATION Spec
INVARIANTS
  NoDanglingWriter
  OneOwner
  RefusedWritersAreQueued
  ResponsesInOrder
PROPERTIES
  ImplementsLifecycle
CHECK_DEADLOCK FALSE
