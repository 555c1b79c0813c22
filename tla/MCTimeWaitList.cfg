CONSTANTS
  ConnectionIds = {c1, c2, c3}
  TimeWaitPeriod = 2
  MaxConnections = 2
  MaxTime = 5
  MaxPackets = 9
SYMMETRY ConnectionIdSymmetry
SPECIFICATION ThrottleSpec
INVARIANTS
  AlarmCoversEveryRecord
  AnswersBackOff
PROPERTIES
  LeavesOnlyWhenDue
  AlarmMovesForward
