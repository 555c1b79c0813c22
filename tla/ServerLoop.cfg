CONSTANTS
  Connections = {c1, c2}
  TimeWait = TimeWait
  NoWriter = NoWriter
  ReceiveBuffer = 2
  SendBuffer = 2
  MaxBurst = 2
  MaxAlarms = 2
SPECIFICATION Spec
INVARIANTS
  UnreadIsSignalled
  BlockedIsSignalled
PROPERTIES
  WritersTakeTurns
  EveryWriterIsResumed
  EveryRoundEnds
