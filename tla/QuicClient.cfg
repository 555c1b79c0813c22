CONSTANTS
  Chunks = 3
  Window = 2
  ReceiveBuffer = 2
  SendBuffer = 2
  MaxBurst = 1
  Patience = 2
SPECIFICATION Spec
\* main returns.
CHECK_DEADLOCK FALSE
INVARIANTS
  WakeUpIsComing
  BufferedForAReason
PROPERTIES
  ConnectEnds
  TransferEnds
