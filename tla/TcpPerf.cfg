CONSTANTS
  FLAGS_total_transfer = 5
  FLAGS_chunk_size = 2
  Durations = {0, 2}
  BUFFER_SIZE = 3
  Capacity = 3
  MaxBytes = 6
SPECIFICATION Spec
INVARIANTS
  TransferIsCounted
PROPERTIES
  EveryCountIsReported
  BothEnd
\* The server may wait in accept for ever, and both programs end.
CHECK_DEADLOCK FALSE
