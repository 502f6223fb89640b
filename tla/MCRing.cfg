SPECIFICATION FairSpec
CONSTANTS
  Capacity = 8
  CursorModulus = 24
  SequenceModulus = 3
  IdModulus = 3
  Batches <- MCBatches
INVARIANTS
  WriterNeverFails
  BufferedNotUnderstated
PROPERTIES
  ImplementsQueue
  CommittedIsReceived
CHECK_DEADLOCK FALSE
