SPECIFICATION MCSpec
CONSTANTS
  Capacity = 16
  CursorModulus = 64
  Low = 7
  High = 14
  FrameCells <- Cells
  Exhausted = 3
  Faulty = {"renderer", "native"}
  Party <- Parties
  LastCounter = 1
  Plaintext = {"a", "b"}
INVARIANTS
  CountersAreSpentOnce
  DeliveredInOrder
  OpenedInOrder
  NonceOnce
PROPERTIES
  NativeCloseIsSeen
  RendererCloseIsSeen
  BackpressureEnds
CHECK_DEADLOCK FALSE
