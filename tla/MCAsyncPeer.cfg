SPECIFICATION Spec
CONSTANTS
    Writers = {w1, w2}
    MaxChanges = 3
INVARIANTS
  NeverAsleepOnProgress
PROPERTIES
  OperationsReturn
CHECK_DEADLOCK FALSE
