SPECIFICATION Spec
CONSTANTS
    Consumers = {c1, c2}
    ServiceLimit = 1
INVARIANTS
  NothingLeftBehind
PROPERTIES
  ConsumeReturnsUnlessStuck
CHECK_DEADLOCK FALSE
