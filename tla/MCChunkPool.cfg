SPECIFICATION PoolFairSpec
CONSTANTS
  SlabCount = 3
  Payloads = {p1, p2}
PROPERTIES
  ImplementsQueue
  SlabReturns
