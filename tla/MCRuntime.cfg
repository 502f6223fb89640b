SPECIFICATION FacadeSpec
CONSTANTS
  LastSession = 3
  LastGeneration = 5
  Windows = {w1, w2}
  LastHosted = 5
  Retained = 2
INVARIANTS
  ReleasedOnce
  HeldWhileLive
  LatestAreObserved
  SnapshotIsTrue
  OneWindowPerSession
PROPERTIES
  CloseIsFinal
  ImplementsLease
CHECK_DEADLOCK FALSE
