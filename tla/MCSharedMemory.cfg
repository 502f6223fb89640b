SPECIFICATION Spec
CONSTANTS
    Clients = {c1, c2}
    MaxGeneration = 3
    Numbers = {1, 2}
INVARIANTS
    RightsBalance
    OpenMapsItsRegion
PROPERTIES
    EntryRequestsEnd
CHECK_DEADLOCK FALSE
