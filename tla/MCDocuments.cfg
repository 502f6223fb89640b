SPECIFICATION MCSpec
CONSTANTS
  Capacity = 3
  CursorModulus = 8
  High = 2
  Low = 0
  LastDocument = 1
  LastPort = 2
  LastMessage <- Messages
  LastPost <- Posts
  PageId = {1, 2}
  LastPageDocument = 4
INVARIANTS
  HeardInOrder
  BindingFollowsDocument
PROPERTIES
  EndingIsHeard
CHECK_DEADLOCK FALSE
