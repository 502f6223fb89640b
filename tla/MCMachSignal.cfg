SPECIFICATION SignalSpec
CONSTANTS
    Clients = {c1, c2, c3}
    QueueLimit = 2
    MaxRefs = 2
INVARIANTS
  CancelledOnlyAfterLastSender
PROPERTIES
  LastSenderIsSeenUnlessSwallowed
CHECK_DEADLOCK FALSE
