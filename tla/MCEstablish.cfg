SPECIFICATION Spec
CONSTANTS
    SchemaVersion = 1
    HeaderSize = 16
    MaxRingCapacity = 4000
    MaxInlineMessage = 64
    FrameOverhead = 2
    MaxInline = 9
    MaxMessage = 20
    PeerLimit = 18
    HelloBytes = 12
    AckBytes = 7
    MaxProtocol = 2
INVARIANTS
  DecodesAsMeant
  AgreeOnSelection
  EmptyRingFits
PROPERTIES
  UnhinderedOpens
CHECK_DEADLOCK FALSE
