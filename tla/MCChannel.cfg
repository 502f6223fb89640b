SPECIFICATION FairSpec
CONSTANTS
  Capacity = 14
  CursorModulus = 64
  Low = 0
  High = 8
  Inline = 16
  Largest = 32
  Payloads <- OneWay
  Enders = {"a"}
  Mortal = {"a"}
  FailingHints = {"b"}
  IdModulus = 3
PROPERTIES
  ImplementsLink
  EmptyRingAccepts
  DeliveredWithoutHints
  BackpressureClears
CHECK_DEADLOCK FALSE
