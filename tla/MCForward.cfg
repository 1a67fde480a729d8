SPECIFICATION FairSpec
CONSTANTS
  e1 = e1
  e2 = e2
  Exchanges <- MCExchanges
  Api = 1
  Idle = 2
  Total = 3
  Limit = 1
  MaxFrames = 3
INVARIANTS
  PermitsReturned
  ObservedOnce
  NoSilentTruncation
PROPERTIES
  NoFalseTimeout
  WaitsEnd
