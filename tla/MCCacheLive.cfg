\* Streams: everybody is answered, permits go with the streams, close() returns.
CONSTANTS
  k1 = k1
  va = va
  vb = vb
  r1 = r1
  r2 = r2
  c1 = c1
  c2 = c2
  f1 = f1
  f2 = f2
  Keys <- MCKeys
  Versions <- MCOneVersion
  Variants <- MCVariants
  DiskPermits = 2
  NoEntry = NoEntry
  NoWriter = NoWriter
  NoJob = NoJob
  Requests <- MCRequest
  KeyOf <- MCKeyOf
  VariantOf <- MCSameVariant
  Clients <- MCClients
  Flights <- MCFlight
  DemandPermits = 1
  BackgroundPermits = 1
  Answers <- MCStreamOnly
  MaxPreloaded = 0
  NoFlight = NoFlight
  NoPool = NoPool
  NoReply = NoReply
SPECIFICATION FairSpec
CONSTRAINT NoRestore
PROPERTIES
  Answered
  CloseTerminates
  StreamKeepsPermit
INVARIANTS
  PromotionNotLost
