\* What the preload counter counts.
CONSTANTS
  k1 = k1
  va = va
  vb = vb
  r1 = r1
  r2 = r2
  c1 = c1
  c2 = c2
  f1 = f1
  f2 = f2
  Keys <- MCKeys
  Versions <- MCOneVersion
  Variants <- MCVariants
  DiskPermits = 2
  NoEntry = NoEntry
  NoWriter = NoWriter
  NoJob = NoJob
  Requests <- MCRequest
  KeyOf <- MCKeyOf
  VariantOf <- MCSameVariant
  Clients <- MCClient
  Flights <- MCFlight
  DemandPermits = 1
  BackgroundPermits = 1
  Answers <- MCAnswers
  MaxPreloaded = 1
  NoFlight = NoFlight
  NoPool = NoPool
  NoReply = NoReply
SPECIFICATION Spec
CONSTRAINT StaysOpen
SYMMETRY Symmetric
PROPERTIES
  PreloadsAreSaved
