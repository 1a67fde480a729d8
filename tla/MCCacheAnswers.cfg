\* One URL asked with two header sets of different bodies: every kind of answer,
\* restores, close() and crashes, against the store's own specification.
CONSTANTS
  k1 = k1
  va = va
  vb = vb
  r1 = r1
  r2 = r2
  c1 = c1
  c2 = c2
  f1 = f1
  f2 = f2
  Keys <- MCKeys
  Versions <- MCOneVersion
  Variants <- MCVariants
  DiskPermits = 2
  NoEntry = NoEntry
  NoWriter = NoWriter
  NoJob = NoJob
  Requests <- MCRequests
  KeyOf <- MCKeyOf
  VariantOf <- MCOwnVariant
  Clients <- MCClient
  Flights <- MCFlight
  DemandPermits = 1
  BackgroundPermits = 1
  Answers <- MCAnswers
  MaxPreloaded = 0
  NoFlight = NoFlight
  NoPool = NoPool
  NoReply = NoReply
SPECIFICATION Spec
SYMMETRY Symmetric
CONSTRAINT RestoreOrClose
INVARIANTS
  VariantServed
PROPERTIES
  StoreKept
