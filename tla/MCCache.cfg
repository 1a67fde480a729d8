\* One caller asks a URL with two header sets and may hang up, leaving its flights
\* to race: one download per identity, and bodies of two ages.
CONSTANTS
  k1 = k1
  va = va
  vb = vb
  r1 = r1
  r2 = r2
  c1 = c1
  c2 = c2
  f1 = f1
  f2 = f2
  Keys <- MCKeys
  Versions <- MCVersions
  Variants <- MCOneVariant
  DiskPermits = 1
  NoEntry = NoEntry
  NoWriter = NoWriter
  NoJob = NoJob
  Requests <- MCRequests
  KeyOf <- MCKeyOf
  VariantOf <- MCSameVariant
  Clients <- MCClient
  Flights <- MCFlights
  DemandPermits = 1
  BackgroundPermits = 1
  Answers <- MCBodies
  MaxPreloaded = 0
  NoFlight = NoFlight
  NoPool = NoPool
  NoReply = NoReply
SPECIFICATION Spec
CONSTRAINTS StaysOpen Browsing
ACTION_CONSTRAINT AtOnce
SYMMETRY Symmetric
INVARIANTS
  SingleFlight
PROPERTIES
  OlderOnlyIfOvertaken
