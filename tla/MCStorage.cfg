\* Safety of the store: two keys, two writers, crashes at any point.
CONSTANTS
  k1 = k1
  k2 = k2
  w1 = w1
  w2 = w2
  va = va
  Keys <- MCKeys
  Versions <- MCVersions
  Variants <- MCOneVariant
  Writers <- MCWriters
  DiskPermits = 2
  NoEntry = NoEntry
  NoWriter = NoWriter
  NoJob = NoJob
SPECIFICATION Spec
SYMMETRY Symmetric
INVARIANTS
  Coherent
PROPERTIES
  CloseFence
  AckedIsDurable
