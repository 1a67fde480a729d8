\* Four keys, entries of two useful weights, ages up to two.
CONSTANTS
  k1 = k1
  k2 = k2
  k3 = k3
  k4 = k4
  small = small
  large = large
  huge = huge
  Keys <- MCKeys
  Entries <- MCEntries
  Weight <- MCWeight
  Limit = 6
  Idle = 2
  NoEntry = NoEntry
SPECIFICATION Spec
SYMMETRY Symmetric
INVARIANTS
  WithinLimits
PROPERTIES
  ContractKept
  BackgroundIsGentle
  DemandEvictsInOrder
