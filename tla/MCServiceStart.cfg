\* A start opens its cache by path, after it ensured that it owns the directory.
SPECIFICATION Spec
CONSTANTS
  a = a
  b = b
  Instances <- MCInstances
  Paths <- MCPaths
  Inodes = {1, 2, 3, 4}
  NoInode = 0
  MaxLock = 2
  f = f
  g = g
  Names <- MCNames
  Old = Old
  Targets <- MCTargets
  FirstSettings <- MCFirst
  FirstAt <- MCAt
  FirstFiles <- MCFiles
  Asks <- MCStartAsks
  Keeps = {FALSE}
  Shaken = {"c2"}
  MaxOutside = 1
SYMMETRY NameSymmetry
INVARIANTS
  MigrationIsAlone
