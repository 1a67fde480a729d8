\* Battle windows that open, overlap and end, and tables with room for two entries.
CONSTANTS
  battle = battle
  script = script
  image = image
  sound = sound
  Urls <- MCUrls
  Battles <- MCBattles
  Type <- MCType
  Bodies <- MCBodies
  Capacity = 2
  MaxFailures = 1
  Window = 2
  Fresh = 1
  Warm = 2
  Slots = 1
  MaxTime = 2
  NoRecord = NoRecord
  NoJob = NoJob
SPECIFICATION Spec
CONSTRAINT Roles
CHECK_DEADLOCK FALSE
INVARIANTS
  Linked
  Servable
  WindowsEnd
PROPERTIES
  PromiseKept
  BattleFirst
