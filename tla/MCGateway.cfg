SPECIFICATION FairSpec
CONSTANTS
  c1 = c1
  c2 = c2
  t1 = t1
  t2 = t2
  p1 = p1
  p2 = p2
  Conns <- MCConns
  Targets <- MCTargets
  Clients <- MCClients
  MaxFlows = 1
  Room = 1
  NoClient = NoClient
  NoPacket = NoPacket
  Slots = 1
CHECK_DEADLOCK FALSE
INVARIANTS
  SlotsBalanced
  CloseIsQuiet
  AnswersOwner
PROPERTIES
  EndedFlowGoes
  CloseTerminates
