CONSTANTS
  a = a
  b = b
  Node <- Pair
  Connectors = {a}
  MaxPeers <- OnePeerEach
  MaxConnects = 1
  MaxSends = 1
  MaxDisconnects = 1
  MaxIncarnations = 3
  PatientUser = FALSE
SPECIFICATION ManagerSpec
INVARIANTS
  
  WaitEnds
CHECK_DEADLOCK FALSE
