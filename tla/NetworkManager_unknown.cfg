CONSTANTS
  a = a
  b = b
  Node <- Pair
  Connectors = {a}
  MaxPeers <- OnePeerEach
  MaxConnects = 0
  MaxSends = 1
  MaxDisconnects = 0
  MaxIncarnations = 2
  PatientUser = TRUE
SPECIFICATION ManagerSpec
INVARIANTS
  RecieveFromKnownHost
CHECK_DEADLOCK FALSE
