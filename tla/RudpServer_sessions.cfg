CONSTANTS
  a = a
  b = b
  c = c
  Node <- Pair
  Connectors = {a}
  MaxPeers <- OnePeerEach
  MaxConnects = 2
  MaxSends = 1
  MaxDisconnects = 1
  MaxIncarnations = 3
  PatientUser = TRUE
SPECIFICATION FairSpec
INVARIANTS
  AcceptorHearsPartner
  AcceptedAfterVerify
PROPERTIES
  Answered
CHECK_DEADLOCK FALSE
