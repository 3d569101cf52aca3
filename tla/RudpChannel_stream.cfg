CONSTANTS
  MaxSend = 5
  WindowSize = 3
  MaxResend = 2
  SeqMod = 6
SPECIFICATION FairSpec
INVARIANTS
  TypeOK
  InOrderOnce
  Custody
  WindowExact
  OldMeansReceived
PROPERTIES
  ImplementsStream
  Settles
CHECK_DEADLOCK FALSE
