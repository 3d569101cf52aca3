CONSTANTS
  Item <- Vars
  Priority <- Priorities
  Condition <- Conditions
  Value = {0, 1}
  MaxByte = 3
  PacketSize = 14
  CommandSize = {7}
  PerFrame = 1
  MaxChange = 3
  MaxCommand = 2
SPECIFICATION Spec
INVARIANTS
  TypeOK
  EncodedIsDecoded
  
  SentWithinPriority
CHECK_DEADLOCK FALSE
