CONSTANTS
  Item <- Vars
  Priority <- Priorities
  Condition <- Conditions
  Value = {0, 1}
  MaxByte = 3
  PacketSize = 13
  CommandSize = {1}
  PerFrame = 2
  MaxChange = 2
  MaxCommand = 0
SPECIFICATION Spec
PROPERTIES
  NewerKept
CHECK_DEADLOCK FALSE
