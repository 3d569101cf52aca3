CONSTANTS
  m = m
  a = a
  b = b
  Null = Null
  Object <- Objects
  Module <- Modules
  InitialSize = 1
  NumBucket = 2
  MaxName = 2
  MaxHeld = 1
SPECIFICATION Spec
INVARIANTS
  TableExact
  HashExact
  LiveIsReferenced
  
SYMMETRY Symmetry
CHECK_DEADLOCK FALSE
