CONSTANTS
  n1 = n1
  n2 = n2
  n3 = n3
  t1 = t1
  t2 = t2
  Null = Null
  Node <- ThreeNodes
  Thread <- Two
  CounterMod = 7
  MaxSwaps = 7
SPECIFICATION Spec
INVARIANTS
  TypeOK
  OneOwner
  PointersExact
PROPERTIES
  ImplementsStack
CHECK_DEADLOCK FALSE
