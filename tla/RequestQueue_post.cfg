CONSTANTS
  t1 = t1
  t2 = t2
  Thread <- Two
  MaxPosts = 2
SPECIFICATION Spec
INVARIANTS
  TypeOK
  DestroyedWhenDone
  PostOrder
CHECK_DEADLOCK FALSE
