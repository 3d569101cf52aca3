CONSTANTS
  s1 = s1
  s2 = s2
  f1 = f1
  i1 = i1
  Processor <- Processors
  Active <- InOrder
  Autonomous <- WithThread
  Synchronized <- InFrames
  Base = s1
  Slave <- Slaves
  MaxFrame = 2
  MaxPost = 1
  PatientOwner = TRUE
SPECIFICATION FairSpec
INVARIANTS
  TypeOK
  FrameExclusive
  FrameComplete
  PostedOnce
PROPERTIES
  FrameEnds
  ClearEnds
CHECK_DEADLOCK FALSE
