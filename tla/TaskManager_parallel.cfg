CONSTANTS
  p1 = p1
  w1 = w1
  w2 = w2
  k1 = k1
  k2 = k2
  Incoming = Incoming
  Null = Null
  Poster <- OnePoster
  Worker <- TwoWorkers
  WorkerAt <- Workers
  NumWorkers = 2
  Task <- TwoTasks
  Count <- Counts
  MaxInFlight = 1
SPECIFICATION FairSpec
INVARIANTS
  TypeOK
  
  WorkerAwake
  
PROPERTIES
  
  WorkersEnd
CHECK_DEADLOCK FALSE
