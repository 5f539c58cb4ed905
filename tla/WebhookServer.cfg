SPECIFICATION FairSpec
CONSTANTS
  r1 = r1
  r2 = r2
  Requests = {r1, r2}
  Limit = 2
  Sizes = {2, 3}
  PoolSize = 1
  MaxFaults = 1
INVARIANTS
  StatusAsDeserved
  LeftInProcessing
  NobodyCutOff
PROPERTIES
  Drained
CHECK_DEADLOCK FALSE
