SPECIFICATION FairSpec
CONSTANTS
  s1 = s1
  s2 = s2
  States = {s1, s2}
  NoState = NoState
  MaxRequests = 3
  MaxFaults = 1
INVARIANTS
  Consumed
  NobodyLeftOut
PROPERTIES
  AgreedConnects
CHECK_DEADLOCK FALSE
