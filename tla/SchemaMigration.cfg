SPECIFICATION FairSpec
CONSTANTS
  r1 = r1
  r2 = r2
  c1 = c1
  c2 = c2
  Runners = {r1, r2}
  NoRunner = NoRunner
  Keys = {phone}
  phone = phone
  e1 = e1
  Providers = {"kakao"}
  Customers = {c1, c2}
  Events = {e1}
  MaxRows = 3
  MaxFailures = 1
  Writing = TRUE
INVARIANTS
  AppliedMeansHardened
PROPERTIES
  RefusedOnlyIfItMust
  OwnershipKept
  EventuallyApplied
