SPECIFICATION Spec
CONSTANTS
  e1 = e1
  e2 = e2
  t1 = t1
  t2 = t2
  i1 = i1
  i2 = i2
  c1 = c1
  c2 = c2
  NoToken = NoToken
  NoCustomer = NoCustomer
  Events = {e1, e2}
  Tokens = {t1, t2}
  Identities = {i1, i2}
  Customers = {c1, c2}
  Lease = 1
  MaxNow = 2
INVARIANTS
  Consistent
PROPERTIES
  ImplementsTables
CHECK_DEADLOCK FALSE
