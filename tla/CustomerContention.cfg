SPECIFICATION FairSpec
CONSTANTS
  chat1 = chat1
  chat2 = chat2
  phone = phone
  c1 = c1
  c2 = c2
  c3 = c3
  t1 = t1
  t2 = t2
  t3 = t3
  l1 = l1
  l2 = l2
  l3 = l3
  Identities = {chat1, chat2, phone}
  Customers = {c1, c2}
  NoCustomer = NoCustomer
  Calls = {t1, t2, t3}
  NoCall = NoCall
  Requests <- ContendedRequests
  KeyRank <- MCKeyRank
  Locks = {l1, l2, l3}
  LockOf <- CollidingLocks
  PoolSize = 2
PROPERTIES
  EveryCallEnds
