SPECIFICATION AcknowledgedSpec
CONSTANTS
  e1 = e1
  e2 = e2
  chat1 = chat1
  chat2 = chat2
  phone = phone
  c1 = c1
  c2 = c2
  c3 = c3
  t1 = t1
  t2 = t2
  t3 = t3
  t4 = t4
  t5 = t5
  w1 = w1
  w2 = w2
  Events = {e1, e2}
  Tokens = {t1, t2, t3, t4, t5}
  NoToken = NoToken
  Identities = {chat1, chat2, phone}
  Customers = {c1, c2}
  NoCustomer = NoCustomer
  Workers = {w1, w2}
  NoEvent = NoEvent
  IdentitiesOf <- MCIdentitiesOf
  Bookable = {e1}
  Unparseable = {e2}
  AdapterErrors = {"transient", "permanent"}
  MaxAttempts = 2
  MaxFaults = 1
PROPERTIES
  LostOnlyByDuplicate
