\* Two Gateway processes on the Postgres store; nothing is assumed of their speed.
SPECIFICATION Spec
CONSTANTS
  m1 = m1
  g1 = g1
  g2 = g2
  None = None
  Messages = {m1}
  Groups = {g1}
  GroupOf <- MCGroupOf
  Workers = {w1, w2}
  Store = "postgres"
  MaxBindings = 2
  BatchLimit = 1
  MaxAttempts = 2
  LeaseTime = 1
  PostTimeout = 1
  Retention = 1
  Backoff <- MCBackoff
  MaxDisturbances = 1
INVARIANTS NoEventLost
PROPERTIES ImplementsHandoff
CHECK_DEADLOCK FALSE
