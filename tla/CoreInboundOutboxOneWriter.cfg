\* One dispatcher worker on the JSON store, as the deployment notes require.
SPECIFICATION FairSpec
CONSTANTS
  m1 = m1
  g1 = g1
  g2 = g2
  None = None
  Messages = {m1}
  Groups = {g1}
  GroupOf <- MCGroupOf
  Workers = {w1}
  Store = "json"
  MaxBindings = 2
  BatchLimit = 2
  MaxAttempts = 2
  LeaseTime = 1
  PostTimeout = 1
  Retention = 1
  Backoff <- MCBackoff
  MaxDisturbances = 3
INVARIANTS ClaimIsExclusive
PROPERTIES RevokedComesToRest EveryEventSettles
CHECK_DEADLOCK FALSE
