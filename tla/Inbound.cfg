\* part "filters": three requests with messages of three providers and one content, two
\* disturbances.  part "forwards": two forwards to two webhooks, behind a semaphore of
\* one, each with two attempts, and one disturbance.
SPECIFICATION MCSpec
CONSTANTS
  e1 = e1
  w1 = w1
  i1 = i1
  t1 = t1
  h1 = h1
  h2 = h2
  Msgs = {e1, w1, i1}
  Texts = {t1}
  Hooks = {h1, h2}
  RouteOf <- MCRouteOf
  TextOf <- MCTextOf
  FromMe = {w1}
  MaxItems = 2
  FloodMax = 1
  MaxQueue = 1
  MaxParallel = 1
  MaxAttempts = 2
  MaxRequests = 3
  MaxDisturbances = 2
INVARIANTS ForwardedIsPersisted OneForwardPerMemory AcceptedIsAccountedFor
PROPERTIES EveryForwardEnds
CHECK_DEADLOCK FALSE
