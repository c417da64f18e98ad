\* A cancellation overtakes the Evolution call.
SPECIFICATION Spec
CONSTANTS
  e1 = e1
  w1 = w1
  i1 = i1
  i2 = i2
  None = None
  Setups = {e1}
  KindOf <- MCKindOf
  Calls = {c1}
  Accounts = {a1}
  Overtaking = {e1}
  LostAnswers = FALSE
  MaxCrashes = 0
PROPERTIES NeverRevived
CHECK_DEADLOCK FALSE
