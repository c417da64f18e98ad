\* An Evolution setup, never overtaken, and a WhatsApp setup with two completions.
SPECIFICATION FairSpec
CONSTANTS
  e1 = e1
  w1 = w1
  i1 = i1
  i2 = i2
  None = None
  Setups = {e1, w1}
  KindOf <- MCKindOf
  Calls = {c1, c2}
  Accounts = {a1}
  Overtaking = {}
  LostAnswers = TRUE
  MaxCrashes = 1
INVARIANTS PublishedIsReady ClosedLeavesNothing
PROPERTIES ImplementsLifecycle NoSetupLingers AbandonedIsDeleted
CHECK_DEADLOCK FALSE
