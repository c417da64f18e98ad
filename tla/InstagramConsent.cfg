\* A refresh and a disconnection at the same time.
SPECIFICATION IgSpec
CONSTANTS
  Setups = {s1}
  Linked = {c1}
  Accounts = {1, 2}
  Intents = {i1, i2}
  NoAccount = NoAccount
  Legacy = Legacy
  Disturbances = 2

PROPERTY TokensComeByConsent
CHECK_DEADLOCK FALSE
