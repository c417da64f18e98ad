\* Two accounts, two authorizations, a setup and a linked connection, two
\* disturbances; two runs of the onboarding of one number, with a crash.
SPECIFICATION MCSpec
CONSTANTS
  Setups = {s1}
  Linked = {c1}
  Accounts = {1, 2}
  Intents = {i1, i2}
  NoAccount = NoAccount
  Legacy = Legacy
  Disturbances = 2
  Names = {n1}
  Runs = {r1, r2}
  Phones = {p1}
  NoPhone = NoPhone
  NoPin = NoPin
  OwnerPin = OwnerPin
  Renumbering = FALSE
  Crashes = 1
INVARIANTS OneConnectionPerAccount BoundHasToken ReadyIsSubscribed ReadyIsOperational PinIsKept
PROPERTIES DueTokensAreSettled
CHECK_DEADLOCK FALSE
