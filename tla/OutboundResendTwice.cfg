\* Resends under two keys, and no faults; the timeline stands still.
SPECIFICATION MCSpec
CONSTANTS
  r1 = r1  r2 = r2
  d1 = d1  d2 = d2
  x1 = x1  x2 = x2  x3 = x3
  k1 = k1  k2 = k2
  s1 = s1  other = other
  None = None
  Requests = {}
  KeyOf <- MCKeyOf
  Directs = {d1}
  Resends = {x1, x2}
  ActionKey <- MCActionKey
  Retention = 3
  Faults = {}
  MaxFaults = 0
  Base = 4
  NoNumber = NoNumber
  Threshold = 1000
  NoId = NoId
  Sends = {}
  Routes = {}
  Notices = {}
  EventsKept = 1
  KeysKept = 3
  AttemptsKept = 1
  NoAttempt = NoAttempt
  Saves = 0
  Upsets = 0
INVARIANTS ResendHasOneEffect
CHECK_DEADLOCK FALSE
