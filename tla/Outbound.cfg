\* part "keys": two requests with one key and two panel sends that displace attempts, one
\* fault.  part "resends": resends of a panel send, one of them repeating a key, and of a
\* resend, two faults.  part "timeline": one send by any route, its echo and statuses.
SPECIFICATION MCSpec
CONSTANTS
  r1 = r1  r2 = r2
  d1 = d1  d2 = d2
  x1 = x1  x2 = x2  x3 = x3
  k1 = k1  k2 = k2
  s1 = s1  other = other
  None = None
  Requests = {r1, r2}
  KeyOf <- MCKeyOf
  Directs = {d1, d2}
  Resends = {x1, x2, x3}
  ActionKey <- MCActionKey
  Retention = 2
  Faults = {"crash", "write", "attempts_file", "actions_file"}
  MaxFaults = 2
  Base = 4
  NoNumber = NoNumber
  Threshold = 1000
  NoId = NoId
  Sends = {s1}
  Routes = {"unified", "quick", "legacy", "interactive", "instagram"}
  Notices <- MCNotices
  EventsKept = 2
  KeysKept = 6
  AttemptsKept = 1
  NoAttempt = NoAttempt
  Saves = 4
  Upsets = 1
INVARIANTS EvidenceIsTrue ReceivedOnce ShownAsHeard OneDeliveryPerSend KeptAsMeant
PROPERTIES OneSendPerKey ImplementsSendLedger CompletedResendIsLast TimelineSurvives
CHECK_DEADLOCK FALSE
