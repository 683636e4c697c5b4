SPECIFICATION HFairSpec
CONSTANTS
  p1 = p1
  p2 = p2
  p3 = p3
  p4 = p4
  u1 = u1
  m = m
  s1 = s1
  s2 = s2
  None = None
  Purchase = {p1}
  Slot = {u1}
  Session = {m, s1}
  Monitor = m
  Recipient <- SameRecipient
  Gift = {}
  CodeOnly = {}
  FromBalance = {}
  Mismatched = {}
  Unrecorded = {}
  Delisted = {}
  MaxRetries = 2
  Audited = {}
  SlowHandlers = TRUE
  MaxHooks = 2
  MaxClicks = 1
  MaxFaults = 1
  MaxCrashes = 2
  MaxLapses = 1
INVARIANTS TypeOK GrantedOnlyIfPaid DeliveredWasGranted
PROPERTIES NeverRequeued PaidIsSettled
CHECK_DEADLOCK FALSE
