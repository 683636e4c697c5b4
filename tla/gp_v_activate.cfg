SPECIFICATION HSpec
CONSTANTS
  p1 = p1
  p2 = p2
  p3 = p3
  p4 = p4
  u1 = u1
  m = m
  s1 = s1
  s2 = s2
  None = None
  Purchase = {p1}
  Slot = {u1}
  Session = {m,s1,s2}
  Monitor = m
  Recipient <- SameRecipient
  Gift = {}
  CodeOnly = {}
  FromBalance = {}
  Mismatched = {}
  Unrecorded = {}
  Delisted = {}
  MaxRetries = 2
  Audited = {}
  SlowHandlers = FALSE
  MaxHooks = 1
  MaxClicks = 2
  MaxFaults = 0
  MaxCrashes = 0
  MaxLapses = 0
INVARIANTS GrantedAtMostOnce
CHECK_DEADLOCK FALSE
