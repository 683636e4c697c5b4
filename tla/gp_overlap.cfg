SPECIFICATION HSpec
CONSTANTS
  p1 = p1
  p2 = p2
  p3 = p3
  p4 = p4
  u1 = u1
  m = m
  s1 = s1
  s2 = s2
  None = None
  Purchase = {p1,p2,p3,p4}
  Slot = {u1}
  Session = {m,s1}
  Monitor = m
  Recipient <- SameRecipient
  Gift = {p1,p2}
  CodeOnly = {p1}
  FromBalance = {p2}
  Mismatched = {p3}
  Unrecorded = {p1}
  Delisted = {p2}
  MaxRetries = 1
  Audited = {p1,p2,p3,p4}
  SlowHandlers = FALSE
  MaxHooks = 2
  MaxClicks = 1
  MaxFaults = 1
  MaxCrashes = 1
  MaxLapses = 1
INVARIANTS GrantsAreAccountedFor OpenIsUngranted NoPeriodLost AmountConfirmed
CONSTRAINT FewAtATime
CHECK_DEADLOCK FALSE
