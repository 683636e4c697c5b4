SPECIFICATION Spec
CONSTANTS
  u1 = u1
  u2 = u2
  cash = cash
  time = time
  off = off
  s1 = s1
  s2 = s2
  None = None
  User = {u1,u2}
  Session = {s1,s2}
  Code = {cash,time,off}
  Subscribed = {u1}
  StartBalance = 2
  StartDays = 1
  MaxStarts = 4
  Kind <- KindOf
  MaxUses <- Once
  DailyCap = 2
  Bonus = 1
  BonusDays = 1
  Player = {u1}
  SpinLimit = 1
  SpinCost = 2
  SpinDays = 1
  Prize = 1
  PrizeDays = 1
  Partner = {u1}
  Earned <- OneEarned
  MinAmount = 1
  OnlyReferral = TRUE
  MaxRequests = 2
INVARIANTS TypeOK BonusOncePerUse LimitsHold BalanceReconciles DaysReconcile PayoutOnce OnePending EntitlementKept
CHECK_DEADLOCK FALSE
SYMMETRY Symmetry
