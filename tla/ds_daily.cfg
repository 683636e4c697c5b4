SPECIFICATION FairSpec
CONSTANTS
  d1 = d1
  x = x
  loop = loop
  pay = pay
  bot = bot
  cab = cab
  mini = mini
  None = None
  Daily = {d1}
  Elsewhere = {x}
  Gone = {x}
  Loop = loop
  TopUp = {pay}
  Bot = bot
  Cabinet = cab
  Miniapp = mini
  Price = 2
  Amount = {4}
  Initially = {1}
  MaxRetries = 2
  MaxDays = 1
  MaxTopUps = 1
  MaxEvents = 2
  MaxFaults = 2
INVARIANTS TypeOK ChargeBuysDay ChargedOnceADay PaidDayIsServed LaggingIsKnown
CHECK_DEADLOCK FALSE
PROPERTIES DueIsSettled FundedIsResumed
