SPECIFICATION FairSpec
CONSTANTS
  top = top
  gift = gift
  h1 = h1
  h2 = h2
  loop = loop
  force = force
  admin = admin
  None = None
  Payment = {top,gift}
  Handler = {h1,h2}
  Worker = {loop,force}
  Admin = {admin}
  Loop = loop
  Twice = {gift}
  Short = {top,gift}
  MaxAttempts = 2
  MaxFaults = 3
  MaxPresses = 1
INVARIANTS TypeOK QueuedOnce DuplicateOnlyInDoubt Accounted
PROPERTIES WaitingIsSettled
CHECK_DEADLOCK FALSE
