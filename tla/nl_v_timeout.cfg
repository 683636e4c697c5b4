SPECIFICATION Spec
CONSTANTS
  top = top
  gift = gift
  h1 = h1
  h2 = h2
  loop = loop
  force = force
  admin = admin
  None = None
  Payment = {top}
  Handler = {h1,h2}
  Worker = {loop,force}
  Admin = {admin}
  Loop = loop
  Twice = {}
  Short = {top}
  MaxAttempts = 2
  MaxFaults = 2
  MaxPresses = 0
INVARIANTS UncertainNotQueued
CHECK_DEADLOCK FALSE
