SPECIFICATION LiveSpec
CONSTANTS
  yoo = yoo
  dir = dir
  cp = cp
  plat = plat
  hel = hel
  cYoo = cYoo
  cDir = cDir
  cCp = cCp
  cCp2 = cCp2
  cPlat = cPlat
  cHel = cHel
  payer = payer
  friend = friend
  s1 = s1
  s2 = s2
  User = {payer}
  Session = {s1,s2}
  None = None
  Payment = {yoo,hel}
  Charge = {cYoo,cHel}
  Direct = {}
  Qualifying = {yoo,hel}
  FirstBonus = 1
  InviterBonus = 1
  Commission = 1
  Price = 1
  Redelivered = {yoo,hel}
  MaxFaults = 1
  MaxSpends = 0
  Provider <- ProviderIs
  ChargeOf <- PaymentOf
  Owner <- SamePayer
  Amount <- Ones
  Referrer <- Alone
PROPERTIES ChargeIsCredited LinkIsKept
CHECK_DEADLOCK FALSE
