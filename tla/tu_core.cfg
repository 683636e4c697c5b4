SPECIFICATION Spec
CONSTANTS
  yoo = yoo
  dir = dir
  cp = cp
  plat = plat
  hel = hel
  cYoo = cYoo
  cDir = cDir
  cCp = cCp
  cCp2 = cCp2
  cPlat = cPlat
  cHel = cHel
  payer = payer
  friend = friend
  s1 = s1
  s2 = s2
  User = {payer,friend}
  Session = {s1,s2}
  None = None
  Payment = {dir,cp,plat}
  Charge = {cDir,cCp,cPlat}
  Direct = {dir}
  Qualifying = {cp}
  FirstBonus = 2
  InviterBonus = 2
  Commission = 2
  Price = 1
  Redelivered = {dir,cp,plat}
  MaxFaults = 1
  MaxSpends = 1
  Provider <- ProviderIs
  ChargeOf <- PaymentOf
  Owner <- SamePayer
  Amount <- Ones
  Referrer <- Invited
INVARIANTS TypeOK ChargeBookedOnce BalanceIsBooked AnsweredIsLinked LinkedIffBooked
PROPERTIES ImplementsWallet
CHECK_DEADLOCK FALSE
SYMMETRY Symmetry
