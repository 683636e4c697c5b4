SPECIFICATION Spec
CONSTANTS
  a = a
  b = b
  c = c
  ab = ab
  ba = ba
  ca = ca
  x1 = x1
  x2 = x2
  s1 = s1
  s2 = s2
  None = None
  User = {a, b, c}
  Session = {s1, s2}
  Token = {ab, ba, ca}
  Payment = {x1, x2}
  Groups <- InOrder
  Email = "email"
  WithPassword = {a}
  Primary <- PrimaryOf
  Secondary <- SecondaryOf
  Has <- Identities
  Subscribed = {a, b}
  StartMoney <- OneUnit
  StartPayer <- Payers
  MaxRestores = 1
PROPERTIES IdentityMoved
CHECK_DEADLOCK FALSE
SYMMETRY Symmetry
