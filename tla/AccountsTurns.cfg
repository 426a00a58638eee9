SPECIFICATION LiveSpec
CONSTANTS
  Req = {r1, r2}
  Browser = {b1, b2}
  Email = {e1, e2, e3}
  Plain = {e1, e2}
  QueryEmail <- MCQueryEmail
  Password = {p1}
  EmptyPassword = empty
  LongPassword = long
  None = none
  Expiry = 1
  Overlap = FALSE
  MaxSignups = 2
  MaxUsers = 2
  MaxTokens = 2
  MaxTime = 2
  MaxFaults = 0
INVARIANT LiveSessionHeld
INVARIANT NoPendingBesideAccount
INVARIANT OpenedBySignup
PROPERTY MailedSignupResolves
