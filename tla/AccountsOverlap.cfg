SPECIFICATION Spec
CONSTANTS
  Req = {r1, r2}
  Browser = {b1, b2}
  Email = {e1, e2}
  Plain = {e1, e2}
  QueryEmail <- MCQueryEmail
  Password = {p1, p2}
  EmptyPassword = empty
  LongPassword = long
  None = none
  Expiry = 1
  Overlap = TRUE
  MaxSignups = 2
  MaxUsers = 2
  MaxTokens = 2
  MaxTime = 1
  MaxFaults = 1
SYMMETRY Symmetry
INVARIANT TypeOK
INVARIANT SessionProvesPassword
PROPERTY NoStrangerDeleted
PROPERTY ImplementsStore
