SPECIFICATION Spec
CONSTANTS
  Req = {r1}
  Browser = {b1}
  Email = {e1}
  Plain = {e1}
  QueryEmail <- MCQueryEmail
  Password = {p1}
  EmptyPassword = empty
  LongPassword = long
  None = none
  Expiry = 1
  Overlap = FALSE
  MaxSignups = 1
  MaxUsers = 1
  MaxTokens = 1
  MaxTime = 0
  MaxFaults = 1
SYMMETRY Symmetry
PROPERTY DeletedPageMeansDeleted
