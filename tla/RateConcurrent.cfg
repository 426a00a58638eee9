SPECIFICATION Spec
CONSTANTS
  Req = {r1, r2}
  Addr = {a1, a2}
  None = none
  Burst = 2
  Token = 2
  MaxTime = 5
SYMMETRY Symmetry
INVARIANT TypeOK
INVARIANT AdmittedWithinBudget
