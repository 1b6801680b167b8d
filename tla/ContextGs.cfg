SPECIFICATION Spec
CONSTANTS
  main = main
  kernel = kernel
  None = None
  u1 = u1
  u2 = u2
  k1 = k1
  Plain <- MCPlain
  Users <- MCUsers
SYMMETRY MCSymmetry
INVARIANTS
  EntersSaveArea
