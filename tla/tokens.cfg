\* Three calls racing for one account's token, with failures and crashes.
SPECIFICATION Spec
CONSTANTS
  c1 = c1  c2 = c2  c3 = c3
  Calls = {c1, c2, c3}
  Nobody = Nobody
  Buffer = 1
  Lifetimes = {1, 2}
  CoolMax = 2
  Cancels = FALSE
  MaxTime = 2
  MaxGrants = 4
  MaxFaults = 2
SYMMETRY CallSymmetry
INVARIANTS DiskNotBehind NeverLockedOut
PROPERTY CellSpec
