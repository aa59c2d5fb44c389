\* Two connections of one address and one of another, rotations of the tokens.
SPECIFICATION FairSpec
CONSTANTS
  c1 = c1  c2 = c2  c3 = c3
  Conns = {c1, c2, c3}
  Source <- Addresses
  Plans <- Plenty
  Burst = 2
  Rate = 1
  Window = 1
  IdleTimeout = 2
INVARIANTS ServedOnCurrentToken GuessesBounded
PROPERTY RotationLands
CHECK_DEADLOCK FALSE
