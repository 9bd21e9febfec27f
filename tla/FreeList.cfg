SPECIFICATION FairSpec
CONSTANTS
  Getters = {g1, g2}
  Adder = adder
  Blocks = {b1, b2, b3}
  NoBlock = NoBlock
  SHOULD_BE_ON_FREELIST = 8
INVARIANTS
  HandedOutOnce
  NoneLost
  NextIsCurrent
PROPERTIES
  ImplementsPool
  LockFree
