SPECIFICATION Spec
CONSTANTS
  User = {u1, u2}
  NoUser = NoUser
  NBUF = 2
  Block = {k1, k2, k3}
  NoBlock = NoBlock
  Value = {0}
  MaxPin = 0
CHECK_DEADLOCK FALSE
PROPERTY
  EvictedLast
