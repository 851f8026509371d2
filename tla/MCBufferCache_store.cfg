SPECIFICATION Spec
CONSTANTS
  User = {u1, u2}
  NoUser = NoUser
  NBUF = 3
  Block = {k1, k2, k3, k4}
  NoBlock = NoBlock
  Value = {0, 1}
  MaxPin = 1
SYMMETRY Symmetry
CHECK_DEADLOCK FALSE
INVARIANTS
  OneBufferPerBlock
  ReferencesCounted
  RingIntact
  SleepersHaveOwner
PROPERTIES
  ActiveNotEvicted
  Coherent
