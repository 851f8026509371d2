SPECIFICATION Spec
CONSTANTS
  Proc = {p1, p2}
  Block = {b1, b2}
  NoBlock = NoBlock
  Sector = {0, 1}
  Word = {0, 1}
  MAXOPBLOCKS = 4
  LOGSIZE = 8
  NLOG = 8
  OpBlocks = 2
SYMMETRY Symmetry
INVARIANTS
  NoPanic
  ReservationHonoured
  RecyclableIsClean
  QuietIsDurable
PROPERTIES
  AtomicCommit
  RedoOrdering
