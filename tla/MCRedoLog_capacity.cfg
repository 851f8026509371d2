SPECIFICATION Spec
CONSTANTS
  Proc = {p1, p2, p3}
  Block = {b1, b2, b3, b4, b5, b6}
  NoBlock = NoBlock
  Sector = {0}
  Word = {0}
  MAXOPBLOCKS = 2
  LOGSIZE = 6
  NLOG = 6
  OpBlocks = 2
SYMMETRY Symmetry
INVARIANT AdmissionSuffices
