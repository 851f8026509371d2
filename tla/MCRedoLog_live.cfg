SPECIFICATION FairSpec
CONSTANTS
  Proc = {p1, p2, p3}
  Block = {b1, b2}
  NoBlock = NoBlock
  Sector = {0}
  Word = {0}
  MAXOPBLOCKS = 3
  LOGSIZE = 6
  NLOG = 6
  OpBlocks = 1
PROPERTIES
  SleeperWoken
  RecoveryCompletes
