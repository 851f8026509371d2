CONSTANTS
  Pages <- MCPages
  PGSIZE = 8
  FANOUT = 8
  DataBlocks <- MCBlocks
  BSIZE = 4
  NDIRECT = 2
  ninodes = 16
  IPB = 4
  NINODE = 6
  NFILE = 8
  NOFILE = 8
  NDEV = 3
  MAXOPBLOCKS = 6
  PIPESIZE = 3
  MAXARG = 4
  NPROC = 7
  USERSTACK = 1
  Code <- MCCode
  Trap <- usertrap
  Machine <- Booted
  Image <- MCImage
  Runs <- MCRuns
  N = 2
SPECIFICATION Spec
INVARIANTS TestsPass NoPanic ResourcesAccounted FileSystemSound RecoveredClean
PROPERTY Completes
CHECK_DEADLOCK FALSE
