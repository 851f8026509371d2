SPECIFICATION FairSpec
CONSTANTS
  Proc = {p1, p2, p3}
  NoProc = NoProc
  Creator = p1
  Byte = {0}
  PIPESIZE = 1
  MODULUS = 2
  MaxCount = 1
CHECK_DEADLOCK FALSE
PROPERTIES
  PeerCloseReleases
  ReaderServed
