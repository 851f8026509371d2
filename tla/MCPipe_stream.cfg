SPECIFICATION Spec
CONSTANTS
  Proc = {p1, p2, p3}
  NoProc = NoProc
  Creator = p1
  Byte = {0, 1}
  PIPESIZE = 2
  MODULUS = 4
  MaxCount = 2
SYMMETRY Symmetry
CHECK_DEADLOCK FALSE
INVARIANTS
  NoLostWakeup
  FreedOnce
  EndpointReferences
PROPERTY
  FifoOrder
