SPECIFICATION Spec
CONSTANTS
  Proc = {p1, p2, p3}
  NoProc = NoProc
  Intr = Intr
  NoReq = NoReq
  Block = {k1}
  Value = {v1, v2}
  NoValue = NoValue
  NUM = 7
  MODULUS = 14
SYMMETRY Symmetry
INVARIANTS
  NoPanic
  DescriptorsOwned
  OfferedIntact
  NoLostCompletion
  NoLostWakeup
  NoLostNotify
PROPERTY
  Serves
