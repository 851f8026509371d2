SPECIFICATION Spec
CONSTANTS
  Slot = {init, p1, p2}
  NoSlot = NoSlot
  InitProc = init
  Hart = {h1, h2, h3}
  NoHart = NoHart
  Victim = {p1, p2}
SYMMETRY Symmetric
INVARIANTS OneStack ReapedOffStack SchedLocks ParentAlive NoLostWait
PROPERTY ReapOnce
