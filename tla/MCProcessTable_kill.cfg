SPECIFICATION FairSpec
CONSTANTS
  Slot = {init, p1}
  NoSlot = NoSlot
  InitProc = init
  Hart = {h1, h2}
  NoHart = NoHart
  Victim = {init, p1}
PROPERTY KilledWaiterReturns
