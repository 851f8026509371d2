SPECIFICATION FairSpec
CONSTANTS
  Slot = {init, p1, p2}
  NoSlot = NoSlot
  InitProc = init
  Hart = {h1}
  NoHart = NoHart
  Victim = {init, p1, p2}
PROPERTY WaitReturns
