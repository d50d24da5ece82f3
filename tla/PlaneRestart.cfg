CONSTANTS
  WndLen = 12
  InWnd = 4
  AckHi = 3
  SeqSpan = 64
  SeqBack = 32
  BadThreshold = 2
  ResetWindow = 0
  RstWin = 4
  Dst = {d1}
  CntMod = 8
  ReqWindow = 3
  MaxAreq = 1
  MaxAllocs = 1
  MaxAllocDsts = 2
  PadAllocs = 2
  InOrder = TRUE
  MaxSlots = 2
  MaxLost = 1
  MaxLate = 0
  MaxOverlap = 1
  MaxUpsets = 1
  MaxForced = 1
  MaxPkts = 4
  MaxRestarts = 1
SPECIFICATION Spec
CHECK_DEADLOCK FALSE
INVARIANTS
  NeverStuck
  DemandIsWaiting
  IdsFollowDemand
