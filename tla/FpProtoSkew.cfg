CONSTANTS
  WndLen = 2
  InWnd = 2
  AckHi = 0
  SeqSpan = 4
  SeqBack = 1
  BadThreshold = 2
  ResetWindow = 2
  RstWin = 4
  Skew <- EndpointLags
  Started <- Recent
  MaxTime = 2
  MaxPkts = 5
SPECIFICATION Spec
CHECK_DEADLOCK FALSE
INVARIANT
  AckedWasDelivered
