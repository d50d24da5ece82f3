CONSTANTS
  WndLen = 2
  InWnd = 2
  AckHi = 0
  SeqSpan = 4
  SeqBack = 1
  BadThreshold = 2
  ResetWindow = 0
  RstWin = 2
  Skew <- InStep
  Started <- Ago
  MaxTime = 2
  MaxPkts = 3
SPECIFICATION Spec
CHECK_DEADLOCK FALSE
INVARIANTS
  TypeOK
  AtMostOnce
  AckedWasDelivered
  SlotStaysFree
  NothingForgotten
  NotifiedOnce
PROPERTIES
  EpochsGrow
  RefinesResync
