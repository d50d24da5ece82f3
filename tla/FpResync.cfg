CONSTANTS
  BadThreshold = 2
  ResetWindow = 0
  RstWin = 2
  Skew <- InStep
  Started <- Ago
  MaxTime = 2
SPECIFICATION FairSpec
INVARIANT
  TypeOK
PROPERTY
  EventuallyInSync
