CONSTANTS
  Racks = 2
  RackSize = 2
  MaskHalf = 2
  Spread = "one"
  RingCap = 3
  ResetCap = 1
  PoolSize = 6
  AdmPool = 2
  AdmCap = 1
  AdmitsPerAdmitted = 6
  EpCap = 3
  RtrCap = 3
  RxBurst = 1
  MaxPkts = 6
  MaxAmount = 2
  MaxResets = 0
  Resetters = {0}
  Flows <- TwoRackFlows
INIT Init
NEXT Next
INVARIANTS
  OnlyResetsFree
