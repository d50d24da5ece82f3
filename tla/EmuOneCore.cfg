CONSTANTS
  Racks = 1
  RackSize = 2
  MaskHalf = 2
  Spread = "one"
  RingCap = 2
  ResetCap = 1
  PoolSize = 4
  AdmPool = 3
  AdmCap = 2
  AdmitsPerAdmitted = 2
  EpCap = 1
  RtrCap = 2
  RxBurst = 1
  MaxPkts = 3
  MaxAmount = 2
  MaxResets = 2
  Resetters = {0}
  Flows <- OneRackFlows
SPECIFICATION Spec
INVARIANTS
  TypeOK
  NoLeak
  FlowOrder
  NoEarlyPull
PROPERTIES
  RefinesService
  AllDecided
