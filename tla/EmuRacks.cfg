CONSTANTS
  Racks = 2
  RackSize = 2
  MaskHalf = 2
  Spread = "rack"
  RingCap = 1
  ResetCap = 1
  PoolSize = 2
  AdmPool = 4
  AdmCap = 1
  AdmitsPerAdmitted = 2
  EpCap = 1
  RtrCap = 1
  RxBurst = 1
  MaxPkts = 2
  MaxAmount = 1
  MaxResets = 0
  Resetters = {0}
  Flows <- OneWayFlow
SPECIFICATION Spec
INVARIANTS
  NoLeak
  RightRack
PROPERTIES
  RefinesService
  AllDecided
