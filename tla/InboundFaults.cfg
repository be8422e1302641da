INIT Init
NEXT Next
CONSTANTS
  k1 = k1
  k2 = k2
  k3 = k3
  v1 = v1
  Event = {k1, k2}
  Conv = {v1}
  None = None
  MaxQueue = 1
  MaxConcurrentRuns = 1
  Call = {1, 2, 3}
  EventOf <- Duplicated
  ConvOf <- OneConv
  Kind <- SecondText
  Faults = TRUE
  MaxRestarts = 1
INVARIANTS
  OneRunPerEvent
  OfflineIsQuiet
PROPERTIES
  GroupOnlyShrinks
CHECK_DEADLOCK FALSE
