SPECIFICATION Spec
CONSTANTS
  k1 = k1
  k2 = k2
  k3 = k3
  v1 = v1
  Event = {k1, k2, k3}
  Conv = {v1}
  None = None
  MaxQueue = 1
  MaxConcurrentRuns = 1
  Call = {1, 2, 3}
  EventOf <- Distinct
  ConvOf <- OneConv
  Kind <- ThirdOther
  Faults = FALSE
  MaxRestarts = 0
INVARIANTS SubmittedStreamsEnd
PROPERTIES
  StreamsEndWhileUp
  SubmittedAreFinished
  ShutdownEnds
CHECK_DEADLOCK FALSE
