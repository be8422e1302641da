INIT Init
NEXT Next
CONSTANTS
  r1 = r1  r2 = r2  r3 = r3  c1 = c1  c2 = c2
  None = None
  Run = {r1, r2, r3}
  Conv = {c1}
  Id = {r1, r2, r3}
  ConvOf <- OneLine
  IdOf <- OwnId
  MaxQueue = 2
  MaxConcurrentRuns = 1
SYMMETRY Symmetry
INVARIANTS
  SerialPerConversation
  NoStrandedRun
  SessionRefCurrent
  NothingLeftAfterShutdown
PROPERTIES
  LinesSpec
