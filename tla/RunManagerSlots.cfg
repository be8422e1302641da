SPECIFICATION Spec
CONSTANTS
  r1 = r1  r2 = r2  r3 = r3  c1 = c1  c2 = c2
  None = None
  Run = {r1, r2}
  Conv = {c1, c2}
  Id = {r1, r2}
  ConvOf <- TwoLines
  IdOf <- OwnId
  MaxQueue = 1
  MaxConcurrentRuns = 1
INVARIANTS
  SessionsBounded
PROPERTIES
  MarkedNeverCompletes
  AcceptedRunsConclude
  ShutdownEnds
