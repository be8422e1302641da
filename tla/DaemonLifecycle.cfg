SPECIFICATION Spec
CONSTANTS
  c1 = c1
  c2 = c2
  Cli = {c1, c2}
  First = First
  None = None
  Plans <- Pairs
  MaxCrashes = 1
INVARIANTS
  SdkUnderLock
  ListenerReachable
PROPERTIES
  AcceptedWhenReady
  TermExits
  FailedStartEnds
  CommandsReturn
CHECK_DEADLOCK FALSE
