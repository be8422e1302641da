INIT Init
NEXT Next
CONSTANTS
  None = None
  ContentSize <- SmallOrLarge
  LifecycleSize = 1
  MaxPacket = 2
  MaxTotal = 6
  Reserve = 1
  MaxContents = 4
INVARIANTS
  LogShape
  RoomToFinish
  FinishedIsStored
