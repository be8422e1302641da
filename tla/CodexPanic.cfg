INIT Init
NEXT Next
CONSTANTS
  m = m
  t = t
  Item = {m}
  NoItem = NoItem
  Kind <- Reasoning
  MaxLines = 1
INVARIANT TurnDoneClosedOnce
CHECK_DEADLOCK FALSE
