SPECIFICATION Spec
CONSTANTS
  m = m
  t = t
  Item = {m, t}
  NoItem = NoItem
  Kind <- MessageAndTool
  MaxLines = 2
INVARIANTS
  ItemsToldInOrder
  SuccessCompletesItems
PROPERTY SessionEnds
CHECK_DEADLOCK FALSE
