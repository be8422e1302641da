SPECIFICATION Spec
CONSTANTS
  Sinks = {"run", "reply"}
  MaxUpdates = 4
  MaxText = 2
INVARIANTS
  ItemsToldInOrder
  AnsweredTurnCompletesItems
  OneReplyInOrder
  ReplyIsFinalText
PROPERTIES SessionEnds
CHECK_DEADLOCK FALSE
