INIT Init
NEXT Next
CONSTANTS
  Method <- SharedQuery
  Limits = {1, 2}
  ServerPage = 2
  Window = 5
  Size = 4
  Blank = {2}
  Match = {1, 3, 5, 6}
  MaxChanges = 2
  MaxFailures = 1
INVARIANTS
  OneListPerWalk
CHECK_DEADLOCK FALSE
