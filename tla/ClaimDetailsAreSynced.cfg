SPECIFICATION Spec
CONSTANTS
  Tickets = {1, 2, 3}
  UpdateManyStamps = FALSE
  Limit = 1
  Longest = 1
  Sweeping = 1
  Overlap = 2
  MaxOpen = 2
  MaxUnstamped = 1
  MaxTime = 5
CHECK_DEADLOCK FALSE
INVARIANT NoDetailIsLost
