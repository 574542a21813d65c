SPECIFICATION Spec
CONSTANTS
  t1 = t1
  t2 = t2
  u1 = u1
  u2 = u2
  p1 = p1
  p2 = p2
  a1 = a1
  x1 = x1
  x2 = x2
  None = None
  Submitter = Submitter
  Tickets <- MCTickets
  RefundTickets <- MCOneTicket
  ExternalTickets <- MCExternal
  Staff <- MCStaff
  Policies <- MCPolicies
  RefundPolicies <- MCPolicies
  Amounts <- MCAmounts
  Txs <- MCTxs
  MaxClock = 6
SYMMETRY MCSymmetry
CHECK_DEADLOCK FALSE
INVARIANTS
  TypeOK
  CompletionsAreClaimed
  CallbackPerCompletion
  DueFollowsPolicy
  ReadsStillHold
  ContactCountIsTimeline
  StatusFlowBalances
  NotesReachThoseConcerned
PROPERTY DeletedStaysDeleted
