SPECIFICATION Spec
CONSTANTS
  t1 = t1
  t2 = t2
  u1 = u1
  u2 = u2
  p1 = p1
  p2 = p2
  a1 = a1
  x1 = x1
  x2 = x2
  None = None
  Submitter = Submitter
  Tickets <- MCTickets
  RefundTickets <- MCOneTicket
  ExternalTickets <- MCNoTickets
  Staff <- MCStaff
  Policies <- MCPolicies
  RefundPolicies <- MCPolicies
  Amounts <- MCAmounts
  Txs <- MCOneTx
  MaxClock = 6
CHECK_DEADLOCK FALSE
INVARIANT TimelineTellsTicket
PROPERTY ImplementsContract
