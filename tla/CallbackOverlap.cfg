SPECIFICATION FairSpec
CONSTANTS
  k1 = k1
  k2 = k2
  u1 = u1
  u2 = u2
  None = None
  Deliveries <- MCOneDelivery
  Ticks <- MCTwoTicks
  Operators <- MCOneOperator
  Backoff <- MCBackoff
  DeadAfter = 3
  StuckAfter = 1
  MaxFaults = 1
PROPERTY Settled
INVARIANT TypeOK
INVARIANT DeliveredMeansAccepted
PROPERTY BoxIsKept
