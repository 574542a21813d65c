SPECIFICATION Spec
CONSTANTS
  k1 = k1
  k2 = k2
  u1 = u1
  u2 = u2
  None = None
  Deliveries <- MCTwoDeliveries
  Ticks <- MCOneTick
  Operators <- MCOneOperator
  Backoff <- MCBackoff
  DeadAfter = 3
  StuckAfter = 1
  MaxFaults = 2
INVARIANT DeadWasTried
INVARIANT InStep
PROPERTY ImplementsOutbox
