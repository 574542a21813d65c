SPECIFICATION Spec
CONSTANTS
  k1 = k1
  k2 = k2
  k3 = k3
  u1 = u1
  q1 = q1
  q2 = q2
  a1 = a1
  c1 = c1
  c2 = c2
  NoOwner = NoOwner
  Keys <- MCKeys
  Owners <- MCOwners
  KeyLimit = 2
  Requests <- MCRequests
  Addresses <- MCAddresses
  Calls <- MCCalls
  Capacity = 2
  Share = 2
  SweepEvery = 2
  MaxTime = 4
  MaxCalls = 3
  MaxAsked = 4
SYMMETRY Same
CHECK_DEADLOCK FALSE
INVARIANT KeyLimitHolds
INVARIANT AuditTellsKeys
INVARIANT OnlyFailuresDrain
INVARIANT LimitsHold
