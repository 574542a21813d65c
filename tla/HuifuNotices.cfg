SPECIFICATION FairSpec
CONSTANTS
  w1 = w1
  w2 = w2
  e1 = e1
  e2 = e2
  c1 = c1
  None = None
  Rows <- MCRows
  Legacy <- MCLegacy
  Events <- MCEvents
  ComplaintOf <- MCComplaintOf
  Workers <- MCWorkers
  BaseDelay = 1
  MaxDelay = 2
  MaxFaults = 2
CHECK_DEADLOCK FALSE
INVARIANT TypeOK
INVARIANT LoggedOnce
INVARIANT FirstEventIsAlone
INVARIANT CleanedIsSettled
PROPERTY BackoffHolds
PROPERTY Settled
