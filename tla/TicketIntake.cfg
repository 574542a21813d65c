SPECIFICATION Spec
CONSTANTS
  t1 = t1
  t2 = t2
  t3 = t3
  n1 = n1
  u1 = u1
  b1 = b1
  e1 = e1
  q1 = q1
  q2 = q2
  None = None
  Tickets <- MCTickets
  Entries <- MCEntries
  Endorsements <- MCEndorsements
  Accounts <- MCAccounts
  Batches <- MCBatches
  Requests <- MCRequests
  MaxAsked = 5
SYMMETRY Same
CHECK_DEADLOCK FALSE
INVARIANT PushesAgree
INVARIANT NoDuplicateOpen
INVARIANT ReferencesExist
PROPERTY RevokedWasClean
