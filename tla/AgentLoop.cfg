SPECIFICATION FairSpec
CONSTANTS
  c1 = c1
  c2 = c2
  w1 = w1
  w2 = w2
  w3 = w3
  None = None
  Clones <- MCClones
  Running <- MCRunning
  Workers <- MCWorkers
  Home <- MCHome
  Attempts <- MCAttempts
  MaxRequeues = 1
  MaxCommits = 3
  MaxFaults = 1
INVARIANT PublisherHoldsLease
PROPERTY TakenOnlyWhenStale
PROPERTY Recovered
CHECK_DEADLOCK FALSE
