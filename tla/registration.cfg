CONSTANTS
  MaxAttempts = 1
  MaxConnections = 4
  MaxRequests = 6
  MaxMishaps = 1
SPECIFICATION FairSpec
CHECK_DEADLOCK FALSE
INVARIANTS TypeOK WaitingAnswered ReachableOrTold
PROPERTIES RegistersAgain ConnectionSettles
