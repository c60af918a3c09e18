CONSTANTS
  Calls = {c1, c2}
  NoCall = NoCall
  MaxRequests = 3
  MaxMishaps = 1
SPECIFICATION FairSpec
CHECK_DEADLOCK FALSE
INVARIANTS TypeOK  
PROPERTIES LineFreed
