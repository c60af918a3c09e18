CONSTANTS
  MaxHolds = 5
SPECIFICATION FairSpec
CHECK_DEADLOCK FALSE
INVARIANTS TypeOK NothingHalfOpen MediaAgree HoldKept
PROPERTIES HoldEnds
