CONSTANTS
  MaxDrops = 2
  MaxTransit = 3
  AllowLate = TRUE
SPECIFICATION FairSpec
CHECK_DEADLOCK FALSE
INVARIANTS TypeOK HangUpPossible SettledTogether GivenUpHeard
PROPERTIES PhoneCallKept EndsTogether CalleeSettles
