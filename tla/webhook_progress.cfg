CONSTANTS
  ana = ana
  e1 = e1
  e2 = e2
  Contacts = {ana}
  Events = {e1, e2}
  ContactOf <- Writers
  Anonymous = {e2}
  Known = {}
  Workers = {w1, w2}
  Deliveries = 3
  MaxChannels = 2
  MaxRetries = 3
  LocalTries = 2
  Faults = {}
SPECIFICATION FairSpec
CHECK_DEADLOCK FALSE
PROPERTIES AcceptedPosted PostedJoined
