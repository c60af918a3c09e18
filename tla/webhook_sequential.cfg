CONSTANTS
  ana = ana
  e1 = e1
  e2 = e2
  Contacts = {ana}
  Events = {e1, e2}
  ContactOf <- Writers
  Anonymous = {}
  Known = {}
  Workers = {w1}
  Deliveries = 3
  MaxChannels = 2
  MaxRetries = 2
  LocalTries = 2
  Faults = {"worker", "requeue", "archive"}
SPECIFICATION Spec
CHECK_DEADLOCK FALSE
INVARIANTS OneActiveChannel DonePosted
