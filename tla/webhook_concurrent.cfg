CONSTANTS
  ana = ana
  e1 = e1
  e2 = e2
  Contacts = {ana}
  Events = {e1, e2}
  ContactOf <- Writers
  Anonymous = {}
  Known = {}
  Workers = {w1, w2}
  Deliveries = 2
  MaxChannels = 2
  MaxRetries = 2
  LocalTries = 2
  Faults = {"conflict", "worker", "requeue"}
SPECIFICATION Spec
CHECK_DEADLOCK FALSE
SYMMETRY WorkerSymmetry
INVARIANTS TypeOK NoDuplicateMessages
