CONSTANTS
  j1 = j1
  j2 = j2
  j3 = j3
  NoJob = NoJob
  Jobs = {j1, j2}
  Graphs <- Singles
  Parents <- NoParents
  Capacity = 1
  MaxRetries = 2
  RetryBound = 2
  Slots = {s1, s2}
  Users = {u1}
  UserOps <- CarefulOps
  Faults = {"timeout", "refused", "worker", "runner", "server"}
SPECIFICATION Spec
SYMMETRY Symmetry
CHECK_DEADLOCK FALSE
INVARIANTS TypeOK CapacityRespected OneExecution NoPhantomSlot TriesBounded
PROPERTY ResolvedIsFinal
