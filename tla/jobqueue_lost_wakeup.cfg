CONSTANTS
  j1 = j1
  j2 = j2
  j3 = j3
  NoJob = NoJob
  Jobs = {j1, j2, j3}
  Graphs <- OneGraph
  Parents <- JoinParents
  Capacity = 1
  MaxRetries = 1
  RetryBound = 1
  Slots = {s1}
  Users = {u1}
  UserOps <- CarefulOps
  Faults = {}
SPECIFICATION Spec
CHECK_DEADLOCK FALSE
INVARIANT NoLostWakeup
