CONSTANTS
  j1 = j1
  j2 = j2
  j3 = j3
  NoJob = NoJob
  Jobs = {j1, j2}
  Graphs <- OneGraph
  Parents <- ChainParents
  Capacity = 1
  MaxRetries = 1
  RetryBound = 1
  Slots = {s1, s2}
  Users = {}
  UserOps <- FormOps
  Faults = {"timeout", "refused", "worker", "runner", "server"}
SPECIFICATION FairSpec
CHECK_DEADLOCK FALSE
PROPERTIES ReadyRuns EnqueuedLeaves
