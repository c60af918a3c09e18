CONSTANTS
  j1 = j1
  j2 = j2
  j3 = j3
  NoJob = NoJob
  Jobs = {j1, j2, j3}
  Graphs <- OneGraph
  Parents <- JoinParents
  Capacity = 2
  MaxRetries = 1
  RetryBound = 1
  Slots = {s1, s2}
  Users = {}
  UserOps = {}
  Faults = {"timeout", "conflict", "runner"}
SPECIFICATION Spec
SYMMETRY SlotSymmetry
CHECK_DEADLOCK FALSE
INVARIANT NoLostWakeup
PROPERTY LifecycleKept
