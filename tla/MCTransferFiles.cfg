CONSTANTS
  v1 = v1
  v2 = v2
  p1 = p1
  p2 = p2
  Validation = {v1, v2}
  Propagation = {p1, p2}
  Worker = 2
  MaxRole = 2
  MaxCrash = 1

SPECIFICATION FairSpec

INVARIANTS
  WalletIsSerialised
  LostWasAtRisk

PROPERTIES
  TasksEnd

CHECK_DEADLOCK FALSE
