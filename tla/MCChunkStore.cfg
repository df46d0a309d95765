SPECIFICATION Spec
CONSTANTS
  Store = {blob, map}
  Immutable = {blob}
  Id = {c1, c2}
  Size = {1, 2}
  MaxCapacity = 3
  MaxFaults = 1
SYMMETRY IdSymmetry
CHECK_DEADLOCK FALSE
INVARIANTS
  CountIsExact
  TotalIsBounded
  StoredIsReadable
