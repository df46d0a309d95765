SPECIFICATION Spec
CONSTANTS
  o1 = o1
  n = n
  own = own
  peer = peer
  Oldie = {o1}
  New = n
  Client = {own, peer}
  Address <- MCAddress
  Kind <- MCKind
  Sequenced = {"m"}
  Key = {"k", "l"}
  Public = {"s"}
  Near = {"m", "u", "s"}
  Owner <- MCOwner
  Policy <- MCPolicy
  Request <- MCRequest
  Workload <- MCWorkload
  MaxStint = 2
  MaxFail = 1
INVARIANTS
  AcceptedIsRead
  MapIsOneHistory
  SyncedHoldsTheData
  QueriesAgree
CHECK_DEADLOCK FALSE
