SPECIFICATION Spec
CONSTANTS
  Adult = {1, 2, 3}
  Chunk = {0, 7}
  MsgId = {m1, m2}
  Distance <- MCDistance
  CHUNK_COPY_COUNT = 2
  NEIGHBOUR_COUNT = 2
  MIN_PENDING_OPS = 0
  Tolerance = 1
  Mobile = {2}
CHECK_DEADLOCK FALSE
INVARIANTS
  PendingIsOwed
  SuccessIsFinal
PROPERTIES
  ProposedOwes
  RetainForgetsTheGone
