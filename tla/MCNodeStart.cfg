SPECIFICATION FairSpec
CONSTANTS
  a = a
  b = b
  Node = {a, b}
  First = {a}
  Name = {1}
  MaxKey = 3
  MaxEnd <- MCMaxEnd
INVARIANTS
  RegisteredHasSecret
  UnlistedWasRaced
PROPERTIES
  RetryUntilJoined
CHECK_DEADLOCK FALSE
