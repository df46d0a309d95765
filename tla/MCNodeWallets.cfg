SPECIFICATION FairSpec
CONSTANTS
  Node = {new, far}
  Ours = {new}
  New = new
CHECK_DEADLOCK FALSE
INVARIANTS
  StaleWalletHasACause
PROPERTIES
  NewElderIsRegistered
