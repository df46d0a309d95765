SPECIFICATION Spec
CONSTANTS
  a = a
  b = b
  x = x
  Oldie = {o1, o2}
  History <- MCHistory
  MaxStint = 2
SYMMETRY OldieSymmetry
CHECK_DEADLOCK FALSE
INVARIANTS
  CopiesOnlyFromMerges
  HistoryIsClean
  DebitsHaveNoGap
  SyncedHoldsAPush
