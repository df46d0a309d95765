SPECIFICATION Spec
CONSTANTS
  Elder = {1, 2, 3}
  Newbie = {3}
  Needed = 2
  View <- MCView
  Disagree <- MCDisagree
  max_supply = 1000
  MIN_REWARD_AGE = 6
CHECK_DEADLOCK FALSE
INVARIANTS
  AccumulationPaysOut
