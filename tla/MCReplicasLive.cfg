SPECIFICATION FairSpec
CONSTANTS
  a = a
  b = b
  s = s
  x = x
  Elder = {e1, e2, e3}
  Quorum <- MCQuorum
  Wallet <- MCWallet
  SectionWallet = s
  Transfer <- NeedsBoth
  ForeignCredit <- TwoCredits
  DataCmd = {d1}
  MaxDown = 0
CHECK_DEADLOCK FALSE
PROPERTIES
  AgreedIsSettled
