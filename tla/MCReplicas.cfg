SPECIFICATION Spec
CONSTANTS
  a = a
  b = b
  s = s
  x = x
  Elder = {e1, e2, e3}
  Quorum <- MCQuorum
  Wallet <- MCWallet
  SectionWallet = s
  Transfer <- Conflict
  ForeignCredit <- OneCredit
  DataCmd = {d1, d2}
  MaxDown = 1
SYMMETRY ElderSymmetry
CHECK_DEADLOCK FALSE
INVARIANTS
  OneTransferPerDebit
  ReplicasAgree
  DebitsInOrder
  NoDoubleCredit
  CreditIsBacked
  OneWritePerPayment
PROPERTIES
  ImplementsLedger
