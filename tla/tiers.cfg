\* Deposits over the three tiers, with an outage and a lost mirror.
SPECIFICATION VSpec
CONSTANTS
  Deposits = {"a", "b"}
  MaxOutages = 1
  MaxPending = 2
  MaxLost = 1
INVARIANTS
  VTypeOK
  NothingInvented
  LoneDepositsCounted
PROPERTIES
  MirrorsCatchUp
CHECK_DEADLOCK FALSE
