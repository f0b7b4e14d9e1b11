SPECIFICATION Spec
CONSTANTS
  RingCapacity = 2
  MaxEvents = 5
  MaxRefused = 1
  MaxTears = 2
INVARIANTS
  TypeOK
  WalReadsBack
  StopLosesOnlyTheTail
PROPERTY
  KeepsLedger
CHECK_DEADLOCK FALSE
