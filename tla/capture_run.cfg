SPECIFICATION Spec
CONSTANTS
  RemovalAttempts = 3
INVARIANTS
  TargetRunsObserved
  NoChildLeft
  LeftoversAreReported
  TargetDrained
  RecordsLostOnlyByFailedBundle
  StrangersAreSpared
PROPERTIES
  ShutsDown
  ChildNeverHangs
CHECK_DEADLOCK FALSE
