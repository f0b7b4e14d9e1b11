SPECIFICATION Spec
CONSTANTS
  Paths = {1, 2, 3, 4}
  Contents <- MCContents
  MaxCandidates = 3
  MaxFileSize = 2
  MaxTotalSize = 3
  MaxCount = 2
INVARIANTS
  TypeOK
  OverrunOwedToGrowth
  EachPathOnce
  RefusedForLackOfRoom
PROPERTY
  FinalizeEnds
CHECK_DEADLOCK FALSE
