SPECIFICATION EnricherSpec
CONSTANTS
  MaxClock = 4
  MaxOwners = 3
INVARIANTS
  ForeignDataExplained
  ExecPathExplained
  RefusalExplained
CHECK_DEADLOCK FALSE
