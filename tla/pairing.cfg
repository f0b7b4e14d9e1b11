SPECIFICATION Spec
CONSTANTS
  Tasks = {t1, t2, collector}
  Suppressed = {collector}
  Kinds = {clone}
  EnabledKinds = {clone}
  ForkKinds = {clone}
  RingCapacity = 2
  StateMapMax = 1
  MaxCalls = 3
  AllowHostWide = TRUE
  Target = Target
  Other = Other
  NoCgroup = NoCgroup
SYMMETRY TaskSymmetry
INVARIANTS
  MispairingOwedToLostExits
  CollisionsOwedToLostExits
  MissesExplained
  DropsNeverOverstated
  PayloadUsedOnce
  HostEventsPrecedeTargetEvents
CHECK_DEADLOCK FALSE
