SPECIFICATION Spec
CONSTANTS
  Ids = {t1, t2, t3, t4}
  Root = t1
  Outside = Outside
  MaxSteps = 5
  MaxDepth = 2
  MaxHops = 3
SYMMETRY IdSymmetry
INVARIANTS
  TreeIsTrue
  HiddenOnlyByLostForks
CHECK_DEADLOCK FALSE
