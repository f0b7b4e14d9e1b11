SPECIFICATION Spec
CONSTANTS
  Ids = {t1, t2, t3, t4}
  Root = t1
  Outside = Outside
  MaxSteps = 3
  MaxDepth = 2
  MaxHops = 3
INVARIANT EndedProcessesHaveEnded
CHECK_DEADLOCK FALSE
