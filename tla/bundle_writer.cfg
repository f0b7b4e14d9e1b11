SPECIFICATION WriterSpec
CONSTANTS
  Writers = {w1, w2, w3}
  Entries = 2
  Doubtful = {2}
  Old = Old
  None = None
SYMMETRY WriterSymmetry
INVARIANTS LoneRunEndsClean LoneRunsPublishWhole
PROPERTY PublishesAtomically
CHECK_DEADLOCK FALSE
