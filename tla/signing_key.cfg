SPECIFICATION Spec
CONSTANTS
  Captures = {c1, c2, c3}
  KeyDirs = 3
  None = None
SYMMETRY CaptureSymmetry
INVARIANTS
  UnusableFileExplained
  SettledKeyIsUsed
PROPERTY
  StoredKeyStays
CHECK_DEADLOCK FALSE
