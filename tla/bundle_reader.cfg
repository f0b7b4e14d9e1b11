SPECIFICATION Spec
CONSTANTS
  c1 = c1
  c2 = c2
  Captures = {c1, c2}
  First = c1
  Files = {f1}
  Keys = {k1, k2}
  OtherKeys = {k2}
  Odd <- MCOdd
  None = None
  MaxReplaced = 1
  MaxAltered = 1
INVARIANTS
  VerifiedIsOneSigners
  UntouchedBundleIsAccepted
CHECK_DEADLOCK FALSE
