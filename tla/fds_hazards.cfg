SPECIFICATION Spec
CONSTANTS
  Threads = {t1, t2}
  Fds = {3, 4}
  NoFd = NoFd
  SocketMapMax = 2
  MaxCalls = 5
SYMMETRY ThreadSymmetry
INVARIANTS
  UntrackedSocketsExplained
  GhostsExplained
CHECK_DEADLOCK FALSE
