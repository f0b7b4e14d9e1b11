-------------------------- MODULE MCSyscallPairing --------------------------
(* Model checking of SyscallPairing: the tasks other than the collector's  *)
(* are interchangeable.                                                    *)
EXTENDS SyscallPairing, TLC

TaskSymmetry == Permutations(Tasks \ Suppressed)
=============================================================================
