---------------------------- MODULE MCSocketFds -----------------------------
(* Model checking of SocketFds: threads are interchangeable; descriptors   *)
(* are not, the kernel hands out the lowest.                               *)
EXTENDS SocketFds, TLC

ThreadSymmetry == Permutations(Threads)
=============================================================================
