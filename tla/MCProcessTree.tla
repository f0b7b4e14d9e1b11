--------------------------- MODULE MCProcessTree ---------------------------
(* Ids other than the target's are interchangeable. *)
EXTENDS ProcessTree, TLC
IdSymmetry == Permutations(Ids \ {Root})
=============================================================================
