---------------------------- MODULE MCSigningKey ----------------------------
(* Captures are interchangeable. *)
EXTENDS SigningKey, TLC
CaptureSymmetry == Permutations(Captures)
=============================================================================
