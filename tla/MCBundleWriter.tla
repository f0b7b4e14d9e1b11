--------------------------- MODULE MCBundleWriter ---------------------------
(* Model checking of BundleWriter; its constants are model values and a    *)
(* number, so the configuration gives them directly.                       *)
EXTENDS BundleWriter, TLC

WriterSymmetry == Permutations(Writers)
=============================================================================
