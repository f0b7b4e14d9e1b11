--------------------------- MODULE MCBundleReader ---------------------------
(* One capture's bundle is odd in at most one way, the other's is not.     *)
EXTENDS BundleReader, TLC

CONSTANTS c1, c2
MCOdd == c1 :> ({{}} \union { {oddity} : oddity \in Oddities }) @@ c2 :> {{}}
=============================================================================
