--------------------------- MODULE MCBundleGraph ---------------------------
(* Two callers on one bundle.                                              *)
EXTENDS BundleGraph, TLC

CONSTANTS c1, c2

CallerSymmetry == Permutations({c1, c2})
=============================================================================
