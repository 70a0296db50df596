---------------------------- MODULE MCShimParts -----------------------------
(* The instance of ShimParts for TLC.                                      *)
EXTENDS ShimParts, TLC

\* The timers of the Bluetooth shim's callers, which nothing tells apart.
Symmetry == Permutations(BtTimers)
=============================================================================
