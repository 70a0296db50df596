----------------------------- MODULE MCBondStore -----------------------------
(* Instances of BondStore for TLC.                                         *)
EXTENDS BondStore, TLC

CONSTANTS p1, p2, p3, h1, h2, v1, v2

MCPeers   == {p1, p2, p3}
MCHandles == {h1, h2}
MCVals    == {v1, v2}

\* The identity of a peer, a handle or a value is never looked at.
Symmetry == Permutations(MCPeers) \cup Permutations(MCHandles) \cup Permutations(MCVals)
=============================================================================
