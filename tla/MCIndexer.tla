----------------------------- MODULE MCIndexer -----------------------------
(* Model values and bounds of the Indexer runs.                             *)
EXTENDS Indexer, TLC

CONSTANTS p1, p2, a, b, big, bin, w1, w2

NoGovernor == [p \in Path |-> NoPath]
Symmetry == Permutations({w1, w2})
=============================================================================
