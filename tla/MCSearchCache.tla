--------------------------- MODULE MCSearchCache ---------------------------
(* Model values and bounds of the SearchCache runs.                         *)
EXTENDS SearchCache, TLC

CONSTANTS short, none, c1, c2, sym, fuz, route

Sizes == (short :> 1) @@ (none :> 0) @@ (Gone :> 0)
Kinds == (sym :> "symbol") @@ (fuz :> "fuzzy") @@ (route :> "route")
Symmetry == Permutations({c1, c2})
=============================================================================
