-------------------------- MODULE MCWorkspaceHost --------------------------
(* Model-checking instances of WorkspaceHost. *)
EXTENDS WorkspaceHost, TLC
CONSTANTS a, display, partial, full, bad, r1, r2
\* Each valid config against a: a query-time key, a pattern or a root differs.
MCInputs == [x \in Config |-> IF x = full THEN 2 ELSE 1]
MCPatterns == [x \in Config |-> IF x = partial THEN 2 ELSE 1]
Symmetric == Permutations(Request)
=============================================================================
