---------------------------- MODULE MCIndexCache ----------------------------
(* IndexCache for TLC: two processes under different configurations.       *)
EXTENDS IndexCache, TLC

CONSTANTS p1, p2

MCConfigOf == p1 :> "a" @@ p2 :> "b"
=============================================================================
