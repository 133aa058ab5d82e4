--------------------------- MODULE MCWorkTracking ---------------------------
(* Model checking WorkTracking: operators are model values that no action  *)
(* tells apart.                                                            *)
EXTENDS WorkTracking, TLC

Symmetry == Permutations(Users)
=============================================================================
