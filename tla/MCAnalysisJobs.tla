--------------------------- MODULE MCAnalysisJobs ---------------------------
(* Model checking AnalysisJobs: model values for workers, which no action  *)
(* tells apart.                                                            *)
EXTENDS AnalysisJobs, TLC

Symmetry == Permutations(Workers)
=============================================================================
