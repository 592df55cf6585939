--------------------------- MODULE MCWritePipeline ---------------------------
(* Small instances of WritePipeline.                                        *)
EXTENDS WritePipeline, TLC

CONSTANTS c1, c2, loop

NoDrift  == {"none"}
AnyDrift == {"none", "portfolio", "accountant"}
Symmetry == Permutations({c1, c2})
=============================================================================
