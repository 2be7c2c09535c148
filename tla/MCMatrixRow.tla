---------------------------- MODULE MCMatrixRow ----------------------------
(* Bounds for TLC.  Sessions are alike, and no liveness is checked here.     *)
EXTENDS MatrixRow, TLC
SessionsAlike == Permutations(Sessions)
=============================================================================
