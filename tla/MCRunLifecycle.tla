--------------------------- MODULE MCRunLifecycle ---------------------------
(***************************************************************************)
(* Small instances of RunLifecycle for TLC.                                *)
(***************************************************************************)
EXTENDS RunLifecycle, TLC

\* Workers run the same code, and so do requests.
Symmetry == Permutations(Workers) \cup Permutations(Requests)
=============================================================================
