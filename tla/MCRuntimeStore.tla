---------------------------- MODULE MCRuntimeStore ----------------------------
(* RuntimeStore for TLC.  The attempts are interchangeable. *)
EXTENDS RuntimeStore, TLC

Symmetry == Permutations(Attempts)
=============================================================================
