--------------------------- MODULE MCRuntimeWorker ---------------------------
(* RuntimeWorker for TLC: a few attempts, few losses, switches and starts. *)
EXTENDS RuntimeWorker, TLC

Symmetry == Permutations(Attempts)

\* The bound of the two Attempts that compete: Core cancels one at a time.
OneCancellation == Cardinality({a \in Attempts : core[a] \in {"canceling", "done_canceling"}}) <= 1
=============================================================================
