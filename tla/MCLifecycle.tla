---------------------------- MODULE MCLifecycle ----------------------------
(* Lifecycle with an Attempt of an earlier process, a new one, and a capacity for one. *)
EXTENDS Lifecycle
=============================================================================
