-------------------------- MODULE MCSessionTransfer --------------------------
(* SessionTransfer for TLC; the configurations give the threads and bounds. *)
EXTENDS SessionTransfer, TLC

Symmetry == Permutations(Producers)
==============================================================================
