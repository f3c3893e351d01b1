-------------------------- MODULE MCLibusbTransfers --------------------------
(* LibusbTransfers for TLC; the configurations give URBs and bounds.         *)
EXTENDS LibusbTransfers, TLC

Symmetry == Permutations(Urb) \cup Permutations(Args)
==============================================================================
