-------------------------- MODULE MCServerLifecycle --------------------------
(* ServerLifecycle for TLC; the configurations give the bounds.              *)
EXTENDS ServerLifecycle, TLC
==============================================================================
