-------------------------- MODULE MCDeviceRegistry --------------------------
(* DeviceRegistry for TLC; the configurations give threads and bounds.       *)
EXTENDS DeviceRegistry, TLC

Symmetry == Permutations(Session)
=============================================================================
