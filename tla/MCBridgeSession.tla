-------------------------- MODULE MCBridgeSession --------------------------
(* Small instances of BridgeSession. *)
EXTENDS BridgeSession, TLC

(* Lines are interchangeable. *)
LineSymmetry == Permutations(Lines)
=============================================================================
