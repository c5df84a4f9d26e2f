----------------------------- MODULE MCBridgeRpc -----------------------------
(* BridgeRpc on small sets of calls; the callers are interchangeable. *)
EXTENDS BridgeRpc, TLC

CallSymmetry == Permutations(Ext)

==============================================================================
