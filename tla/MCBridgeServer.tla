---------------------------- MODULE MCBridgeServer ----------------------------
(* Symmetry of BridgeServer's connections, for runs of safety properties. *)
EXTENDS BridgeServer, TLC

SameConns == Permutations(Conns)
=============================================================================
