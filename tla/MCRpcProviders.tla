---------------------------- MODULE MCRpcProviders -----------------------------
(* Two archives, one of which has no historical state after all, and a     *)
(* full node. The calls are alike.                                         *)
EXTENDS RpcProviders, TLC

Symmetry == Permutations(Calls)
=============================================================================
