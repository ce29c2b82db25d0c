----------------------------- MODULE MCRpcClient -----------------------------
(* Instances of RpcClient for TLC: callers and connections are             *)
(* interchangeable, which the runs without liveness exploit.               *)
EXTENDS RpcClient, TLC

Symmetry == Permutations(Callers) \cup Permutations(Conns)
==============================================================================
