----------------------------- MODULE MCRpcServer -----------------------------
(***************************************************************************)
(* Instances of RpcServer for TLC.                                         *)
(***************************************************************************)
EXTENDS RpcServer, TLC

\* Clients are interchangeable.  Used for safety only.
Symmetry == Permutations(Clients)
=============================================================================
