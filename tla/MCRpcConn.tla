------------------------------ MODULE MCRpcConn ------------------------------
(* RpcConn on every kind of call. *)
EXTENDS RpcConn

Every == AllKinds
=============================================================================
