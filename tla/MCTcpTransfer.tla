--------------------------- MODULE MCTcpTransfer ---------------------------
(***************************************************************************)
(* Instances of TcpTransfer; the .cfg files give the constants.            *)
(***************************************************************************)
EXTENDS TcpTransfer
=============================================================================
