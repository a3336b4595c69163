--------------------------- MODULE MCTcpHandshake --------------------------
(***************************************************************************)
(* Instances of TcpHandshake; the .cfg files give the constants.           *)
(***************************************************************************)
EXTENDS TcpHandshake
=============================================================================
