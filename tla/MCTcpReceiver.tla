--------------------------- MODULE MCTcpReceiver ---------------------------
(***************************************************************************)
(* Instances of TcpReceiver.  Every sequence number from before the first  *)
(* byte to past two windows may arrive, on a segment boundary or not, in   *)
(* any order and any number of times.                                      *)
(***************************************************************************)
EXTENDS TcpReceiver

MCSeqNos == -1 .. 12
=============================================================================
