--------------------------- MODULE TcpConnection ---------------------------
(***************************************************************************)
(* What the two parts of a connection of SYSTEM_LAB/TCP/3.1 share, the     *)
(* handshake and the transfer: the client's main thread with its next      *)
(* sequence number, and the two directions of a UDP path on one host,      *)
(* which may lose datagrams but neither reorders nor duplicates them.      *)
(***************************************************************************)
EXTENDS Integers, Sequences

CONSTANT MaxLosses   \* bound: datagrams the path loses

ASSUME ConnectionAssumption == MaxLosses \in Nat

VARIABLES
  pc,                  \* where the client's main thread is
  client_nextSeq_no,   \* the client's next sequence number to be used
  toServer, toClient, losses

network == <<toServer, toClient, losses>>

Lose ==
  /\ losses < MaxLosses
  /\ \/ toServer # <<>> /\ toServer' = Tail(toServer) /\ toClient' = toClient
     \/ toClient # <<>> /\ toClient' = Tail(toClient) /\ toServer' = toServer
  /\ losses' = losses + 1
  /\ UNCHANGED <<pc, client_nextSeq_no>>
=============================================================================
