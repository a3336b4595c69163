------------------------------ MODULE MCAddress ------------------------------
(***************************************************************************)
(* Addresses of all lengths up to beyond the right one, and buffers that   *)
(* hold a blank, a digit or a control character, as distances from '0'.    *)
(***************************************************************************)
EXTENDS TraceAddress

StaleBytes == {-16, 5, 79}
=============================================================================
