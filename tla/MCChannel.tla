----------------------------- MODULE MCChannel -----------------------------
(***************************************************************************)
(* An instance of Channel for TLC: more sockets than the array holds.      *)
(***************************************************************************)
EXTENDS Channel

Descriptors == 3 .. 7
=============================================================================
