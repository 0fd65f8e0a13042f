------------------------------- MODULE MCUart -------------------------------
(* Uart with a ring of a few bytes. *)
EXTENDS Uart
=============================================================================
