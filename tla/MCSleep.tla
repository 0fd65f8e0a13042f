------------------------------- MODULE MCSleep -------------------------------
(* Sleep with delays of a few ticks. *)
EXTENDS Sleep
=============================================================================
