----------------------------- MODULE MCStayAwake -----------------------------
(* StayAwake as it is: its state space is finite. *)
EXTENDS StayAwake
=============================================================================
