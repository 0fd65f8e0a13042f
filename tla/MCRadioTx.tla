------------------------------ MODULE MCRadioTx ------------------------------
(* RadioTx with two retries and two failed channel accesses. *)
EXTENDS RadioTx
=============================================================================
