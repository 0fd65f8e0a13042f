---------------------------- MODULE MCEventQueue ----------------------------
(* EventQueue on a ring of three slots, with two interrupts that post. *)
EXTENDS EventQueue
=============================================================================
