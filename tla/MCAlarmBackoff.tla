---------------------------- MODULE MCAlarmBackoff ----------------------------
(* AlarmBackoff with delays of a few ticks. *)
EXTENDS AlarmBackoff
=============================================================================
