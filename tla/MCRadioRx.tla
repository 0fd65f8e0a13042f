------------------------------ MODULE MCRadioRx ------------------------------
(* RadioRx with the frames that tell its cases apart. *)
EXTENDS RadioRx

Frame(ackReq, v2015, sec, match) ==
  [ackReq |-> ackReq, v2015 |-> v2015, sec |-> sec, match |-> match]

Broadcast == Frame(FALSE, TRUE, "none", FALSE)
Data      == Frame(TRUE, TRUE, "known", FALSE)
Poll      == Frame(TRUE, TRUE, "none", TRUE)
OldPoll   == Frame(TRUE, FALSE, "none", TRUE)

AckFrames == {Broadcast, Data, Poll}
RingFrames == {Broadcast, OldPoll}
=============================================================================
