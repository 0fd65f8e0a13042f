------------------------------ MODULE FrameFifo ------------------------------
(***************************************************************************)
(* What the receive ring of radio.c promises OpenThread: received frames   *)
(* are delivered one at a time and in order, each in a buffer that stays   *)
(* as it is until otPlatRadioReceiveDone returns.  The limit that the code *)
(* does not report: the frame that would be the Capacity-th one waiting    *)
(* makes all of them disappear, and takes the lent buffer, if one is lent. *)
(***************************************************************************)
EXTENDS Naturals, Sequences

CONSTANTS
  AllFrames,
  NoFrame,    \* the value of lent between two deliveries
  Capacity    \* the number of waiting frames at which all of them are lost

VARIABLES
  fifo,       \* the frames received and not yet delivered, oldest first
  lent        \* the buffer that OpenThread looks at

frameVars == <<fifo, lent>>

Init ==
  /\ fifo = <<>>
  /\ lent = NoFrame

Receive(f) ==
  IF Len(fifo) + 1 < Capacity
  THEN fifo' = Append(fifo, f) /\ UNCHANGED lent
  ELSE fifo' = <<>> /\ lent' = IF lent = NoFrame THEN NoFrame ELSE f

Lend ==
  /\ lent = NoFrame
  /\ fifo # <<>>
  /\ lent' = Head(fifo)
  /\ fifo' = Tail(fifo)

Return ==
  /\ lent # NoFrame
  /\ lent' = NoFrame
  /\ UNCHANGED fifo

Next ==
  \/ \E f \in AllFrames : Receive(f)
  \/ Lend
  \/ Return

Spec == Init /\ [][Next]_frameVars
=============================================================================
