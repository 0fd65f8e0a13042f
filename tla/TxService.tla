----------------------------- MODULE TxService -----------------------------
(***************************************************************************)
(* What the radio driver promises a client that transmits: one             *)
(* otPlatRadioTxDone for each otPlatRadioTransmit, which tells the truth   *)
(* about the frame's ack.  The promise has two limits: a client that gave  *)
(* up on a transmission may be answered for it later, and an ack that came *)
(* at the wrong time passes for the ack of one frame.                      *)
(***************************************************************************)
CONSTANTS
  Frames,   \* what a client asks for: ackReq, delay and more
  Errors

VARIABLES
  client,   \* "idle", or "waiting" for its answer
  frame,    \* the client's frame
  acked,    \* has the frame on the air been acknowledged?
  stray,    \* has an ack come that answers no frame, and not been used up?
  txDone,   \* the last answer: its error, with an ack frame or not
  gaveUp    \* has the client ever given up on a transmission?

serviceVars == <<client, frame, acked, stray, txDone, gaveUp>>

Init ==
  /\ client = "idle"
  /\ frame \in Frames
  /\ acked = FALSE /\ stray = FALSE
  /\ txDone \in [error : Errors, ack : BOOLEAN]
  /\ gaveUp = FALSE

Transmit(f) ==
  /\ client = "idle"
  /\ client' = "waiting"
  /\ frame' = f
  /\ UNCHANGED <<acked, stray, txDone, gaveUp>>

Due == client = "waiting" \/ gaveUp

Acknowledge ==
  /\ Due
  /\ frame.ackReq
  /\ acked' = TRUE
  /\ UNCHANGED <<client, frame, stray, txDone, gaveUp>>

StrayAck ==
  /\ stray' = TRUE
  /\ UNCHANGED <<client, frame, acked, txDone, gaveUp>>

\* Success means an ack for a frame that asked for one, and no ack for one that
\* did not.  "No ack" is said of a frame that asked for one or missed its time.
Truthful(error, ack) ==
  /\ acked => ack
  /\ ack => acked \/ stray
  /\ error = "NONE" => (frame.ackReq <=> ack)
  /\ error # "NONE" => ~ack
  /\ error = "NO_ACK" => frame.ackReq \/ frame.delay = "timed"

\* The frame is the client's again, its delay possibly used up.
Answer(error, ack) ==
  /\ Due
  /\ Truthful(error, ack)
  /\ client' = "idle"
  /\ txDone' = [error |-> error, ack |-> ack]
  /\ acked' = FALSE
  /\ stray' = (stray /\ ~ack)
  /\ frame' \in {frame, [frame EXCEPT !.delay = "none"]}
  /\ UNCHANGED gaveUp

GiveUp ==
  /\ client = "waiting"
  /\ client' = "idle"
  /\ gaveUp' = TRUE
  /\ UNCHANGED <<frame, acked, stray, txDone>>

Next ==
  \/ \E f \in Frames : Transmit(f)
  \/ Acknowledge
  \/ StrayAck
  \/ \E error \in Errors, ack \in BOOLEAN : Answer(error, ack)
  \/ GiveUp

Spec == Init /\ [][Next]_serviceVars
=============================================================================
