------------------------------ MODULE EventFifo ------------------------------
(***************************************************************************)
(* What the driver event queue promises its users: events posted with      *)
(* BEE_EventSend are handled one at a time, in the order they were posted. *)
(* The promise has a limit that the code does not report: when the event   *)
(* that would be the Capacity-th one still waiting is posted, every        *)
(* waiting event is forgotten.                                             *)
(***************************************************************************)
EXTENDS Naturals, Sequences

CONSTANTS
  Events,    \* the event codes a driver may post
  NoEvent,   \* the value of current between two handlers
  Capacity   \* the number of waiting events at which all of them are lost

VARIABLES
  fifo,      \* the events posted and not yet taken by the task, oldest first
  current    \* the event whose handler is running

fifoVars == <<fifo, current>>

Init ==
  /\ fifo = <<>>
  /\ current = NoEvent

Send(e) ==
  /\ fifo' = IF Len(fifo) + 1 = Capacity THEN <<>> ELSE Append(fifo, e)
  /\ UNCHANGED current

Take ==
  /\ current = NoEvent
  /\ fifo # <<>>
  /\ current' = Head(fifo)
  /\ fifo' = Tail(fifo)

Finish ==
  /\ current # NoEvent
  /\ current' = NoEvent
  /\ UNCHANGED fifo

Next ==
  \/ \E e \in Events : Send(e)
  \/ Take
  \/ Finish

Spec == Init /\ [][Next]_fifoVars
=============================================================================
