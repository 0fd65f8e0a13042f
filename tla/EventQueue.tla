----------------------------- MODULE EventQueue -----------------------------
(***************************************************************************)
(* The event ring and the main loop of the Thread task                     *)
(* (rtl87x2g/system.c, thread_task.c, misc.c).                             *)
(*                                                                         *)
(* Interrupt handlers, other tasks and the handlers of the task itself     *)
(* post work in three places: the ring ev_item (BEE_EventSend), a shared   *)
(* flag or ring that the drivers poll (tx_backoff_tmo, rx_queue) and the   *)
(* pseudo-reset level.  Each of them then wakes the task with              *)
(* os_task_notify_give.  Posting and waking are two steps: an interrupt or *)
(* another task may run between them.                                      *)
(*                                                                         *)
(* The task's loop is OpenThread's main():                                 *)
(*     while (!otSysPseudoResetWasRequested())                             *)
(*         { otTaskletsProcess(); otSysProcessDrivers(); }                 *)
(***************************************************************************)
EXTENDS Integers

CONSTANTS
  EV_BUF_SIZE,  \* slots of the ring
  Events,       \* the event codes
  NONE,         \* code 0: a slot never written, and "no handler running"
  Task,         \* the Thread task, as a poster of work
  Interrupts,   \* the other posters: interrupt handlers and other tasks
  MaxLevel      \* bound on gPlatformPseudoResetLevel

ASSUME EventQueueAssumption ==
  /\ EV_BUF_SIZE \in Nat \ {0}
  /\ NONE \notin Events
  /\ Task \notin Interrupts
  /\ MaxLevel \in Nat

VARIABLES
  ev_queue, ev_head, ev_tail,  \* ev_item
  polled,      \* the polled work that is posted: "tx_backoff_tmo", "rx_queue"
  gPlatformPseudoResetLevel,
  signalling,  \* posters that have posted and not yet called notify_give
  notified,    \* the notification value of the Thread task
  event,       \* the local variable event of otSysProcessDrivers
  pc           \* where the task is in its loop

ring == <<ev_queue, ev_head, ev_tail>>
vars == <<ring, polled, gPlatformPseudoResetLevel, signalling, notified, event, pc>>

Slots == 0 .. EV_BUF_SIZE - 1
Posters == Interrupts \cup {Task}
Polled == {"tx_backoff_tmo", "rx_queue"}

\* Where the task is: at the reset test, blocked in os_task_notify_take,
\* re-initialising, before each part of otSysProcessDrivers, in a handler.
TaskStates == {"test", "take", "init", "backoff", "rx", "loop", "handle"}

\* The places where the task runs tasklets or handlers, which may post too.
Running == {"backoff", "rx", "loop", "handle"}

Init ==
  /\ ev_queue = [s \in Slots |-> NONE]
  /\ ev_head = 0
  /\ ev_tail = 0
  /\ polled = {}
  /\ gPlatformPseudoResetLevel = 0
  /\ signalling = {}
  /\ notified = FALSE
  /\ event = NONE
  /\ pc = "test"

-----------------------------------------------------------------------------
(* Posting work.                                                           *)

Incr(s) == (s + 1) % EV_BUF_SIZE

CanPost(p) ==
  /\ p \notin signalling
  /\ p = Task => pc \in Running

\* BEE_EventSend: the slot and the tail change under os_lock; nothing looks
\* at ev_head, so nothing notices a full ring.
EventSend(p, e) ==
  /\ CanPost(p)
  /\ ev_queue' = [ev_queue EXCEPT ![ev_tail] = e]
  /\ ev_tail' = Incr(ev_tail)
  /\ signalling' = signalling \cup {p}
  /\ UNCHANGED <<ev_head, polled, gPlatformPseudoResetLevel, notified, event, pc>>

\* HandleTxBackoffDelay sets tx_backoff_tmo, rxdone_handler advances rx_tail.
PostPolled(p, w) ==
  /\ CanPost(p)
  /\ polled' = polled \cup {w}
  /\ signalling' = signalling \cup {p}
  /\ UNCHANGED <<ring, gPlatformPseudoResetLevel, notified, event, pc>>

\* __wrap_otInstanceResetRadioStack of the USB dongle.
ResetRadioStack(p) ==
  /\ CanPost(p)
  /\ gPlatformPseudoResetLevel < MaxLevel
  /\ gPlatformPseudoResetLevel' = gPlatformPseudoResetLevel + 1
  /\ signalling' = signalling \cup {p}
  /\ UNCHANGED <<ring, polled, notified, event, pc>>

\* Bug to catch: the wake-up is given only to a task that already sleeps.
SignalIfAsleep(p) ==
  /\ p \in signalling
  /\ notified' = (notified \/ pc = "take")
  /\ signalling' = signalling \ {p}
  /\ UNCHANGED <<ring, polled, gPlatformPseudoResetLevel, event, pc>>

\* otSysEventSignalPending, otTaskletsSignalPending
SignalPending(p) ==
  /\ p \in signalling
  /\ notified' = TRUE
  /\ signalling' = signalling \ {p}
  /\ UNCHANGED <<ring, polled, gPlatformPseudoResetLevel, event, pc>>

-----------------------------------------------------------------------------
(* The task.  A handler signals before it returns.                         *)

TaskAt(s) == pc = s /\ Task \notin signalling

\* otSysPseudoResetWasRequested: the test, then os_task_notify_take, which
\* clears the notification value and returns.
TestReset ==
  /\ TaskAt("test")
  /\ pc' = IF gPlatformPseudoResetLevel > 0 THEN "init" ELSE "take"
  /\ UNCHANGED <<ring, polled, gPlatformPseudoResetLevel, signalling, notified, event>>

NotifyTake ==
  /\ TaskAt("take")
  /\ notified
  /\ notified' = FALSE
  /\ pc' = "backoff"
  /\ UNCHANGED <<ring, polled, gPlatformPseudoResetLevel, signalling, event>>

\* otSysInit; the ring and the polled work survive the pseudo reset.
SysInit ==
  /\ TaskAt("init")
  /\ gPlatformPseudoResetLevel' = 0
  /\ pc' = "test"
  /\ UNCHANGED <<ring, polled, signalling, notified, event>>

\* Bug to catch: tx_backoff_tmo is served and not cleared.
BackoffFlagKept ==
  /\ TaskAt("backoff")
  /\ pc' = "rx"
  /\ UNCHANGED <<ring, polled, gPlatformPseudoResetLevel, signalling, notified, event>>

\* otSysProcessDrivers, first part: BEE_RadioBackoffTimeout
RadioBackoffTimeout ==
  /\ TaskAt("backoff")
  /\ polled' = polled \ {"tx_backoff_tmo"}
  /\ pc' = "rx"
  /\ UNCHANGED <<ring, gPlatformPseudoResetLevel, signalling, notified, event>>

\* BEE_RadioRx: frames are read until rx_head = rx_tail.
RadioRx ==
  /\ TaskAt("rx")
  /\ polled' = polled \ {"rx_queue"}
  /\ pc' = "loop"
  /\ UNCHANGED <<ring, gPlatformPseudoResetLevel, signalling, notified, event>>

\* The while loop takes the event at the head and runs its handler ...
ProcessEvent ==
  /\ TaskAt("loop")
  /\ ev_head # ev_tail
  /\ event' = ev_queue[ev_head]
  /\ pc' = "handle"
  /\ UNCHANGED <<ring, polled, gPlatformPseudoResetLevel, signalling, notified>>

\* Bug to catch: the end of a handler drops what arrived meanwhile.
EventDoneFlush ==
  /\ TaskAt("handle")
  /\ ev_head' = ev_tail
  /\ event' = NONE
  /\ pc' = "loop"
  /\ UNCHANGED <<ev_queue, ev_tail, polled, gPlatformPseudoResetLevel, signalling, notified>>

\* ... and frees the slot only when the handler has returned.
EventDone ==
  /\ TaskAt("handle")
  /\ ev_head' = Incr(ev_head)
  /\ event' = NONE
  /\ pc' = "loop"
  /\ UNCHANGED <<ev_queue, ev_tail, polled, gPlatformPseudoResetLevel, signalling, notified>>

\* Bug to catch: the notification is cleared after the work instead of before.
LoopDoneClearing ==
  /\ TaskAt("loop")
  /\ ev_head = ev_tail
  /\ notified' = FALSE
  /\ pc' = "test"
  /\ UNCHANGED <<ring, polled, gPlatformPseudoResetLevel, signalling, event>>

LoopDone ==
  /\ TaskAt("loop")
  /\ ev_head = ev_tail
  /\ pc' = "test"
  /\ UNCHANGED <<ring, polled, gPlatformPseudoResetLevel, signalling, notified, event>>

TaskStep ==
  \/ TestReset
  \/ NotifyTake
  \/ SysInit
  \/ RadioBackoffTimeout
  \/ RadioRx
  \/ ProcessEvent
  \/ EventDone
  \/ LoopDone

Post(p) ==
  \/ \E e \in Events : EventSend(p, e)
  \/ \E w \in Polled : PostPolled(p, w)
  \/ ResetRadioStack(p)

Next ==
  \/ TaskStep
  \/ \E p \in Posters : Post(p) \/ SignalPending(p)

Spec == Init /\ [][Next]_vars

\* The scheduler runs the task again and again and its handlers return (the
\* task's own posts can interleave with its steps, hence SF); a poster that
\* has posted goes on to signal.
Fairness ==
  /\ SF_vars(TaskStep)
  /\ \A p \in Posters : WF_vars(SignalPending(p))

FairSpec == Spec /\ Fairness

-----------------------------------------------------------------------------
(* Properties.                                                             *)

TypeOK ==
  /\ ev_queue \in [Slots -> Events \cup {NONE}]
  /\ ev_head \in Slots
  /\ ev_tail \in Slots
  /\ polled \subseteq Polled
  /\ gPlatformPseudoResetLevel \in 0 .. MaxLevel
  /\ signalling \subseteq Posters
  /\ notified \in BOOLEAN
  /\ event \in Events \cup {NONE}
  /\ pc \in TaskStates

\* The task will be woken, or is awake.
WakeupComing == notified \/ signalling # {}

\* The task never sleeps on posted work: while it is blocked in
\* os_task_notify_take with an event in the ring, polled work or a pending
\* reset, a notification is there or its poster is about to give it.
NoLostWakeup ==
  pc = "take" /\ (ev_head # ev_tail \/ polled # {} \/ gPlatformPseudoResetLevel > 0)
    => WakeupComing

\* Every slot between head and tail holds an event somebody posted: the loop
\* never dispatches a slot nobody wrote.
PendingSlotsWritten ==
  \A s \in Slots :
    (IF ev_head <= ev_tail THEN ev_head <= s /\ s < ev_tail ELSE ev_head <= s \/ s < ev_tail)
      => ev_queue[s] \in Events

\* The ring implements the FIFO of EventFifo.  While a handler runs, its event
\* still occupies the slot at ev_head but is no longer waiting.
Offset == IF pc = "handle" THEN 1 ELSE 0

Waiting == (ev_tail - ev_head - Offset) % EV_BUF_SIZE

WaitingEvents ==
  [i \in 1 .. Waiting |-> ev_queue[(ev_head + Offset + i - 1) % EV_BUF_SIZE]]

Fifo == INSTANCE EventFifo WITH
  fifo <- WaitingEvents, current <- event, NoEvent <- NONE, Capacity <- EV_BUF_SIZE

\* Events are handled once each, in the order they were posted, whatever the
\* interleaving of posters and task, up to the overflow that EventFifo states.
ImplementsFifo == Fifo!Spec

\* The event at the head is eventually handled (or lost to an overflow),
\* provided pseudo resets are not requested for ever.
HeadServed ==
  <>[](gPlatformPseudoResetLevel = 0) =>
    \A s \in Slots :
      (ev_head = s /\ ev_tail # s) ~> (ev_head # s \/ ev_tail = s)

\* A backoff that ended is served, provided the task blocks now and then:
\* otSysProcessDrivers looks at tx_backoff_tmo only once per call, before a
\* loop that runs as long as events keep coming.
BackoffServed ==
  []<>(pc = "take") =>
    (("tx_backoff_tmo" \in polled) ~> ("tx_backoff_tmo" \notin polled))
=============================================================================
