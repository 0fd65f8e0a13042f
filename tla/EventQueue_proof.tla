-------------------------- MODULE EventQueue_proof --------------------------
(* Theorems about EventQueue, for a ring of any size and any posters. *)
EXTENDS EventQueue, RingLemmas

-----------------------------------------------------------------------------
(* The ring.                                                               *)

N == EV_BUF_SIZE

LEMMA RingFacts ==
  /\ N \in Sizes
  /\ Slots = Ring(N)
  /\ \A s \in Slots : Incr(s) = After(N, s) /\ Incr(s) \in Slots
<1>1. N \in Sizes /\ Slots = Ring(N)
  BY EventQueueAssumption DEF N, Sizes, Slots, Ring
<1>2. ASSUME NEW s \in Slots PROVE Incr(s) = After(N, s) /\ Incr(s) \in Slots
  <2>1. Incr(s) = After(N, s)
    BY DEF Incr, After, N
  <2> QED
    BY <2>1, <1>1, AfterType
<1> QED
  BY <1>1, <1>2

-----------------------------------------------------------------------------
(* Type correctness.                                                       *)

LEMMA TypeInit == Init => TypeOK
<1> SUFFICES ASSUME Init PROVE TypeOK
  OBVIOUS
<1>1. 0 \in Slots /\ gPlatformPseudoResetLevel \in 0 .. MaxLevel
  BY EventQueueAssumption DEF Init, Slots
<1>2. ev_queue \in [Slots -> Events \cup {NONE}]
  BY DEF Init
<1> QED
  BY <1>1, <1>2 DEF Init, TypeOK, TaskStates

LEMMA TypePost ==
  ASSUME TypeOK, NEW p \in Posters, Post(p) \/ SignalPending(p)
  PROVE  TypeOK'
<1>1. CASE \E e \in Events : EventSend(p, e)
  BY <1>1, RingFacts DEF TypeOK, EventSend
<1>2. CASE \E w \in Polled : PostPolled(p, w)
  BY <1>2 DEF TypeOK, PostPolled, ring
<1>3. CASE ResetRadioStack(p)
  BY <1>3, EventQueueAssumption DEF TypeOK, ResetRadioStack, ring
<1>4. CASE SignalPending(p)
  BY <1>4 DEF TypeOK, SignalPending, ring
<1> QED
  BY <1>1, <1>2, <1>3, <1>4 DEF Post

LEMMA TypeTask ==
  ASSUME TypeOK, TaskStep
  PROVE  TypeOK'
<1> USE DEF TypeOK, TaskStates, ring
<1>1. CASE TestReset
  BY <1>1 DEF TestReset
<1>2. CASE NotifyTake
  BY <1>2 DEF NotifyTake
<1>3. CASE SysInit
  BY <1>3, EventQueueAssumption DEF SysInit
<1>4. CASE RadioBackoffTimeout
  BY <1>4 DEF RadioBackoffTimeout
<1>5. CASE RadioRx
  BY <1>5 DEF RadioRx
<1>6. CASE ProcessEvent
  BY <1>6 DEF ProcessEvent
<1>7. CASE EventDone
  BY <1>7, RingFacts DEF EventDone
<1>8. CASE LoopDone
  BY <1>8 DEF LoopDone
<1> QED
  BY <1>1, <1>2, <1>3, <1>4, <1>5, <1>6, <1>7, <1>8 DEF TaskStep

\* Every variable keeps its type: in particular ev_head and ev_tail stay
\* inside the ring and ev_queue holds nothing but posted events.
THEOREM TypeCorrect == Spec => []TypeOK
<1>1. TypeOK /\ UNCHANGED vars => TypeOK'
  BY DEF TypeOK, vars, ring
<1>2. TypeOK /\ [Next]_vars => TypeOK'
  BY <1>1, TypePost, TypeTask DEF Next
<1> QED
  BY <1>2, TypeInit, PTL DEF Spec

-----------------------------------------------------------------------------
(* No lost wake-up.  The inductive invariant: work that the task will not  *)
(* look at any more in this round of its loop has a wake-up coming.        *)

\* The program points after which the task does not look at the ring, at
\* tx_backoff_tmo, at rx_queue before it next blocks.
PastRing == {"test", "take", "init"}
PastRx == PastRing \cup {"loop", "handle"}
PastBackoff == PastRx \cup {"rx"}

WakeInv ==
  /\ pc \in PastRing /\ ev_head # ev_tail => WakeupComing
  /\ pc \in PastBackoff /\ "tx_backoff_tmo" \in polled => WakeupComing
  /\ pc \in PastRx /\ "rx_queue" \in polled => WakeupComing
  /\ pc = "take" /\ gPlatformPseudoResetLevel > 0 => WakeupComing

LEMMA WakePost ==
  ASSUME TypeOK, WakeInv, NEW p \in Posters, Post(p) \/ SignalPending(p)
  PROVE  WakeInv'
<1>1. CASE Post(p)
  <2>1. signalling' # {} /\ pc' = pc
    BY <1>1 DEF Post, EventSend, PostPolled, ResetRadioStack
  <2> QED
    BY <2>1 DEF WakeInv, WakeupComing
<1>2. CASE SignalPending(p)
  BY <1>2 DEF SignalPending, WakeInv, WakeupComing
<1> QED
  BY <1>1, <1>2

LEMMA WakeTask ==
  ASSUME TypeOK, WakeInv, TaskStep
  PROVE  WakeInv'
<1> USE DEF WakeInv, WakeupComing, PastRing, PastRx, PastBackoff, TaskAt, ring
<1>1. CASE TestReset
  BY <1>1 DEF TestReset, TypeOK
<1>2. CASE NotifyTake
  BY <1>2 DEF NotifyTake
<1>3. CASE SysInit
  BY <1>3 DEF SysInit
<1>4. CASE RadioBackoffTimeout
  BY <1>4 DEF RadioBackoffTimeout
<1>5. CASE RadioRx
  BY <1>5 DEF RadioRx
<1>6. CASE ProcessEvent
  BY <1>6 DEF ProcessEvent
<1>7. CASE EventDone
  BY <1>7 DEF EventDone
<1>8. CASE LoopDone
  BY <1>8 DEF LoopDone
<1> QED
  BY <1>1, <1>2, <1>3, <1>4, <1>5, <1>6, <1>7, <1>8 DEF TaskStep

\* Whatever the posters and the interleaving, the Thread task never blocks
\* in os_task_notify_take on work that has been posted without a wake-up
\* given or about to be given.
THEOREM NeverSleepsOnWork == Spec => []NoLostWakeup
<1>1. Init => WakeInv
  BY DEF Init, WakeInv
<1>2. TypeOK /\ WakeInv /\ UNCHANGED vars => WakeInv'
  BY DEF WakeInv, WakeupComing, vars, ring
<1>3. TypeOK /\ WakeInv /\ [Next]_vars => WakeInv'
  BY <1>2, WakePost, WakeTask DEF Next
<1>4. TypeOK /\ WakeInv => NoLostWakeup
  BY DEF TypeOK, WakeInv, NoLostWakeup, Polled, PastRing, PastRx, PastBackoff
<1> QED
  BY <1>1, <1>3, <1>4, TypeCorrect, PTL DEF Spec

-----------------------------------------------------------------------------
(* The ring implements the FIFO.                                           *)

\* What the dispatched event needs: a waiting slot was written by a post, and
\* event holds a posted event exactly while a handler runs.
EventInv ==
  /\ pc = "handle" <=> event # NONE
  /\ pc = "handle" => ev_queue[ev_head] \in Events
  /\ Held(N, ev_queue, ev_head, ev_tail, Offset, Events)

Codes == Events \cup {NONE}

LEMMA RingTyped ==
  TypeOK => /\ ev_queue \in RingsOf(N, Codes)
            /\ ev_head \in Ring(N) /\ ev_tail \in Ring(N)
            /\ Incr(ev_head) = After(N, ev_head) /\ Incr(ev_tail) = After(N, ev_tail)
            /\ Offset \in {0, 1}
  BY RingFacts DEF TypeOK, RingsOf, Codes, Offset

LEMMA EventInvSend ==
  ASSUME TypeOK, EventInv, NEW p \in Posters, NEW e \in Events, EventSend(p, e)
  PROVE  EventInv'
<1>1. /\ Offset' = Offset /\ pc' = pc /\ event' = event /\ ev_head' = ev_head
      /\ ev_queue' = [ev_queue EXCEPT ![ev_tail] = e]
      /\ ev_tail' = After(N, ev_tail)
  BY RingTyped DEF Offset, EventSend
<1>2. pc' = "handle" => ev_queue'[ev_head'] \in Events
  BY <1>1 DEF EventInv, TypeOK
<1>3. Held(N, [ev_queue EXCEPT ![ev_tail] = e], ev_head, After(N, ev_tail), Offset, Events)
  BY RingTyped, RingFacts, HeldSend DEF EventInv, Codes
<1> QED
  BY <1>1, <1>2, <1>3 DEF EventInv

LEMMA EventInvTask ==
  ASSUME TypeOK, EventInv, ProcessEvent \/ EventDone
  PROVE  EventInv'
<1>1. CASE ProcessEvent
  <2>1. /\ Offset = 0 /\ Offset' = 1 /\ UNCHANGED ring /\ ev_head # ev_tail
        /\ pc' = "handle" /\ event' = ev_queue[ev_head]
    BY <1>1 DEF ProcessEvent, TaskAt, Offset
  <2>2. /\ ev_queue[ev_head] \in Events
        /\ Held(N, ev_queue, ev_head, ev_tail, 1, Events)
    BY <2>1, RingTyped, RingFacts, HeldTake DEF EventInv
  <2> QED
    BY <2>1, <2>2, EventQueueAssumption DEF EventInv, ring
<1>2. CASE EventDone
  <2>1. /\ Offset = 1 /\ Offset' = 0 /\ ev_head' = After(N, ev_head)
        /\ UNCHANGED <<ev_queue, ev_tail>> /\ pc' = "loop" /\ event' = NONE
    BY <1>2, RingTyped DEF EventDone, TaskAt, Offset
  <2>2. Held(N, ev_queue, After(N, ev_head), ev_tail, 0, Events)
    BY <2>1, RingTyped, RingFacts, HeldDone DEF EventInv
  <2> QED
    BY <2>1, <2>2 DEF EventInv
<1> QED
  BY <1>1, <1>2

\* Every other step leaves the ring alone and neither enters nor leaves a handler.
RingQuiet ==
  /\ UNCHANGED <<ring, event>>
  /\ pc' = "handle" <=> pc = "handle"

LEMMA RingSteps ==
  ASSUME TypeOK, [Next]_vars
  PROVE  \/ \E p \in Posters, e \in Events : EventSend(p, e)
         \/ ProcessEvent
         \/ EventDone
         \/ RingQuiet
<1> USE DEF RingQuiet, ring, TaskAt
<1>1. CASE TaskStep
  BY <1>1 DEF TaskStep, TestReset, NotifyTake, SysInit, RadioBackoffTimeout, RadioRx, LoopDone
<1>2. ASSUME NEW p \in Posters, Post(p)
      PROVE  (\E e \in Events : EventSend(p, e)) \/ RingQuiet
  BY <1>2 DEF Post, PostPolled, ResetRadioStack
<1>3. ASSUME NEW p \in Posters, SignalPending(p)
      PROVE  RingQuiet
  BY <1>3 DEF SignalPending
<1>4. CASE UNCHANGED vars
  BY <1>4 DEF vars
<1> QED
  BY <1>1, <1>2, <1>3, <1>4 DEF Next

LEMMA EventInvariant == Spec => []EventInv
<1>1. Init => EventInv
  <2> SUFFICES ASSUME Init PROVE EventInv
    OBVIOUS
  <2>1. Offset = 0 /\ ev_head = 0 /\ ev_tail = 0 /\ event = NONE /\ pc = "test"
    BY DEF Init, Offset
  <2>2. Held(N, ev_queue, 0, 0, 0, Events)
    BY HeldNone, RingFacts, RingTyped, TypeInit, <2>1
  <2> QED
    BY <2>1, <2>2 DEF EventInv
<1>2. TypeOK /\ EventInv /\ RingQuiet => EventInv'
  BY DEF EventInv, RingQuiet, ring, Offset
<1>3. TypeOK /\ EventInv /\ [Next]_vars => EventInv'
  BY <1>2, RingSteps, EventInvSend, EventInvTask
<1> QED
  BY <1>1, <1>3, TypeCorrect, PTL DEF Spec

\* The loop never dispatches a slot that no BEE_EventSend wrote: the slot that
\* otSysProcessDrivers reads at ev_head lies between head and tail.
THEOREM OnlyPostedEvents == Spec => []PendingSlotsWritten
<1>1. TypeOK /\ EventInv => PendingSlotsWritten
  <2> SUFFICES ASSUME TypeOK, EventInv, NEW s \in Slots,
                      IF ev_head <= ev_tail THEN ev_head <= s /\ s < ev_tail
                      ELSE ev_head <= s \/ s < ev_tail
               PROVE  ev_queue[s] \in Events
    BY DEF PendingSlotsWritten
  <2>1. \/ Offset = 1 /\ s = ev_head
        \/ \E k \in 0 .. Span(N, ev_head, ev_tail, Offset) - 1 :
              SlotOf(N, ev_head, Offset, k) = s
    BY RingTyped, RingFacts, PendingSlot
  <2> QED
    BY <2>1 DEF EventInv, Held, Offset
<1> QED
  BY <1>1, TypeCorrect, EventInvariant, PTL

-----------------------------------------------------------------------------
(* The refinement mapping in terms of ItemsOf.                             *)

LEMMA Mapping ==
  TypeOK => WaitingEvents = ItemsOf(N, ev_queue, ev_head, ev_tail, Offset)
<1> SUFFICES ASSUME TypeOK
             PROVE  WaitingEvents = ItemsOf(N, ev_queue, ev_head, ev_tail, Offset)
  OBVIOUS
<1>1. [i \in 1 .. Span(N, ev_head, ev_tail, Offset)
         |-> ev_queue[(ev_head + Offset + i - 1) % N]]
        = ItemsOf(N, ev_queue, ev_head, ev_tail, Offset)
  BY RingTyped, RingFacts, ItemsWritten
<1> QED
  BY <1>1 DEF WaitingEvents, Waiting, Span, N

LEMMA MappedInit == Init => Fifo!Init
<1> SUFFICES ASSUME Init PROVE Fifo!Init
  OBVIOUS
<1>1. Offset = 0 /\ ev_head = 0 /\ ev_tail = 0 /\ event = NONE
  BY DEF Init, Offset
<1>2. Span(N, 0, 0, 0) = 0
  BY HeldNone, RingFacts, RingTyped, TypeInit, <1>1
<1>3. WaitingEvents = ItemsOf(N, ev_queue, 0, 0, 0)
  BY <1>1, TypeInit, Mapping
<1>4. WaitingEvents = <<>>
  BY <1>2, <1>3 DEF ItemsOf
<1> QED
  BY <1>1, <1>4 DEF Fifo!Init

LEMMA MappedStep ==
  ASSUME TypeOK, TypeOK', EventInv, [Next]_vars
  PROVE  [Fifo!Next]_(Fifo!fifoVars)
<1>1. WaitingEvents = ItemsOf(N, ev_queue, ev_head, ev_tail, Offset)
  BY Mapping
<1>2. WaitingEvents' = ItemsOf(N, ev_queue', ev_head', ev_tail', Offset')
  <2>1. /\ ev_head' \in Ring(N) /\ ev_tail' \in Ring(N) /\ Offset' \in {0, 1}
    BY RingFacts DEF TypeOK, Offset
  <2>2. [i \in 1 .. Span(N, ev_head', ev_tail', Offset')
           |-> ev_queue'[(ev_head' + Offset' + i - 1) % N]]
          = ItemsOf(N, ev_queue', ev_head', ev_tail', Offset')
    BY <2>1, RingFacts, ItemsWritten
  <2> QED
    BY <2>2 DEF WaitingEvents, Waiting, Span, N
<1>3. ASSUME NEW p \in Posters, NEW e \in Events, EventSend(p, e)
      PROVE  Fifo!Send(e)
  <2>1. /\ ev_queue' = [ev_queue EXCEPT ![ev_tail] = e] /\ ev_head' = ev_head
        /\ ev_tail' = After(N, ev_tail) /\ Offset' = Offset /\ event' = event
    BY <1>3, RingTyped DEF EventSend, Offset
  <2>2. e \in Codes
    BY DEF Codes
  <2>3. ItemsOf(N, [ev_queue EXCEPT ![ev_tail] = e], ev_head, After(N, ev_tail), Offset)
          = Sent(N, ItemsOf(N, ev_queue, ev_head, ev_tail, Offset), e)
    BY <2>2, RingTyped, RingFacts, ItemsOfSend
  <2>4. WaitingEvents' = Sent(N, WaitingEvents, e)
    BY <1>1, <1>2, <2>1, <2>3
  <2> QED
    BY <2>1, <2>4 DEF Sent, Fifo!Send, N
<1>4. CASE ProcessEvent
  <2>1. /\ Offset = 0 /\ Offset' = 1 /\ UNCHANGED ring /\ pc # "handle"
        /\ event' = ev_queue[ev_head] /\ ev_head # ev_tail
    BY <1>4 DEF ProcessEvent, TaskAt, Offset
  <2>2. event = NONE
    BY <2>1 DEF EventInv
  <2>3. WaitingEvents # <<>> /\ event' = Head(WaitingEvents)
        /\ WaitingEvents' = Tail(WaitingEvents)
    BY <1>1, <1>2, <2>1, RingTyped, RingFacts, ItemsOfTake DEF ring
  <2> QED
    BY <2>2, <2>3 DEF Fifo!Next, Fifo!Take
<1>5. CASE EventDone
  <2>1. /\ Offset = 1 /\ Offset' = 0 /\ ev_head' = After(N, ev_head)
        /\ UNCHANGED <<ev_queue, ev_tail>> /\ pc = "handle" /\ event' = NONE
    BY <1>5, RingTyped DEF EventDone, TaskAt, Offset
  <2>2. event # NONE
    BY <2>1 DEF EventInv
  <2>3. WaitingEvents' = WaitingEvents
    BY <1>1, <1>2, <2>1, RingTyped, RingFacts, ItemsOfTake
  <2> QED
    BY <2>1, <2>2, <2>3 DEF Fifo!Next, Fifo!Finish
<1>6. CASE RingQuiet
  <2>1. UNCHANGED ring /\ Offset' = Offset /\ event' = event
    BY <1>6 DEF RingQuiet, Offset
  <2>2. WaitingEvents' = WaitingEvents
    BY <1>1, <1>2, <2>1 DEF ring
  <2> QED
    BY <2>1, <2>2 DEF Fifo!fifoVars
<1> QED
  BY <1>3, <1>4, <1>5, <1>6, RingSteps DEF Fifo!Next

\* The ring with its loop implements the lossy FIFO: each event is handled
\* once, in posting order, and is lost only when a post finds EV_BUF_SIZE - 1
\* events waiting.
THEOREM Refines == Spec => ImplementsFifo
<1>1. TypeOK /\ TypeOK' /\ EventInv /\ [Next]_vars => [Fifo!Next]_(Fifo!fifoVars)
  BY MappedStep
<1> QED
  BY <1>1, MappedInit, TypeCorrect, EventInvariant, PTL DEF Spec, ImplementsFifo, Fifo!Spec
=============================================================================
