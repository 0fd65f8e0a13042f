-------------------------- MODULE AlarmBackoff_proof --------------------------
(***************************************************************************)
(* What AlarmBackoff guarantees for every delay and every advance: its     *)
(* state is well typed, and until the alarm and the backoff are first in   *)
(* use together each of them has an interrupt or an event to come.      *)
(***************************************************************************)
EXTENDS AlarmBackoff, TLAPS

\* Two backoffs are never pending or queued together.
OneBackoff == tx_backoff_pending # Off => startEvents = 0

IInv == TypeOK /\ OneBackoff

\* The initial state satisfies the invariant.
LEMMA InitIInv == Init => IInv
<1> SUFFICES ASSUME Init PROVE IInv
  OBVIOUS
<1>1. overlapped \in BOOLEAN
  BY DEF Init
<1>2. /\ micro_alarm_us = Off /\ tx_backoff_pending = Off /\ timer = Off
      /\ alarmEvents = 0 /\ startEvents = 0
  BY DEF Init
<1> QED
  BY <1>1, <1>2 DEF IInv, TypeOK, OneBackoff

\* Every step of the alarm, the backoff and the interrupt keeps it.
LEMMA StepIInv == IInv /\ [Next]_vars => IInv'
<1> SUFFICES ASSUME IInv, [Next]_vars
             PROVE  IInv'
  OBVIOUS
<1> USE AlarmBackoffAssumption DEF IInv, TypeOK, OneBackoff, Times
<1>1. CASE Tick
  BY <1>1 DEF Tick, Later
<1>2. ASSUME NEW target \in Times, otPlatAlarmMicroStartAt(target)
      PROVE  IInv'
  <2>1. timer' \in 0 .. MaxDelay \cup {Off} /\ alarmEvents' \in Nat
    <3>1. CASE target > kMinScheduleAdvanceUs
      BY <1>2, <3>1 DEF otPlatAlarmMicroStartAt, ScheduleOrFire
    <3>2. CASE ~(target > kMinScheduleAdvanceUs)
      BY <1>2, <3>2 DEF otPlatAlarmMicroStartAt, ScheduleOrFire
    <3> QED BY <3>1, <3>2
  <2> QED BY <1>2, <2>1 DEF otPlatAlarmMicroStartAt
<1>3. CASE otPlatAlarmMicroStop
  BY <1>3 DEF otPlatAlarmMicroStop
<1>4. CASE BEE_AlarmMicroProcess
  BY <1>4 DEF BEE_AlarmMicroProcess
<1>5. ASSUME NEW delay \in 1 .. MaxDelay, BEE_RadioBackoffStart(delay)
      PROVE  IInv'
  BY <1>5 DEF BEE_RadioBackoffStart, BackoffIdle
<1>6. CASE BEE_RadioTxStart
  BY <1>6 DEF BEE_RadioTxStart
<1>7. CASE btcmp1_handler
  <2>1. alarmEvents' \in Nat /\ micro_alarm_us' = micro_alarm_us
    BY <1>7 DEF btcmp1_handler, micro_handler
  <2>2. handle_tx_backoff_pending
    BY <1>7 DEF btcmp1_handler
  <2>3. /\ timer' \in 0 .. MaxDelay \cup {Off}
        /\ tx_backoff_pending' \in Times \cup {Off}
        /\ startEvents' \in 0 .. 1
        /\ OneBackoff'
    BY <2>2 DEF handle_tx_backoff_pending
  <2>4. overlapped' \in BOOLEAN
    BY <1>7 DEF btcmp1_handler
  <2> QED BY <2>1, <2>3, <2>4
<1>8. CASE UNCHANGED vars
  BY <1>8 DEF vars
<1> QED BY <1>1, <1>2, <1>3, <1>4, <1>5, <1>6, <1>7, <1>8 DEF Next

\* The armed times, the compare value and the queued events of alarm.c and of
\* the backoff in radio.c stay in their ranges; a backoff queues one TX_START.
THEOREM TypeCorrect == Spec => []TypeOK
<1>1. IInv => TypeOK
  BY DEF IInv
<1> QED BY InitIInv, StepIInv, <1>1, PTL DEF Spec

-----------------------------------------------------------------------------

\* Until they overlap a pending backoff has the timer to itself.
Alone == tx_backoff_pending # Off => AlarmIdle

BackoffHasInterrupt ==
  tx_backoff_pending # Off => timer # Off /\ (timer = 0 \/ timer <= tx_backoff_pending)

Scheduled == IInv /\ Alone /\ ScheduledOrFired /\ BackoffHasInterrupt

\* The initial state has nothing armed.
LEMMA InitScheduled == Init => Scheduled
  BY InitIInv DEF Init, Scheduled, Alone, ScheduledOrFired, BackoffHasInterrupt

\* Time brings a compare value and the time it stands for closer alike.
LEMMA TickScheduled == Scheduled /\ Tick => Alone' /\ ScheduledOrFired' /\ BackoffHasInterrupt'
<1> SUFFICES ASSUME Scheduled, Tick
             PROVE  Alone' /\ ScheduledOrFired' /\ BackoffHasInterrupt'
  OBVIOUS
<1> USE AlarmBackoffAssumption DEF Scheduled, IInv, TypeOK, Times, Tick, Later
<1>1. Alone'
  BY DEF Alone, AlarmIdle
<1>2. ScheduledOrFired'
  BY DEF ScheduledOrFired
<1>3. BackoffHasInterrupt'
  BY DEF BackoffHasInterrupt
<1> QED BY <1>1, <1>2, <1>3

\* Every step keeps both scheduled when the alarm and the backoff take turns.
LEMMA StepScheduled ==
  ASSUME overlapped' = FALSE
  PROVE  Scheduled /\ [Next]_vars => Scheduled'
<1> SUFFICES ASSUME Scheduled, [Next]_vars
             PROVE  Scheduled'
  OBVIOUS
<1>i. IInv'
  BY StepIInv DEF Scheduled
<1> SUFFICES Alone' /\ ScheduledOrFired' /\ BackoffHasInterrupt'
  BY <1>i DEF Scheduled
<1> USE AlarmBackoffAssumption DEF Alone, AlarmIdle, BackoffIdle, ScheduledOrFired,
        BackoffHasInterrupt
<1>t. TypeOK
  BY DEF Scheduled, IInv
<1>1. CASE Tick
  BY <1>1, TickScheduled
<1>2. ASSUME NEW target \in Times, otPlatAlarmMicroStartAt(target)
      PROVE  Alone' /\ ScheduledOrFired' /\ BackoffHasInterrupt'
  <2>1. tx_backoff_pending = Off /\ tx_backoff_pending' = Off /\ micro_alarm_us' = target
    BY <1>2 DEF otPlatAlarmMicroStartAt
  <2>2. CASE target > kMinScheduleAdvanceUs
    <3>1. timer' = target /\ timer' # Off
      BY <1>2, <2>1, <2>2 DEF otPlatAlarmMicroStartAt, ScheduleOrFire, Times
    <3> QED BY <2>1, <3>1 DEF Times
  <2>3. CASE ~(target > kMinScheduleAdvanceUs)
    <3>1. alarmEvents' > 0
      BY <1>2, <1>t, <2>3 DEF otPlatAlarmMicroStartAt, ScheduleOrFire, TypeOK
    <3> QED BY <2>1, <3>1
  <2> QED BY <2>2, <2>3
<1>3. CASE otPlatAlarmMicroStop
  BY <1>3 DEF otPlatAlarmMicroStop, Scheduled
<1>4. CASE BEE_AlarmMicroProcess
  BY <1>4, <1>t DEF BEE_AlarmMicroProcess, Scheduled, TypeOK
<1>5. ASSUME NEW delay \in 1 .. MaxDelay, BEE_RadioBackoffStart(delay)
      PROVE  Alone' /\ ScheduledOrFired' /\ BackoffHasInterrupt'
  <2>1. /\ micro_alarm_us = Off /\ micro_alarm_us' = Off /\ alarmEvents = 0
        /\ alarmEvents' = 0 /\ tx_backoff_pending' = delay /\ timer' = delay
    BY <1>5 DEF BEE_RadioBackoffStart
  <2> QED BY <2>1
<1>6. CASE BEE_RadioTxStart
  BY <1>6 DEF BEE_RadioTxStart, Scheduled
<1>7. CASE btcmp1_handler
  <2>1. /\ micro_alarm_us' = micro_alarm_us
        /\ micro_alarm_us # Off => alarmEvents' > 0
        /\ micro_alarm_us = Off => alarmEvents' = alarmEvents
    BY <1>7, <1>t DEF btcmp1_handler, micro_handler, TypeOK
  <2>2. tx_backoff_pending' # Off => timer' = tx_backoff_pending' /\ tx_backoff_pending # Off
    BY <1>7, <1>t DEF btcmp1_handler, handle_tx_backoff_pending, TypeOK, Times
  <2>3. ScheduledOrFired'
    BY <2>1
  <2>4. BackoffHasInterrupt'
    <3>1. tx_backoff_pending' # Off => timer' <= tx_backoff_pending'
      BY <1>i, <2>2 DEF IInv, TypeOK, Times
    <3> QED BY <2>2, <3>1
  <2>5. Alone'
    BY <2>1, <2>2 DEF Scheduled
  <2> QED BY <2>3, <2>4, <2>5
<1>8. CASE UNCHANGED vars
  BY <1>8 DEF vars, Scheduled
<1> QED BY <1>1, <1>2, <1>3, <1>4, <1>5, <1>6, <1>7, <1>8 DEF Next

\* An overlap is not forgotten.
LEMMA OverlapStays ==
  ASSUME IInv, [Next]_vars, overlapped' = FALSE
  PROVE  overlapped = FALSE
  BY DEF IInv, TypeOK, Next, vars, Tick, otPlatAlarmMicroStartAt, otPlatAlarmMicroStop,
     BEE_AlarmMicroProcess, BEE_RadioBackoffStart, BEE_RadioTxStart, btcmp1_handler

SerialInv == IInv /\ (overlapped = FALSE => Scheduled)

LEMMA SerialInvariant == Spec => []SerialInv
<1>1. Init => SerialInv
  BY InitScheduled DEF SerialInv, Scheduled
<1>2. SerialInv /\ [Next]_vars => SerialInv'
  <2> SUFFICES ASSUME SerialInv, [Next]_vars
               PROVE  SerialInv'
    OBVIOUS
  <2>1. IInv'
    BY StepIInv DEF SerialInv
  <2>2. ASSUME overlapped' = FALSE PROVE Scheduled'
    <3>1. overlapped = FALSE
      BY <2>2, OverlapStays DEF SerialInv
    <3> QED BY <2>2, <3>1, StepScheduled DEF SerialInv
  <2> QED BY <2>1, <2>2 DEF SerialInv
<1> QED BY <1>1, <1>2, PTL DEF Spec

\* "Schedule an alarm or fire immediately if too close" (alarm.c): until a
\* backoff first runs beside it, an armed alarm has an event queued or an
\* interrupt no later than its time.
THEOREM AlarmScheduled == Spec => []SerialScheduled
<1>1. SerialInv => SerialScheduled
  BY DEF SerialInv, SerialScheduled, Scheduled, IInv, TypeOK
<1> QED BY SerialInvariant, <1>1, PTL

\* BEE_RadioBackoffStart and handle_tx_backoff_pending: until an alarm is first
\* in use beside it, a pending backoff has an interrupt no later than its time.
THEOREM BackoffHasTimer == Spec => []BackoffScheduled
<1>1. SerialInv => BackoffScheduled
  BY DEF SerialInv, BackoffScheduled, BackoffHasInterrupt, Scheduled, IInv, TypeOK
<1> QED BY SerialInvariant, <1>1, PTL
=============================================================================
