----------------------------- MODULE AlarmBackoff -----------------------------
(***************************************************************************)
(* The microsecond alarm of alarm.c and the CSMA backoff of radio.c share  *)
(* one hardware timer, MAC_BT_TIMER1 (TX_BACKOFF_TMR_MODE is               *)
(* TX_BACKOFF_USE_US_ALARM).  Whoever arms it first leaves it alone when   *)
(* the other one is due earlier, and btcmp1_handler serves both.           *)
(*                                                                         *)
(* Times are relative: an armed time is the number of ticks left until it, *)
(* and -1 once it has passed.  The code compares a new time, which lies    *)
(* ahead, with an old one, so the order of times that have passed is       *)
(* never looked at.  Off is the value 0 of the code: nothing is armed.     *)
(***************************************************************************)
EXTENDS Integers

CONSTANTS
  Off,
  MaxDelay,               \* bound on the delay of an alarm or a backoff
  kMinScheduleAdvanceUs,
  MaxEvents               \* bound on ALARM_US events queued by the client's calls

ASSUME AlarmBackoffAssumption ==
  /\ MaxDelay \in Nat
  /\ kMinScheduleAdvanceUs \in 1 .. MaxDelay
  /\ MaxEvents \in Nat \ {0}
  /\ Off \notin -1 .. MaxDelay

VARIABLES
  micro_alarm_us, tx_backoff_pending,
  timer,         \* the compare value of MAC_BT_TIMER1; 0 when it is reached
  alarmEvents,   \* ALARM_US events in the driver queue
  startEvents,   \* TX_START events in the driver queue
  overlapped     \* have alarm and backoff ever been in use at the same time?

vars == <<micro_alarm_us, tx_backoff_pending, timer, alarmEvents, startEvents, overlapped>>

Times == -1 .. MaxDelay

Init ==
  /\ micro_alarm_us = Off
  /\ tx_backoff_pending = Off
  /\ timer = Off
  /\ alarmEvents = 0
  /\ startEvents = 0
  /\ overlapped = FALSE

Later(t, least) == IF t = Off \/ t = least THEN t ELSE t - 1

\* A compare value that is reached stays so until its interrupt is served.
Tick ==
  /\ micro_alarm_us' = Later(micro_alarm_us, -1)
  /\ tx_backoff_pending' = Later(tx_backoff_pending, -1)
  /\ timer' = Later(timer, 0)
  /\ UNCHANGED <<alarmEvents, startEvents, overlapped>>

-----------------------------------------------------------------------------
(* The alarm.                                                              *)

AlarmIdle == micro_alarm_us = Off /\ alarmEvents = 0
BackoffIdle == tx_backoff_pending = Off

\* Bug to catch: a target that is too close is neither armed nor fired.
TooCloseForgotten(target) ==
  /\ timer' = IF target > kMinScheduleAdvanceUs THEN target ELSE timer
  /\ UNCHANGED alarmEvents

\* A compare value for the target, unless the backoff is due earlier; an
\* ALARM_US event when the target is too close.
ScheduleOrFire(target) ==
  IF target > kMinScheduleAdvanceUs
  THEN /\ IF tx_backoff_pending # Off /\ tx_backoff_pending < target
          THEN UNCHANGED timer
          ELSE timer' = target
       /\ UNCHANGED alarmEvents
  ELSE alarmEvents' = alarmEvents + 1 /\ UNCHANGED timer

otPlatAlarmMicroStartAt(target) ==
  /\ alarmEvents < MaxEvents
  /\ overlapped' = (overlapped \/ ~BackoffIdle)
  /\ micro_alarm_us' = target
  /\ ScheduleOrFire(target)
  /\ UNCHANGED <<tx_backoff_pending, startEvents>>

\* The compare value stays where it is.
otPlatAlarmMicroStop ==
  /\ micro_alarm_us' = Off
  /\ UNCHANGED <<tx_backoff_pending, timer, alarmEvents, startEvents, overlapped>>

\* The handler of ALARM_US; OpenThread then starts or stops the alarm anew.
BEE_AlarmMicroProcess ==
  /\ alarmEvents > 0
  /\ alarmEvents' = alarmEvents - 1
  /\ micro_alarm_us' = Off
  /\ UNCHANGED <<tx_backoff_pending, timer, startEvents, overlapped>>

-----------------------------------------------------------------------------
(* The backoff.  There is at most one (RadioTx, OneStartToken).            *)

BEE_RadioBackoffStart(delay) ==
  /\ BackoffIdle /\ startEvents = 0
  /\ overlapped' = (overlapped \/ ~AlarmIdle)
  /\ tx_backoff_pending' = delay
  /\ timer' = IF micro_alarm_us = Off \/ delay < micro_alarm_us THEN delay ELSE timer
  /\ UNCHANGED <<micro_alarm_us, alarmEvents, startEvents>>

\* The handler of TX_START.
BEE_RadioTxStart ==
  /\ startEvents > 0
  /\ startEvents' = startEvents - 1
  /\ UNCHANGED <<micro_alarm_us, tx_backoff_pending, timer, alarmEvents, overlapped>>

-----------------------------------------------------------------------------
(* The interrupt of the timer.                                             *)

\* Bug to catch: the pending time outlives its TX_START.
BackoffKeptPending ==
  /\ startEvents' = IF tx_backoff_pending = Off THEN startEvents ELSE 1
  /\ timer' = Off
  /\ UNCHANGED tx_backoff_pending

handle_tx_backoff_pending ==
  \/ /\ tx_backoff_pending = Off
     /\ timer' = Off
     /\ UNCHANGED <<tx_backoff_pending, startEvents>>
  \/ /\ tx_backoff_pending # Off
     /\ tx_backoff_pending < kMinScheduleAdvanceUs
     /\ tx_backoff_pending' = Off
     /\ startEvents' = startEvents + 1
     /\ timer' = Off
  \/ /\ tx_backoff_pending # Off
     /\ tx_backoff_pending >= kMinScheduleAdvanceUs
     /\ timer' = tx_backoff_pending
     /\ UNCHANGED <<tx_backoff_pending, startEvents>>

\* An armed alarm is reported, due or not.
micro_handler ==
  /\ alarmEvents' = IF micro_alarm_us # Off THEN alarmEvents + 1 ELSE alarmEvents
  /\ UNCHANGED micro_alarm_us

btcmp1_handler ==
  /\ timer = 0
  /\ handle_tx_backoff_pending
  /\ micro_handler
  /\ UNCHANGED overlapped

Next ==
  \/ Tick
  \/ \E target \in Times : otPlatAlarmMicroStartAt(target)
  \/ otPlatAlarmMicroStop
  \/ BEE_AlarmMicroProcess
  \/ \E delay \in 1 .. MaxDelay : BEE_RadioBackoffStart(delay)
  \/ BEE_RadioTxStart
  \/ btcmp1_handler

Spec == Init /\ [][Next]_vars

\* Time passes, the timer interrupts, the task dispatches its events.
Fairness ==
  /\ WF_vars(Tick)
  /\ WF_vars(btcmp1_handler)
  /\ WF_vars(BEE_AlarmMicroProcess)
  /\ WF_vars(BEE_RadioTxStart)

FairSpec == Spec /\ Fairness

-----------------------------------------------------------------------------
(* Properties.                                                             *)

TypeOK ==
  /\ micro_alarm_us \in Times \cup {Off}
  /\ tx_backoff_pending \in Times \cup {Off}
  /\ timer \in 0 .. MaxDelay \cup {Off}
  /\ alarmEvents \in Nat
  /\ startEvents \in 0 .. 1
  /\ overlapped \in BOOLEAN

\* "Schedule an alarm or fire immediately if too close" (alarm.c): an armed
\* alarm has its event in the queue or an interrupt no later than its time.
ScheduledOrFired ==
  micro_alarm_us # Off =>
    \/ alarmEvents > 0
    \/ timer # Off /\ (timer = 0 \/ timer <= micro_alarm_us)

\* It holds until alarm and backoff are first in use at the same time.
SerialScheduled == ~overlapped => ScheduledOrFired

\* Until then a backoff, too, has an interrupt no later than its time.
BackoffScheduled ==
  ~overlapped /\ tx_backoff_pending # Off =>
    timer # Off /\ (timer = 0 \/ timer <= tx_backoff_pending)

\* Alarm and backoff take turns, or somebody sets the timer again and again.
TimerServes == []~overlapped \/ []<>(timer # Off)

\* In such a run every backoff ends.
BackoffEnds == TimerServes => (tx_backoff_pending # Off ~> tx_backoff_pending = Off)
=============================================================================
