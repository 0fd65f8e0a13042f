-------------------------------- MODULE Sleep --------------------------------
(***************************************************************************)
(* Sleep and wake-up of the radio (DLPS builds): the two alarms of         *)
(* alarm.c, the wake-up time BEE_SleepProcess gives to the power manager,  *)
(* and what mac_report_pm_wakeup does when the MAC comes back.             *)
(*                                                                         *)
(* Times are relative: an armed time is the number of ticks left until it, *)
(* and -1 once it has passed.  Off is the value 0 of the code: nothing is  *)
(* armed.  The CSMA backoff is left out: HandleTxBackoffDelay starts one   *)
(* only while rxOnWhenIdle keeps the radio awake.                          *)
(***************************************************************************)
EXTENDS Integers

CONSTANTS
  Off,
  MaxDelay,               \* bound on the delay of an alarm
  MaxEvents,              \* events of one kind in the driver queue: this many or more
  kMinScheduleAdvanceUs,
  kMinSleepPeriodUs,
  MilliSlack,             \* an alarm of ms kind is ignored unless this much earlier
  HalfBtClock             \* the longest time the power manager can be given

Kinds == {"us", "ms"}

ASSUME SleepAssumption ==
  /\ MaxDelay \in Nat
  /\ MaxEvents \in Nat \ {0}
  /\ kMinScheduleAdvanceUs \in Nat
  /\ kMinSleepPeriodUs \in Nat \ {0}
  /\ MilliSlack \in Nat
  /\ HalfBtClock \in Nat /\ HalfBtClock >= kMinSleepPeriodUs
  /\ Off \notin Int

VARIABLES
  alarm,              \* micro_alarm_us and milli_alarm_us
  timer,              \* the compare values of MAC_BT_TIMER1 and MAC_BT_TIMER0
  events,             \* ALARM_US and ALARM_MS events in the driver queue
  wakeupEvents,       \* WAKEUP events in the driver queue
  stayAwake,          \* is a bit of sStayAwake set?
  power_mode,
  wakeup_time_us,
  directExit,         \* is exit_callback direct_exit_pan0, not zbpm_exit_pan0?
  app_wakeup_reason,  \* "NONE", "SLEEP_TMO" or a button
  mac                 \* "active", "asleep", or "waking" until exit_callback

queue == <<events, wakeupEvents>>
padapter == <<power_mode, wakeup_time_us, directExit>>
vars == <<alarm, timer, queue, stayAwake, padapter, app_wakeup_reason, mac>>

Times == -1 .. MaxDelay

\* The driver is up and BEE_SleepProcess has run once, with no alarm armed.
Init ==
  /\ alarm = [k \in Kinds |-> Off]
  /\ timer = [k \in Kinds |-> Off]
  /\ events = [k \in Kinds |-> 0]
  /\ wakeupEvents = 0
  /\ stayAwake = TRUE
  /\ power_mode = "DEEP_SLEEP"
  /\ wakeup_time_us = HalfBtClock
  /\ directExit = TRUE
  /\ app_wakeup_reason = "NONE"
  /\ mac = "active"

Later(t, least) == IF t = Off \/ t = least THEN t ELSE t - 1

More(n) == IF n = MaxEvents THEN n ELSE n + 1
Fewer(n) == IF n = MaxEvents THEN {n - 1, n} ELSE {n - 1}

\* A time that is reached stays so until it is served.
Tick ==
  /\ alarm' = [k \in Kinds |-> Later(alarm[k], -1)]
  /\ timer' = [k \in Kinds |-> Later(timer[k], 0)]
  /\ wakeup_time_us' = Later(wakeup_time_us, 0)
  /\ UNCHANGED <<queue, stayAwake, power_mode, directExit, app_wakeup_reason, mac>>

-----------------------------------------------------------------------------
(* BEE_SleepProcess.                                                       *)

Ahead(t) == t # Off /\ t > 0

\* Bug to catch: the comparison is turned, and the later alarm decides.
MilliIfMuchLater(a) ==
  Ahead(a["ms"]) /\ (~Ahead(a["us"]) \/ a["ms"] > a["us"] + MilliSlack)

\* "use milli alarm instead"
UseMilli(a) ==
  Ahead(a["ms"]) /\ (~Ahead(a["us"]) \/ a["us"] > a["ms"] + MilliSlack)

NoneAhead(a) == \A k \in Kinds : ~Ahead(a[k])

Diff(a) == IF UseMilli(a) THEN a["ms"] ELSE a["us"]

TooSoon(a) == ~NoneAhead(a) /\ Diff(a) < kMinSleepPeriodUs

WakeupTime(a) ==
  IF NoneAhead(a) \/ Diff(a) > HalfBtClock THEN HalfBtClock ELSE Diff(a)

\* The power manager is told when to wake the MAC for the alarms a, or to stay
\* awake for them; a MAC that is asleep is woken first.
BEE_SleepProcess(a) ==
  /\ mac' = IF mac = "asleep" THEN "waking" ELSE mac
  /\ \/ /\ TooSoon(a)
        /\ power_mode' = "ACTIVE"
        /\ UNCHANGED <<wakeup_time_us, directExit>>
     \/ /\ ~TooSoon(a)
        /\ power_mode' = "DEEP_SLEEP"
        /\ wakeup_time_us' = WakeupTime(a)
        /\ directExit' = NoneAhead(a)

-----------------------------------------------------------------------------
(* The task.                                                               *)

\* Bug to catch: an alarm that is too close is armed and forgotten.
TooCloseForgotten(k, target) ==
  IF target > kMinScheduleAdvanceUs
  THEN /\ timer' = [timer EXCEPT ![k] = target]
       /\ BEE_SleepProcess([alarm EXCEPT ![k] = target])
       /\ UNCHANGED events
  ELSE UNCHANGED <<timer, events, mac, padapter>>

ScheduleOrFire(k, target) ==
  IF target > kMinScheduleAdvanceUs
  THEN /\ timer' = [timer EXCEPT ![k] = target]
       /\ BEE_SleepProcess([alarm EXCEPT ![k] = target])
       /\ UNCHANGED events
  ELSE /\ events' = [events EXCEPT ![k] = More(@)]
       /\ UNCHANGED <<timer, mac, padapter>>

\* otPlatAlarmMicroStartAt and otPlatAlarmMilliStartAt
otPlatAlarmStartAt(k, target) ==
  /\ alarm' = [alarm EXCEPT ![k] = target]
  /\ ScheduleOrFire(k, target)
  /\ UNCHANGED <<wakeupEvents, stayAwake, app_wakeup_reason>>

\* Bug to catch: stopping an alarm leaves the power manager as it is.
StopKeepingPower(k) ==
  /\ alarm' = [alarm EXCEPT ![k] = Off]
  /\ UNCHANGED <<timer, queue, stayAwake, padapter, app_wakeup_reason, mac>>

\* otPlatAlarmMicroStop and otPlatAlarmMilliStop
otPlatAlarmStop(k) ==
  /\ alarm' = [alarm EXCEPT ![k] = Off]
  /\ BEE_SleepProcess([alarm EXCEPT ![k] = Off])
  /\ UNCHANGED <<timer, queue, stayAwake, app_wakeup_reason>>

\* BEE_AlarmMicroProcess and BEE_AlarmMilliProcess; OpenThread answers
\* otPlatAlarmMicroFired with the alarm for its next timer, or with none.
BEE_AlarmProcess(k) ==
  /\ events[k] > 0
  /\ \/ /\ alarm' = [alarm EXCEPT ![k] = Off]
        /\ \E n \in Fewer(events[k]) : events' = [events EXCEPT ![k] = n]
        /\ BEE_SleepProcess([alarm EXCEPT ![k] = Off])
        /\ UNCHANGED timer
     \/ \E target \in Times :
          /\ target > kMinScheduleAdvanceUs
          /\ alarm' = [alarm EXCEPT ![k] = target]
          /\ timer' = [timer EXCEPT ![k] = target]
          /\ \E n \in Fewer(events[k]) : events' = [events EXCEPT ![k] = n]
          /\ BEE_SleepProcess([alarm EXCEPT ![k] = target])
     \/ \E target \in Times :
          /\ target <= kMinScheduleAdvanceUs
          /\ alarm' = [alarm EXCEPT ![k] = target]
          /\ UNCHANGED <<timer, events, mac, padapter>>
  /\ UNCHANGED <<wakeupEvents, stayAwake, app_wakeup_reason>>

\* otPlatRadioSetRxOnWhenIdle, otPlatRadioSleep, otPlatRadioReceiveAt and the
\* two ends of a transmission: a bit may change before BEE_SleepProcess.
SleepCall ==
  /\ stayAwake' \in BOOLEAN
  /\ BEE_SleepProcess(alarm)
  /\ UNCHANGED <<alarm, timer, queue, app_wakeup_reason>>

\* The handler of WAKEUP.  BEE_SleepDirect takes back appForceStayAwake.
BEE_WakeupProcess ==
  /\ wakeupEvents > 0
  /\ wakeupEvents' \in Fewer(wakeupEvents)
  /\ \/ /\ app_wakeup_reason # "NONE"
        /\ app_wakeup_reason' = "NONE"
        /\ UNCHANGED <<stayAwake, padapter, mac>>
     \/ /\ app_wakeup_reason = "NONE"
        /\ stayAwake' \in {stayAwake, FALSE}
        /\ BEE_SleepProcess(alarm)
        /\ UNCHANGED app_wakeup_reason
  /\ UNCHANGED <<alarm, timer, events>>

-----------------------------------------------------------------------------
(* Interrupts.                                                             *)

Armed(k) == alarm[k] # Off

\* btcmp1_handler and btcmp0_handler; an armed alarm is reported, due or not.
alarm_handler(k) ==
  /\ mac = "active"
  /\ timer[k] = 0
  /\ timer' = [timer EXCEPT ![k] = Off]
  /\ events' = IF Armed(k) THEN [events EXCEPT ![k] = More(@)] ELSE events
  /\ UNCHANGED <<alarm, wakeupEvents, stayAwake, padapter, app_wakeup_reason, mac>>

\* Acknowledgements, their timers and receive windows keep the radio awake or
\* let it go.
StayAwakeChanges ==
  /\ mac = "active"
  /\ stayAwake' = ~stayAwake
  /\ UNCHANGED <<alarm, timer, queue, padapter, app_wakeup_reason, mac>>

-----------------------------------------------------------------------------
(* The power manager.                                                      *)

\* mac_report_pm_check_result
MaySleep == ~stayAwake

\* The task sleeps and no interrupt is pending.
Idle ==
  /\ wakeupEvents = 0
  /\ \A k \in Kinds : events[k] = 0 /\ timer[k] # 0

\* The MAC's compare values do not survive.
EnterSleep ==
  /\ mac = "active"
  /\ Idle
  /\ MaySleep
  /\ power_mode = "DEEP_SLEEP"
  /\ wakeup_time_us > 0
  /\ mac' = "asleep"
  /\ timer' = [k \in Kinds |-> Off]
  /\ UNCHANGED <<alarm, queue, stayAwake, padapter, app_wakeup_reason>>

TimedWakeup ==
  /\ mac = "asleep"
  /\ wakeup_time_us = 0
  /\ mac' = "waking"
  /\ UNCHANGED <<alarm, timer, queue, stayAwake, padapter, app_wakeup_reason>>

\* System_Handler: a button wakes the system.
System_Handler ==
  /\ mac = "asleep"
  /\ mac' = "waking"
  /\ app_wakeup_reason' = "BUTTON"
  /\ UNCHANGED <<alarm, timer, queue, stayAwake, padapter>>

\* Bug to catch: only alarms that are due are reported.
ReportDue ==
  events' = [k \in Kinds |-> IF Armed(k) /\ alarm[k] <= 0 THEN More(events[k]) ELSE events[k]]

\* micro_handler and milli_handler in mac_report_pm_wakeup
ReportArmed == events' = [k \in Kinds |-> IF Armed(k) THEN More(events[k]) ELSE events[k]]

\* exit_callback, which has mac_report_pm_wakeup called
mac_report_pm_wakeup ==
  /\ mac = "waking"
  /\ mac' = "active"
  /\ app_wakeup_reason' = IF ~directExit /\ app_wakeup_reason = "NONE"
                          THEN "SLEEP_TMO" ELSE app_wakeup_reason
  /\ ReportArmed
  /\ wakeupEvents' = IF app_wakeup_reason' = "NONE" THEN More(wakeupEvents) ELSE wakeupEvents
  /\ UNCHANGED <<alarm, timer, stayAwake, padapter>>

Task ==
  \/ \E k \in Kinds, target \in Times : otPlatAlarmStartAt(k, target)
  \/ \E k \in Kinds : otPlatAlarmStop(k)
  \/ \E k \in Kinds : BEE_AlarmProcess(k)
  \/ SleepCall
  \/ BEE_WakeupProcess

Next ==
  \/ Tick
  \/ Task
  \/ \E k \in Kinds : alarm_handler(k)
  \/ StayAwakeChanges
  \/ EnterSleep
  \/ TimedWakeup
  \/ System_Handler
  \/ mac_report_pm_wakeup

Spec == Init /\ [][Next]_vars

\* Time passes, interrupts are served, the MAC wakes up when it was told to,
\* the task dispatches its events.
Fairness ==
  /\ WF_vars(Tick)
  /\ \A k \in Kinds : WF_vars(alarm_handler(k)) /\ WF_vars(BEE_AlarmProcess(k))
  /\ WF_vars(BEE_WakeupProcess)
  /\ WF_vars(TimedWakeup)
  /\ WF_vars(mac_report_pm_wakeup)

FairSpec == Spec /\ Fairness

-----------------------------------------------------------------------------
(* Properties.                                                             *)

TypeOK ==
  /\ alarm \in [Kinds -> Times \cup {Off}]
  /\ timer \in [Kinds -> 0 .. MaxDelay \cup {Off}]
  /\ events \in [Kinds -> 0 .. MaxEvents]
  /\ wakeupEvents \in 0 .. MaxEvents
  /\ stayAwake \in BOOLEAN
  /\ power_mode \in {"ACTIVE", "DEEP_SLEEP"}
  /\ wakeup_time_us \in 0 .. HalfBtClock
  /\ directExit \in BOOLEAN
  /\ app_wakeup_reason \in {"NONE", "SLEEP_TMO", "BUTTON"}
  /\ mac \in {"active", "asleep", "waking"}

\* While the MAC is up, an armed alarm has its event in the queue or an
\* interrupt no later than its time; sleep and wake-up lose none.
AlarmServed ==
  mac = "active" =>
    \A k \in Kinds : Armed(k) =>
      events[k] > 0 \/ (timer[k] # Off /\ (timer[k] = 0 \/ timer[k] <= alarm[k]))

\* The MAC does not sleep through an alarm: it is woken no later than the
\* alarm, an ms alarm up to the slack that BEE_SleepProcess allows itself.
Slack(k) == IF k = "ms" THEN MilliSlack ELSE 0

WakesInTime ==
  mac = "asleep" =>
    \A k \in Kinds : Armed(k) /\ events[k] = 0 =>
      wakeup_time_us = 0 \/ wakeup_time_us <= alarm[k] + Slack(k)

\* The power manager is told to stay awake only for the sake of an alarm that
\* is still armed, whose event then calls BEE_SleepProcess again.
AwakeForAlarm ==
  power_mode = "ACTIVE" => \E k \in Kinds : Armed(k) \/ events[k] > 0

\* An alarm whose time has passed fires, awake or asleep, unless it is stopped
\* or moved.
AlarmFires == \A k \in Kinds : alarm[k] = -1 ~> (alarm[k] # -1 \/ events[k] > 0)
=============================================================================
