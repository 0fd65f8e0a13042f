----------------------------- MODULE Sleep_proof -----------------------------
(***************************************************************************)
(* Proofs about Sleep, for all delays, slacks and minimum periods.         *)
(*                                                                         *)
(* AlarmServed and AwakeForAlarm are inductive given the types.            *)
(* WakesInTime needs WakeSet, which says while the MAC is still up that    *)
(* the wake-up time suits every alarm except those whose time has come:    *)
(* for these AlarmServed has an interrupt pending, so the MAC stays up.    *)
(***************************************************************************)
EXTENDS Sleep, TLAPS

AlarmTimes == Times \cup {Off}

InTime(k) ==
  \/ events[k] > 0
  \/ wakeup_time_us = 0
  \/ wakeup_time_us <= alarm[k] + Slack(k)

WakeSet ==
  power_mode = "DEEP_SLEEP" =>
    \A k \in Kinds : Armed(k) => alarm[k] <= 0 \/ InTime(k)

SleepInv == TypeOK /\ AlarmServed /\ AwakeForAlarm /\ WakeSet /\ WakesInTime

\* What BEE_SleepProcess tells the power manager suits every alarm ahead.
LEMMA ProcessInTime ==
  ASSUME NEW a \in [Kinds -> AlarmTimes], BEE_SleepProcess(a),
         power_mode' = "DEEP_SLEEP",
         NEW k \in Kinds, a[k] # Off, a[k] > 0
  PROVE  wakeup_time_us' <= a[k] + Slack(k)
<1>1. wakeup_time_us' = WakeupTime(a)
  BY DEF BEE_SleepProcess
<1>2. a["us"] \in AlarmTimes /\ a["ms"] \in AlarmTimes /\ k \in {"us", "ms"}
  BY DEF Kinds
<1>3. ~NoneAhead(a)
  BY <1>2 DEF NoneAhead, Ahead
<1>4. WakeupTime(a) <= Diff(a)
  <2>1. Diff(a) \in Int
    BY <1>2, <1>3, SleepAssumption DEF Diff, UseMilli, Ahead, NoneAhead, Kinds, AlarmTimes, Times
  <2> QED
    BY <1>3, <2>1, SleepAssumption DEF WakeupTime
<1>5. Diff(a) <= a[k] + Slack(k)
  BY <1>2, SleepAssumption DEF Diff, UseMilli, Ahead, AlarmTimes, Times, Slack
<1>6. Diff(a) \in Int /\ WakeupTime(a) \in Int /\ a[k] + Slack(k) \in Int
  BY <1>2, <1>3, SleepAssumption
  DEF Diff, UseMilli, Ahead, NoneAhead, Kinds, AlarmTimes, Times, WakeupTime, Slack
<1> QED
  BY <1>1, <1>4, <1>5, <1>6

\* It keeps the types.
LEMMA ProcessTypes ==
  ASSUME NEW a \in [Kinds -> AlarmTimes], TypeOK, BEE_SleepProcess(a)
  PROVE  /\ power_mode' \in {"ACTIVE", "DEEP_SLEEP"}
         /\ wakeup_time_us' \in 0 .. HalfBtClock
         /\ directExit' \in BOOLEAN
         /\ mac' \in {"active", "asleep", "waking"}
         /\ mac' # "asleep"
         /\ mac' = "active" => mac = "active"
<1>1. mac' \in {"active", "waking"} /\ (mac' = "active" => mac = "active")
  BY DEF BEE_SleepProcess, TypeOK
<1>2. directExit' \in BOOLEAN
  BY DEF BEE_SleepProcess, TypeOK, NoneAhead
<1>3. power_mode' \in {"ACTIVE", "DEEP_SLEEP"}
  BY DEF BEE_SleepProcess
<1>4. wakeup_time_us' \in 0 .. HalfBtClock
  <2>1. CASE TooSoon(a)
    BY <2>1 DEF BEE_SleepProcess, TypeOK
  <2>2. CASE ~TooSoon(a)
    <3>1. wakeup_time_us' = WakeupTime(a)
      BY <2>2 DEF BEE_SleepProcess
    <3>2. CASE NoneAhead(a)
      BY <3>1, <3>2, SleepAssumption DEF WakeupTime
    <3>3. CASE ~NoneAhead(a)
      <4>1. Diff(a) \in Int
        BY <3>3, SleepAssumption DEF Diff, UseMilli, Ahead, NoneAhead, Kinds, AlarmTimes, Times
      <4>2. Diff(a) >= kMinSleepPeriodUs
        BY <2>2, <3>3, <4>1, SleepAssumption DEF TooSoon
      <4> QED
        BY <3>1, <3>3, <4>1, <4>2, SleepAssumption DEF WakeupTime
    <3> QED
      BY <3>2, <3>3
  <2> QED
    BY <2>1, <2>2
<1> QED
  BY <1>1, <1>2, <1>3, <1>4

\* It asks to stay awake only for an alarm ahead.
LEMMA ProcessAwake ==
  ASSUME NEW a, BEE_SleepProcess(a), power_mode' = "ACTIVE"
  PROVE  \E k \in Kinds : a[k] # Off
BY DEF BEE_SleepProcess, TooSoon, NoneAhead, Ahead

\* So the three invariants that speak of the power manager hold after it.
LEMMA AfterProcess ==
  ASSUME TypeOK, alarm' \in [Kinds -> AlarmTimes], BEE_SleepProcess(alarm')
  PROVE  AwakeForAlarm' /\ WakeSet' /\ WakesInTime'
<1>1. AwakeForAlarm'
  <2> SUFFICES ASSUME power_mode' = "ACTIVE" PROVE \E k \in Kinds : alarm'[k] # Off
    BY DEF AwakeForAlarm, Armed
  <2> QED
    BY ProcessAwake
<1>2. WakeSet'
  <2> SUFFICES ASSUME power_mode' = "DEEP_SLEEP", NEW k \in Kinds, alarm'[k] # Off
               PROVE  alarm'[k] <= 0 \/ wakeup_time_us' <= alarm'[k] + Slack(k)
    BY DEF WakeSet, InTime, Armed, Slack
  <2>1. alarm'[k] \in Int
    BY DEF AlarmTimes, Times
  <2>2. CASE alarm'[k] > 0
    BY <2>2, ProcessInTime
  <2> QED
    BY <2>1, <2>2
<1>3. WakesInTime'
  BY ProcessTypes DEF WakesInTime
<1> QED
  BY <1>1, <1>2, <1>3

-----------------------------------------------------------------------------
(* The invariant.                                                          *)

LEMMA InitInv == Init => SleepInv
BY SleepAssumption
DEF Init, SleepInv, TypeOK, AlarmServed, AwakeForAlarm, WakeSet, WakesInTime,
    Armed, Kinds, Times, Slack

LEMMA CountTypes ==
  ASSUME NEW n \in 0 .. MaxEvents
  PROVE  /\ More(n) \in 0 .. MaxEvents
         /\ More(n) > 0
         /\ n > 0 => \A f \in Fewer(n) : f \in 0 .. MaxEvents
BY SleepAssumption DEF More, Fewer

\* Each clause of SleepInv is kept by each action.  The type of alarm comes
\* first: AfterProcess needs it.
LEMMA TypeStep == ASSUME SleepInv, [Next]_vars PROVE TypeOK'
<1> USE DEF SleepInv, AlarmTimes, queue, padapter
<1>1. CASE Tick
  <2>1. \A t \in AlarmTimes : Later(t, -1) \in AlarmTimes
    BY SleepAssumption DEF Later, Times
  <2>2. \A t \in 0 .. MaxDelay \cup {Off} : Later(t, 0) \in 0 .. MaxDelay \cup {Off}
    BY SleepAssumption DEF Later
  <2>3. Later(wakeup_time_us, 0) \in 0 .. HalfBtClock
    BY SleepAssumption DEF Later, TypeOK
  <2>4. alarm' \in [Kinds -> AlarmTimes] /\ timer' \in [Kinds -> 0 .. MaxDelay \cup {Off}]
    BY <1>1, <2>1, <2>2 DEF Tick, TypeOK
  <2> QED
    BY <1>1, <2>3, <2>4 DEF Tick, TypeOK
<1>2. ASSUME NEW k \in Kinds, NEW target \in Times, otPlatAlarmStartAt(k, target)
      PROVE  TypeOK'
  <2>1. alarm' = [alarm EXCEPT ![k] = target] /\ alarm' \in [Kinds -> AlarmTimes]
    BY <1>2 DEF otPlatAlarmStartAt, TypeOK
  <2>2. CASE target > kMinScheduleAdvanceUs
    <3>1. BEE_SleepProcess(alarm') /\ timer' = [timer EXCEPT ![k] = target] /\ events' = events
      BY <1>2, <2>1, <2>2 DEF otPlatAlarmStartAt, ScheduleOrFire
    <3>2. timer' \in [Kinds -> 0 .. MaxDelay \cup {Off}]
      BY <2>2, <3>1, SleepAssumption DEF TypeOK, Times
    <3> QED
      BY <1>2, <2>1, <3>1, <3>2, ProcessTypes DEF otPlatAlarmStartAt, TypeOK
  <2>3. CASE ~(target > kMinScheduleAdvanceUs)
    <3>1. events' \in [Kinds -> 0 .. MaxEvents]
      BY <1>2, <2>3, CountTypes DEF otPlatAlarmStartAt, ScheduleOrFire, TypeOK
    <3> QED
      BY <1>2, <2>1, <2>3, <3>1 DEF otPlatAlarmStartAt, ScheduleOrFire, TypeOK
  <2> QED
    BY <2>2, <2>3
<1>3. ASSUME NEW k \in Kinds, otPlatAlarmStop(k)
      PROVE  TypeOK'
  <2>1. alarm' = [alarm EXCEPT ![k] = Off] /\ alarm' \in [Kinds -> AlarmTimes]
    BY <1>3 DEF otPlatAlarmStop, TypeOK
  <2> QED
    BY <1>3, <2>1, ProcessTypes DEF otPlatAlarmStop, TypeOK
<1>4. ASSUME NEW k \in Kinds, BEE_AlarmProcess(k)
      PROVE  TypeOK'
  <2>1. events' \in [Kinds -> 0 .. MaxEvents]
    <3>1. events[k] \in 0 .. MaxEvents /\ events[k] > 0
      BY <1>4 DEF BEE_AlarmProcess, TypeOK
    <3>2. \A n \in Fewer(events[k]) : n \in 0 .. MaxEvents
      BY <3>1, CountTypes
    <3> QED
      BY <1>4, <3>2 DEF BEE_AlarmProcess, TypeOK
  <2>2. UNCHANGED <<wakeupEvents, stayAwake, app_wakeup_reason>>
    BY <1>4 DEF BEE_AlarmProcess
  <2>3. CASE /\ alarm' = [alarm EXCEPT ![k] = Off]
             /\ BEE_SleepProcess([alarm EXCEPT ![k] = Off])
             /\ UNCHANGED timer
    <3>1. alarm' \in [Kinds -> AlarmTimes]
      BY <2>3 DEF TypeOK
    <3> QED
      BY <2>1, <2>2, <2>3, <3>1, ProcessTypes DEF TypeOK
  <2>4. ASSUME NEW target \in Times, target > kMinScheduleAdvanceUs,
               alarm' = [alarm EXCEPT ![k] = target],
               timer' = [timer EXCEPT ![k] = target],
               BEE_SleepProcess([alarm EXCEPT ![k] = target])
        PROVE  TypeOK'
    <3>1. alarm' \in [Kinds -> AlarmTimes]
      BY <2>4 DEF TypeOK
    <3>2. timer' \in [Kinds -> 0 .. MaxDelay \cup {Off}]
      BY <2>4, SleepAssumption DEF TypeOK, Times
    <3> QED
      BY <2>1, <2>2, <2>4, <3>1, <3>2, ProcessTypes DEF TypeOK
  <2>5. ASSUME NEW target \in Times,
               alarm' = [alarm EXCEPT ![k] = target],
               UNCHANGED <<timer, mac, padapter>>
        PROVE  TypeOK'
    BY <2>1, <2>2, <2>5 DEF TypeOK
  <2> QED
    BY <1>4, <2>3, <2>4, <2>5 DEF BEE_AlarmProcess
<1>5. CASE SleepCall
  BY <1>5, ProcessTypes DEF SleepCall, TypeOK
<1>6. CASE BEE_WakeupProcess
  <2>1. wakeupEvents' \in 0 .. MaxEvents
    <3>1. wakeupEvents \in 0 .. MaxEvents /\ wakeupEvents > 0
      BY <1>6 DEF BEE_WakeupProcess, TypeOK
    <3> QED
      BY <1>6, <3>1, CountTypes DEF BEE_WakeupProcess
  <2>2. CASE app_wakeup_reason # "NONE"
    BY <1>6, <2>1, <2>2 DEF BEE_WakeupProcess, TypeOK
  <2>3. CASE app_wakeup_reason = "NONE"
    <3>1. BEE_SleepProcess(alarm) /\ stayAwake' \in {stayAwake, FALSE}
      BY <1>6, <2>3 DEF BEE_WakeupProcess
    <3>2. stayAwake' \in BOOLEAN
      BY <3>1 DEF TypeOK
    <3> QED
      BY <1>6, <2>1, <2>3, <3>1, <3>2, ProcessTypes DEF BEE_WakeupProcess, TypeOK
  <2> QED
    BY <2>2, <2>3
<1>7. ASSUME NEW k \in Kinds, alarm_handler(k)
      PROVE  TypeOK'
  <2>1. events' \in [Kinds -> 0 .. MaxEvents]
    BY <1>7, CountTypes DEF alarm_handler, TypeOK
  <2> QED
    BY <1>7, <2>1 DEF alarm_handler, TypeOK
<1>8. CASE StayAwakeChanges
  <2>1. stayAwake' \in BOOLEAN
    BY <1>8 DEF StayAwakeChanges
  <2> QED
    BY <1>8, <2>1 DEF StayAwakeChanges, TypeOK
<1>9. CASE EnterSleep
  BY <1>9 DEF EnterSleep, TypeOK
<1>10. CASE TimedWakeup
  BY <1>10 DEF TimedWakeup, TypeOK
<1>11. CASE System_Handler
  BY <1>11 DEF System_Handler, TypeOK
<1>12. CASE mac_report_pm_wakeup
  <2>1. events' \in [Kinds -> 0 .. MaxEvents]
    BY <1>12, CountTypes DEF mac_report_pm_wakeup, ReportArmed, TypeOK
  <2>2. wakeupEvents' \in 0 .. MaxEvents
    BY <1>12, CountTypes DEF mac_report_pm_wakeup, TypeOK
  <2> QED
    BY <1>12, <2>1, <2>2 DEF mac_report_pm_wakeup, TypeOK
<1>13. CASE UNCHANGED vars
  BY <1>13 DEF vars, TypeOK
<1> QED
  BY <1>1, <1>2, <1>3, <1>4, <1>5, <1>6, <1>7, <1>8, <1>9, <1>10, <1>11, <1>12, <1>13
  DEF Next, Task

\* An armed alarm keeps its event or its interrupt: whoever takes one away
\* leaves the other or disarms it, and the way back from sleep queues all.
LEMMA ServedStep == ASSUME SleepInv, [Next]_vars PROVE AlarmServed'
<1> USE DEF SleepInv
<1>0. SUFFICES ASSUME mac' = "active", NEW j \in Kinds, alarm'[j] # Off
               PROVE  \/ events'[j] > 0
                      \/ timer'[j] # Off /\ (timer'[j] = 0 \/ timer'[j] <= alarm'[j])
  BY DEF AlarmServed, Armed
<1>a. /\ alarm[j] \in AlarmTimes
      /\ timer[j] \in 0 .. MaxDelay \cup {Off}
      /\ events[j] \in 0 .. MaxEvents
  BY DEF TypeOK, AlarmTimes
<1>b. mac = "active" /\ alarm[j] # Off =>
        events[j] > 0 \/ (timer[j] # Off /\ (timer[j] = 0 \/ timer[j] <= alarm[j]))
  BY DEF AlarmServed, Armed
<1>1. CASE Tick
  <2>1. /\ alarm'[j] = Later(alarm[j], -1)
        /\ timer'[j] = Later(timer[j], 0)
        /\ mac = "active" /\ events' = events
    BY <1>0, <1>1 DEF Tick, queue
  <2>2. alarm[j] # Off
    BY <1>0, <2>1 DEF Later
  <2>3. CASE events[j] > 0
    BY <2>1, <2>3
  <2>4. CASE timer[j] # Off /\ (timer[j] = 0 \/ timer[j] <= alarm[j])
    BY <1>a, <2>1, <2>2, <2>4, SleepAssumption DEF Later, AlarmTimes, Times
  <2> QED
    BY <1>b, <2>1, <2>2, <2>3, <2>4
<1>2. ASSUME NEW k \in Kinds, NEW target \in Times, otPlatAlarmStartAt(k, target)
      PROVE  events'[j] > 0 \/ (timer'[j] # Off /\ (timer'[j] = 0 \/ timer'[j] <= alarm'[j]))
  <2>1. alarm' = [alarm EXCEPT ![k] = target]
    BY <1>2 DEF otPlatAlarmStartAt
  <2>2. CASE target > kMinScheduleAdvanceUs
    <3>1. /\ timer' = [timer EXCEPT ![k] = target] /\ events' = events
          /\ BEE_SleepProcess([alarm EXCEPT ![k] = target])
      BY <1>2, <2>2 DEF otPlatAlarmStartAt, ScheduleOrFire
    <3>2. mac = "active"
      BY <1>0, <3>1 DEF BEE_SleepProcess
    <3>3. CASE j = k
      BY <2>1, <3>1, <3>3, SleepAssumption DEF TypeOK, Times
    <3>4. CASE j # k
      BY <1>0, <1>b, <2>1, <3>1, <3>2, <3>4 DEF TypeOK
    <3> QED
      BY <3>3, <3>4
  <2>3. CASE ~(target > kMinScheduleAdvanceUs)
    <3>1. /\ events' = [events EXCEPT ![k] = More(@)] /\ timer' = timer /\ mac = "active"
      BY <1>0, <1>2, <2>3 DEF otPlatAlarmStartAt, ScheduleOrFire
    <3>2. CASE j = k
      BY <1>a, <3>1, <3>2, CountTypes DEF TypeOK
    <3>3. CASE j # k
      BY <1>0, <1>b, <2>1, <3>1, <3>3 DEF TypeOK
    <3> QED
      BY <3>2, <3>3
  <2> QED
    BY <2>2, <2>3
<1>3. ASSUME NEW k \in Kinds, otPlatAlarmStop(k)
      PROVE  events'[j] > 0 \/ (timer'[j] # Off /\ (timer'[j] = 0 \/ timer'[j] <= alarm'[j]))
  <2>1. /\ alarm' = [alarm EXCEPT ![k] = Off] /\ UNCHANGED <<timer, events>>
        /\ BEE_SleepProcess([alarm EXCEPT ![k] = Off])
    BY <1>3 DEF otPlatAlarmStop, queue
  <2>2. mac = "active"
    BY <1>0, <2>1 DEF BEE_SleepProcess
  <2>3. j # k /\ alarm'[j] = alarm[j]
    BY <1>0, <2>1 DEF TypeOK
  <2> QED
    BY <1>0, <1>b, <2>1, <2>2, <2>3
<1>4. ASSUME NEW k \in Kinds, BEE_AlarmProcess(k)
      PROVE  events'[j] > 0 \/ (timer'[j] # Off /\ (timer'[j] = 0 \/ timer'[j] <= alarm'[j]))
  <2>1. CASE /\ alarm' = [alarm EXCEPT ![k] = Off]
             /\ \E n \in Fewer(events[k]) : events' = [events EXCEPT ![k] = n]
             /\ BEE_SleepProcess([alarm EXCEPT ![k] = Off])
             /\ UNCHANGED timer
    <3>1. mac = "active"
      BY <1>0, <2>1 DEF BEE_SleepProcess
    <3>2. j # k /\ alarm'[j] = alarm[j]
      BY <1>0, <2>1 DEF TypeOK
    <3>3. events'[j] = events[j]
      BY <2>1, <3>2 DEF TypeOK
    <3> QED
      BY <1>0, <1>b, <2>1, <3>1, <3>2, <3>3
  <2>2. ASSUME NEW target \in Times, target > kMinScheduleAdvanceUs,
               alarm' = [alarm EXCEPT ![k] = target],
               timer' = [timer EXCEPT ![k] = target],
               \E n \in Fewer(events[k]) : events' = [events EXCEPT ![k] = n],
               BEE_SleepProcess([alarm EXCEPT ![k] = target])
        PROVE  events'[j] > 0 \/ (timer'[j] # Off /\ (timer'[j] = 0 \/ timer'[j] <= alarm'[j]))
    <3>1. mac = "active"
      BY <1>0, <2>2 DEF BEE_SleepProcess
    <3>2. CASE j = k
      BY <2>2, <3>2, SleepAssumption DEF TypeOK, Times
    <3>3. CASE j # k
      <4>1. alarm'[j] = alarm[j] /\ timer'[j] = timer[j] /\ events'[j] = events[j]
        BY <2>2, <3>3 DEF TypeOK
      <4> QED
        BY <1>0, <1>b, <3>1, <4>1
    <3> QED
      BY <3>2, <3>3
  <2>3. ASSUME NEW target \in Times,
               alarm' = [alarm EXCEPT ![k] = target],
               UNCHANGED <<timer, events, mac, padapter>>
        PROVE  events'[j] > 0 \/ (timer'[j] # Off /\ (timer'[j] = 0 \/ timer'[j] <= alarm'[j]))
    <3>1. CASE j = k
      BY <1>4, <2>3, <3>1 DEF BEE_AlarmProcess
    <3>2. CASE j # k
      BY <1>0, <1>b, <2>3, <3>2 DEF TypeOK
    <3> QED
      BY <3>1, <3>2
  <2> QED
    BY <1>4, <2>1, <2>2, <2>3 DEF BEE_AlarmProcess
<1>5. CASE SleepCall
  <2>1. mac = "active" /\ UNCHANGED <<alarm, timer, events>>
    BY <1>0, <1>5 DEF SleepCall, BEE_SleepProcess, queue
  <2> QED
    BY <1>0, <1>b, <2>1
<1>6. CASE BEE_WakeupProcess
  <2>1. mac = "active" /\ UNCHANGED <<alarm, timer, events>>
    BY <1>0, <1>6 DEF BEE_WakeupProcess, BEE_SleepProcess
  <2> QED
    BY <1>0, <1>b, <2>1
<1>7. ASSUME NEW k \in Kinds, alarm_handler(k)
      PROVE  events'[j] > 0 \/ (timer'[j] # Off /\ (timer'[j] = 0 \/ timer'[j] <= alarm'[j]))
  <2>1. alarm' = alarm /\ mac = "active" /\ timer' = [timer EXCEPT ![k] = Off]
    BY <1>7 DEF alarm_handler
  <2>2. CASE j = k
    <3>1. events' = [events EXCEPT ![k] = More(@)]
      BY <1>0, <1>7, <2>1, <2>2 DEF alarm_handler, Armed
    <3> QED
      BY <1>a, <2>2, <3>1, CountTypes DEF TypeOK
  <2>3. CASE j # k
    <3>1. events'[j] = events[j] /\ timer'[j] = timer[j]
      BY <1>7, <2>1, <2>3 DEF alarm_handler, TypeOK
    <3> QED
      BY <1>0, <1>b, <2>1, <3>1
  <2> QED
    BY <2>2, <2>3
<1>8. CASE StayAwakeChanges
  BY <1>0, <1>b, <1>8 DEF StayAwakeChanges, queue
<1>9. CASE EnterSleep \/ TimedWakeup \/ System_Handler
  BY <1>0, <1>9 DEF EnterSleep, TimedWakeup, System_Handler
<1>10. CASE mac_report_pm_wakeup
  <2>1. events' = [k \in Kinds |-> IF Armed(k) THEN More(events[k]) ELSE events[k]] /\ alarm' = alarm
    BY <1>10 DEF mac_report_pm_wakeup, ReportArmed
  <2> QED
    BY <1>0, <1>a, <2>1, CountTypes DEF Armed
<1>11. CASE UNCHANGED vars
  BY <1>0, <1>b, <1>11 DEF vars, queue
<1> QED
  BY <1>1, <1>2, <1>3, <1>4, <1>5, <1>6, <1>7, <1>8, <1>9, <1>10, <1>11 DEF Next, Task

PowerInv == AwakeForAlarm /\ WakeSet /\ WakesInTime

\* What the power manager was told stays good while only alarms with an event
\* change and the MAC does not go to sleep.
LEMMA PowerKept ==
  ASSUME SleepInv, UNCHANGED padapter,
         mac' = "asleep" => mac = "asleep",
         \A k \in Kinds : events'[k] > 0 \/ (events'[k] = events[k] /\ alarm'[k] = alarm[k])
  PROVE  PowerInv'
<1>1. AwakeForAlarm'
  BY DEF SleepInv, AwakeForAlarm, Armed, padapter
<1>2. WakeSet'
  BY DEF SleepInv, WakeSet, InTime, Armed, Slack, padapter
<1>3. WakesInTime'
  <2> SUFFICES ASSUME mac' = "asleep", NEW k \in Kinds, alarm'[k] # Off, events'[k] = 0
               PROVE  wakeup_time_us' = 0 \/ wakeup_time_us' <= alarm'[k] + Slack(k)
    BY DEF WakesInTime, Armed, Slack
  <2> QED
    BY DEF SleepInv, WakesInTime, Armed, Slack, padapter
<1> QED
  BY <1>1, <1>2, <1>3 DEF PowerInv

LEMMA PowerStep == ASSUME SleepInv, [Next]_vars PROVE PowerInv'
<1>0. TypeOK /\ TypeOK' /\ alarm' \in [Kinds -> AlarmTimes]
  BY TypeStep DEF TypeOK, AlarmTimes, SleepInv
<1>1. CASE Tick
  <2>1. \A k \in Kinds : alarm'[k] = Later(alarm[k], -1) /\ events'[k] = events[k]
    BY <1>1 DEF Tick, queue
  <2>2. wakeup_time_us' = Later(wakeup_time_us, 0) /\ power_mode' = power_mode /\ mac' = mac
    BY <1>1 DEF Tick
  <2>3. wakeup_time_us \in 0 .. HalfBtClock /\ wakeup_time_us # Off
    BY <1>0, SleepAssumption DEF TypeOK
  <2>4. wakeup_time_us' = IF wakeup_time_us = 0 THEN 0 ELSE wakeup_time_us - 1
    BY <2>2, <2>3 DEF Later
  <2>5. \A k \in Kinds : alarm'[k] # Off => alarm[k] # Off
    BY <2>1 DEF Later
  <2>6. \A k \in Kinds : alarm[k] # Off => alarm'[k] # Off
    <3>1. \A t \in AlarmTimes : t # Off => Later(t, -1) # Off
      BY SleepAssumption DEF Later, AlarmTimes, Times
    <3> QED
      BY <1>0, <2>1, <3>1 DEF TypeOK, AlarmTimes
  <2>7. \A k \in Kinds : alarm[k] # Off /\ InTime(k) => InTime(k)'
    <3> SUFFICES ASSUME NEW k \in Kinds, alarm[k] # Off, InTime(k) PROVE InTime(k)'
      OBVIOUS
    <3>1. alarm[k] \in Times /\ alarm'[k] = IF alarm[k] = -1 THEN -1 ELSE alarm[k] - 1
      BY <1>0, <2>1 DEF TypeOK, Later
    <3>2. Slack(k) \in Nat
      BY SleepAssumption DEF Slack
    <3>3. CASE events[k] > 0
      BY <2>1, <3>3 DEF InTime
    <3>4. CASE wakeup_time_us = 0
      BY <2>4, <3>4 DEF InTime
    <3>5. CASE wakeup_time_us <= alarm[k] + Slack(k) /\ wakeup_time_us # 0
      <4>1. wakeup_time_us' <= alarm'[k] + Slack(k)
        BY <2>3, <2>4, <3>1, <3>2, <3>5, SleepAssumption DEF Times
      <4> QED
        BY <4>1 DEF InTime, Slack
    <3> QED
      BY <3>3, <3>4, <3>5 DEF InTime
  <2>8. AwakeForAlarm'
    BY <2>1, <2>2, <2>6 DEF SleepInv, AwakeForAlarm, Armed
  <2>9. WakeSet'
    <3> SUFFICES ASSUME power_mode = "DEEP_SLEEP", NEW k \in Kinds, alarm[k] # Off
                 PROVE  alarm'[k] <= 0 \/ InTime(k)'
      BY <2>2, <2>5 DEF WakeSet, Armed
    <3>1. CASE InTime(k)
      BY <2>7, <3>1
    <3>2. CASE alarm[k] <= 0
      BY <1>0, <2>1, <3>2, SleepAssumption DEF TypeOK, Later, Times
    <3> QED
      BY <3>1, <3>2 DEF SleepInv, WakeSet, Armed
  <2>10. WakesInTime'
    <3> SUFFICES ASSUME mac = "asleep", NEW k \in Kinds, alarm[k] # Off, events[k] = 0
                 PROVE  wakeup_time_us' = 0 \/ wakeup_time_us' <= alarm'[k] + Slack(k)
      BY <2>1, <2>2, <2>5 DEF WakesInTime, Armed, Slack
    <3>1. InTime(k)
      BY DEF SleepInv, WakesInTime, Armed, InTime
    <3>2. ~(events'[k] > 0)
      BY <2>1
    <3> QED
      BY <2>7, <3>1, <3>2 DEF InTime, Slack
  <2> QED
    BY <2>8, <2>9, <2>10 DEF PowerInv
<1>2. CASE BEE_SleepProcess(alarm')
  BY <1>0, <1>2, AfterProcess DEF PowerInv
<1>3. ASSUME NEW k \in Kinds, NEW target \in Times, otPlatAlarmStartAt(k, target)
      PROVE  PowerInv'
  <2>1. alarm' = [alarm EXCEPT ![k] = target]
    BY <1>3 DEF otPlatAlarmStartAt
  <2>2. CASE target > kMinScheduleAdvanceUs
    BY <1>2, <1>3, <2>1, <2>2 DEF otPlatAlarmStartAt, ScheduleOrFire
  <2>3. CASE ~(target > kMinScheduleAdvanceUs)
    <3>1. events' = [events EXCEPT ![k] = More(@)] /\ UNCHANGED <<mac, padapter>>
      BY <1>3, <2>3 DEF otPlatAlarmStartAt, ScheduleOrFire
    <3>2. events[k] \in 0 .. MaxEvents
      BY <1>0 DEF TypeOK
    <3>3. events'[k] > 0
      BY <1>0, <3>1, <3>2, CountTypes DEF TypeOK
    <3> QED
      BY <1>0, <2>1, <3>1, <3>3, PowerKept DEF TypeOK
  <2> QED
    BY <2>2, <2>3
<1>4. ASSUME NEW k \in Kinds, otPlatAlarmStop(k)
      PROVE  PowerInv'
  BY <1>2, <1>4 DEF otPlatAlarmStop
<1>5. ASSUME NEW k \in Kinds, BEE_AlarmProcess(k)
      PROVE  PowerInv'
  <2>1. CASE BEE_SleepProcess(alarm')
    BY <1>2, <2>1
  <2>2. CASE ~BEE_SleepProcess(alarm')
    <3>1. /\ \E target \in Times : alarm' = [alarm EXCEPT ![k] = target]
          /\ UNCHANGED <<events, mac, padapter>>
          /\ events[k] > 0
      BY <1>5, <2>2 DEF BEE_AlarmProcess
    <3> QED
      BY <1>0, <3>1, PowerKept DEF TypeOK
  <2> QED
    BY <2>1, <2>2
<1>6. CASE SleepCall
  BY <1>2, <1>6 DEF SleepCall
<1>7. CASE BEE_WakeupProcess
  <2>1. alarm' = alarm /\ events' = events
    BY <1>7 DEF BEE_WakeupProcess
  <2>2. CASE app_wakeup_reason = "NONE"
    BY <1>2, <1>7, <2>1, <2>2 DEF BEE_WakeupProcess
  <2>3. CASE app_wakeup_reason # "NONE"
    BY <1>7, <2>1, <2>3, PowerKept DEF BEE_WakeupProcess
  <2> QED
    BY <2>2, <2>3
<1>8. ASSUME NEW k \in Kinds, alarm_handler(k)
      PROVE  PowerInv'
  <2>1. UNCHANGED <<alarm, padapter, mac>>
    BY <1>8 DEF alarm_handler
  <2>2. events[k] \in 0 .. MaxEvents
    BY <1>0 DEF TypeOK
  <2>3. CASE Armed(k)
    <3>1. events' = [events EXCEPT ![k] = More(@)]
      BY <1>8, <2>3 DEF alarm_handler
    <3>2. events'[k] > 0
      BY <1>0, <2>2, <3>1, CountTypes DEF TypeOK
    <3>3. \A j \in Kinds : j # k => events'[j] = events[j]
      BY <1>0, <3>1 DEF TypeOK
    <3> QED
      BY <2>1, <3>2, <3>3, PowerKept
  <2>4. CASE ~Armed(k)
    BY <1>8, <2>1, <2>4, PowerKept DEF alarm_handler
  <2> QED
    BY <2>3, <2>4
<1>9. CASE StayAwakeChanges
  BY <1>9, PowerKept DEF StayAwakeChanges, queue
<1>10. CASE EnterSleep
  <2>1. UNCHANGED <<alarm, events, padapter>> /\ mac = "active" /\ power_mode = "DEEP_SLEEP" /\ Idle
    BY <1>10 DEF EnterSleep, queue
  <2>2. AwakeForAlarm' /\ WakeSet'
    BY <2>1 DEF SleepInv, AwakeForAlarm, WakeSet, InTime, Armed, Slack, padapter
  <2>3. WakesInTime'
    <3> SUFFICES ASSUME NEW k \in Kinds, alarm[k] # Off, events[k] = 0
                 PROVE  wakeup_time_us = 0 \/ wakeup_time_us <= alarm[k] + Slack(k)
      BY <2>1 DEF WakesInTime, Armed, Slack, padapter
    <3>1. timer[k] # 0 /\ timer[k] \in 0 .. MaxDelay \cup {Off} /\ alarm[k] \in Times
      BY <1>0, <2>1 DEF Idle, TypeOK
    <3>2. timer[k] # Off /\ timer[k] <= alarm[k]
      BY <2>1, <3>1 DEF SleepInv, AlarmServed, Armed
    <3>3. ~(alarm[k] <= 0)
      BY <3>1, <3>2, SleepAssumption DEF Times
    <3> QED
      BY <2>1, <3>3 DEF SleepInv, WakeSet, InTime, Armed
  <2> QED
    BY <2>2, <2>3 DEF PowerInv
<1>11. CASE TimedWakeup \/ System_Handler
  BY <1>11, PowerKept DEF TimedWakeup, System_Handler, queue
<1>12. CASE mac_report_pm_wakeup
  <2>1. UNCHANGED <<alarm, padapter>> /\ mac' = "active"
    BY <1>12 DEF mac_report_pm_wakeup
  <2>2. \A k \in Kinds : events'[k] > 0 \/ events'[k] = events[k]
    <3>1. \A k \in Kinds : More(events[k]) > 0
      BY <1>0, CountTypes DEF TypeOK
    <3> QED
      BY <1>12, <3>1 DEF mac_report_pm_wakeup, ReportArmed
  <2> QED
    BY <2>1, <2>2, PowerKept
<1>13. CASE UNCHANGED vars
  BY <1>13, PowerKept DEF vars, queue
<1> QED
  BY <1>1, <1>3, <1>4, <1>5, <1>6, <1>7, <1>8, <1>9, <1>10, <1>11, <1>12, <1>13
  DEF Next, Task

LEMMA Inductive == SleepInv /\ [Next]_vars => SleepInv'
BY TypeStep, ServedStep, PowerStep DEF SleepInv, PowerInv

LEMMA SleepInvariant == Spec => []SleepInv
BY InitInv, Inductive, PTL DEF Spec

-----------------------------------------------------------------------------
(* The theorems.                                                           *)

\* alarm.c, radio.c BEE_SleepProcess: times, events and power settings keep
\* their ranges.
THEOREM TypeCorrect == Spec => []TypeOK
<1>1. SleepInv => TypeOK
  BY DEF SleepInv
<1> QED
  BY <1>1, SleepInvariant, PTL

\* radio.c:1537-1554, alarm.c:103-171: sleep and wake-up lose no alarm.
THEOREM NoAlarmLost == Spec => []AlarmServed
<1>1. SleepInv => AlarmServed
  BY DEF SleepInv
<1> QED
  BY <1>1, SleepInvariant, PTL

\* radio.c:1572-1729: whatever the order of calls and interrupts, the MAC does
\* not sleep through an alarm.
THEOREM NeverOversleeps == Spec => []WakesInTime
<1>1. SleepInv => WakesInTime
  BY DEF SleepInv
<1> QED
  BY <1>1, SleepInvariant, PTL

\* radio.c:1717-1728: the power manager is not kept awake for nothing.
THEOREM AwakeForReason == Spec => []AwakeForAlarm
<1>1. SleepInv => AwakeForAlarm
  BY DEF SleepInv
<1> QED
  BY <1>1, SleepInvariant, PTL
=============================================================================
