------------------------------ MODULE BtClock -------------------------------
(***************************************************************************)
(* The time of radio.c and alarm.c.  The hardware counts microseconds      *)
(* modulo MAX_BT_CLOCK_COUNTER; bt_clk_offset makes 64 bits of them.  The  *)
(* driver's interrupt of MAC_BT_TIMER3 advances the offset when the        *)
(* counter wraps; after a sleep zbpm_exit_pan0 or direct_exit_pan0 has to  *)
(* find out whether it did.  Received frames are stamped with the counter  *)
(* by the hardware and with the offset when the task reads them, and the   *)
(* CSL phase is computed from the lower 32 bits of the time.               *)
(***************************************************************************)
EXTENDS Integers

CONSTANTS
  MAX_BT_CLOCK_COUNTER,
  Width,        \* 2^32, the range of uint32_t
  CslPeriods,   \* sCslPeriod * OT_US_PER_TEN_SYMBOLS
  MaxTime       \* bound on the time

ASSUME BtClockAssumption ==
  /\ MAX_BT_CLOCK_COUNTER \in Nat /\ MAX_BT_CLOCK_COUNTER > 3
  /\ Width \in Nat \ {0}
  /\ \A period \in CslPeriods : period \in Nat \ {0} /\ 2 * period <= Width
  /\ \E period \in CslPeriods : \A other \in CslPeriods : other <= period
  /\ MaxTime \in Nat

VARIABLES
  elapsed,         \* the time since power-on
  btus,            \* the hardware counter
  bt_clk_offset,
  overflow,        \* is the interrupt of MAC_BT_TIMER3 pending?
  sleep,           \* "awake", "asleep", or "waking" until exit_callback
  enter_time_us, wakeupIn,
  rx,              \* the frame in the receive ring
  mTimestamp,      \* of the last frame that OpenThread was given, and that frame
  sample           \* sCslSampleTime before it is cut to 32 bits

clock == <<elapsed, btus, bt_clk_offset, overflow>>
sleepVars == <<sleep, enter_time_us, wakeupIn>>
clockVars == <<clock, sleepVars, rx, mTimestamp, sample>>

\* at: when the frame came; wrapped: did the counter wrap since then, or just before?
NoRx == [bt_time |-> 0, at |-> -1, wrapped |-> FALSE]

ClockInit ==
  /\ elapsed = 0 /\ btus = 0 /\ bt_clk_offset = 0
  /\ overflow = FALSE
  /\ sleep = "awake" /\ enter_time_us = 0 /\ wakeupIn = 0
  /\ rx = NoRx
  /\ mTimestamp = [value |-> 0, of |-> NoRx]
  /\ sample = 0

Wraps == btus + 1 = MAX_BT_CLOCK_COUNTER

\* Asleep, MAC_BT_TIMER3 does not interrupt; awake, its interrupt is served before
\* the counter wraps again.
Microsecond ==
  /\ elapsed < MaxTime
  /\ sleep # "waking" /\ (sleep = "asleep" => wakeupIn > 0)
  /\ Wraps => ~overflow
  /\ elapsed' = elapsed + 1
  /\ btus' = (btus + 1) % MAX_BT_CLOCK_COUNTER
  /\ overflow' = (overflow \/ (Wraps /\ sleep = "awake"))
  /\ wakeupIn' = IF sleep = "asleep" THEN wakeupIn - 1 ELSE wakeupIn
  /\ rx' = [rx EXCEPT !.wrapped = @ \/ (rx # NoRx /\ Wraps)]
  /\ UNCHANGED <<bt_clk_offset, sleep, enter_time_us, mTimestamp, sample>>

BtOverflow ==
  /\ overflow
  /\ bt_clk_offset' = bt_clk_offset + MAX_BT_CLOCK_COUNTER
  /\ overflow' = FALSE
  /\ UNCHANGED <<elapsed, btus, sleepVars, rx, mTimestamp, sample>>

otPlatTimeGet == bt_clk_offset + btus

-----------------------------------------------------------------------------
(* Sleep.                                                                  *)

\* Bug to catch: the time of the next alarm is given as it is.
Uncapped(diff) == diff

\* What BEE_SleepProcess gives to the power manager: half the counter's range at most.
Capped(diff) ==
  IF diff > (MAX_BT_CLOCK_COUNTER \div 2) - 1 THEN (MAX_BT_CLOCK_COUNTER \div 2) - 1 ELSE diff

\* The power manager sleeps when the task has nothing to do and no interrupt pends.
PowerManagerSleeps(diff) ==
  /\ sleep = "awake" /\ ~overflow /\ rx = NoRx
  /\ sleep' = "asleep"
  /\ enter_time_us' = btus
  /\ wakeupIn' = Capped(diff)
  /\ UNCHANGED <<clock, rx, mTimestamp, sample>>

\* At wakeup_time_us, or earlier for a button.
PowerManagerWakes ==
  /\ sleep = "asleep"
  /\ sleep' = "waking"
  /\ UNCHANGED <<clock, enter_time_us, wakeupIn, rx, mTimestamp, sample>>

\* zbpm_exit_pan0 and direct_exit_pan0
zbpm_exit_pan0 ==
  /\ sleep = "waking"
  /\ bt_clk_offset' = IF btus < enter_time_us
                      THEN bt_clk_offset + MAX_BT_CLOCK_COUNTER ELSE bt_clk_offset
  /\ sleep' = "awake"
  /\ wakeupIn' = 0
  /\ UNCHANGED <<elapsed, btus, overflow, enter_time_us, rx, mTimestamp, sample>>

-----------------------------------------------------------------------------
(* Received frames.                                                        *)

\* rxdone_handler keeps the counter the hardware gave the frame.
RxDone ==
  /\ sleep = "awake" /\ rx = NoRx
  /\ rx' = [bt_time |-> btus, at |-> elapsed, wrapped |-> overflow]
  /\ UNCHANGED <<clock, sleepVars, mTimestamp, sample>>

\* Bug to catch: the frame is given the time of its reading.
ReadFrameNow ==
  /\ rx # NoRx
  /\ mTimestamp' = [value |-> otPlatTimeGet, of |-> rx]
  /\ rx' = NoRx
  /\ UNCHANGED <<clock, sleepVars, sample>>

\* The offset is that of the moment.  When the counter wrapped in between it does not
\* belong to the frame's counter, and the frame is stamped a range too late.
readFrame ==
  /\ rx # NoRx
  /\ mTimestamp' = [value |-> bt_clk_offset + rx.bt_time, of |-> rx]
  /\ rx' = NoRx
  /\ UNCHANGED <<clock, sleepVars, sample>>

-----------------------------------------------------------------------------
(* CSL.                                                                    *)

\* OpenThread looks no further ahead than the longest period.
LongestPeriod == CHOOSE period \in CslPeriods : \A other \in CslPeriods : other <= period

NextSample == elapsed .. elapsed + LongestPeriod

otPlatRadioUpdateCslSampleTime(aCslSampleTime) ==
  /\ sample' = aCslSampleTime
  /\ UNCHANGED <<clock, sleepVars, rx, mTimestamp>>

\* Bug to catch: the difference is taken first, and wraps below zero.
CslPhaseOfDifference(period, phrTxTime) ==
  LET phr == IF phrTxTime = 0 THEN otPlatTimeGet % Width ELSE phrTxTime
  IN (((sample % Width) - phr) % Width) % period

\* getCslPhase before the division by OT_US_PER_TEN_SYMBOLS; phrTxTime has 32 bits.
getCslPhase(period, phrTxTime) ==
  LET phr == IF phrTxTime = 0 THEN otPlatTimeGet % Width ELSE phrTxTime
  IN ((((sample % Width) % period) - (phr % period) + period) % Width) % period

ClockNext ==
  \/ Microsecond
  \/ BtOverflow
  \/ \E diff \in 0 .. 2 * MAX_BT_CLOCK_COUNTER : PowerManagerSleeps(diff)
  \/ PowerManagerWakes
  \/ zbpm_exit_pan0
  \/ RxDone
  \/ readFrame
  \/ \E aCslSampleTime \in NextSample : otPlatRadioUpdateCslSampleTime(aCslSampleTime)

ClockSpec == ClockInit /\ [][ClockNext]_clockVars

-----------------------------------------------------------------------------
(* Properties.                                                             *)

\* otPlatTimeGet, and every time alarms and radio compute the same way, is the time
\* since power-on through all sleeps and wraps of the counter; only between a wrap and
\* its interrupt it is a range too small.
TimeExact == sleep = "awake" /\ ~overflow => otPlatTimeGet = elapsed

\* "Get the timestamp when the SFD was received": it is, unless the counter wrapped
\* before the task read the frame.
TimestampExact ==
  mTimestamp.of = NoRx \/ mTimestamp.of.wrapped \/ mTimestamp.value = mTimestamp.of.at

\* The phase in a frame leads its receiver to the sample time, for a frame of now or
\* of the near future, as long as both times have the same upper 32 bits or the period
\* divides 2^32, and the lower bits of the frame's time are not 0.
CslPhaseExact ==
  \A period \in CslPeriods, phrTxTime \in elapsed .. elapsed + 2 :
    (phrTxTime % Width # 0
       /\ (sample \div Width = phrTxTime \div Width \/ Width % period = 0)) =>
      (phrTxTime + getCslPhase(period, phrTxTime % Width) - sample) % period = 0
=============================================================================
