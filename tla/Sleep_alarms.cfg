CONSTANTS
  Off = Off
  MaxDelay = 3
  MaxEvents = 1
  kMinScheduleAdvanceUs = 1
  kMinSleepPeriodUs = 2
  MilliSlack = 1
  HalfBtClock = 2
SPECIFICATION FairSpec
INVARIANTS AlarmServed WakesInTime AwakeForAlarm
PROPERTY AlarmFires
