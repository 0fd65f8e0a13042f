CONSTANTS
  Off = Off
  MaxDelay = 3
  kMinScheduleAdvanceUs = 1
  MaxEvents = 2
SPECIFICATION Spec
INVARIANT ScheduledOrFired
