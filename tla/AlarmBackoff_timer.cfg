CONSTANTS
  Off = Off
  MaxDelay = 5
  kMinScheduleAdvanceUs = 2
  MaxEvents = 2
SPECIFICATION FairSpec
INVARIANTS SerialScheduled
PROPERTY BackoffEnds
