SPECIFICATION AwakeSpec
INVARIANT NoSleepInAck
