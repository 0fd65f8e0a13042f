CONSTANTS
  KeyIdRange = 4
  Sequences = {2, 3, 4}
  CounterBound = 2
  ShortAddresses = {"s1", "s2"}
  ExtAddresses = {"x1", "x2"}
  PanIds = {1, 2}
  TableSize = 3
  MAX_BT_CLOCK_COUNTER = 6
  Width = 8
  CslPeriods = {3, 4}
  MaxTime = 16
SPECIFICATION PartsSpec
INVARIANTS ParsersAgree AckParses FrameUnderstood AckUnderstood CounterUsedOnce TableAsTold TimeExact TimestampExact CslPhaseExact AwakeHasTimer
