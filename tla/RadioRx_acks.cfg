CONSTANTS
  RX_BUF_SIZE = 2
  Frames <- AckFrames
  NONE = NONE
  CounterRange = 2
  MayProbe = TRUE
SPECIFICATION Spec
INVARIANTS AckCounterIsNonce AckForThisFrame
